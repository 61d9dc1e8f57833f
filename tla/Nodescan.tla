------------------------------- MODULE Nodescan -------------------------------
(***************************************************************************)
(* The thread that scans the ssh host keys of new nodes                    *)
(* (NodescanWorker and NodescanRequest, driver/statemachine.py).  Each     *)
(* request is a state machine; the worker polls their sockets, which       *)
(* report once each, and then advances the requests in the order of a      *)
(* list that it, and the threads that launch nodes, change meanwhile.      *)
(*                                                                         *)
(* advance() is one step.  A connection that succeeds at once is left out: *)
(* connect() of a socket that does not block says EINPROGRESS.             *)
(***************************************************************************)
EXTENDS Naturals, FiniteSets, Sequences, SequencesExt

CONSTANTS
    Requests,       \* scans that the launches of nodes will ask for
    Limits,         \* what MAX_REQUESTS may be
    KeyTypes        \* the number of key types that a host offers

VARIABLES
    limit,          \* MAX_REQUESTS
    req,            \* of each request: a record
    active,         \* _active_requests
    pending,        \* _pending_requests
    ready,          \* the requests whose socket the last poll reported
    idx             \* position in _active_requests, 0 while polling

vars == <<limit, req, active, pending, ready, idx>>

States == {"new", "start", "connecting", "negotiating", "connecting key",
           "negotiating key", "complete", "removed"}

\* check and gather: host_key_checking of the label, and whether the
\* connection type is one of ssh's
Fresh(check, gather) ==
    [state |-> "new", check |-> check, gather |-> gather,
     sock |-> "none",       \* "none", "pending", "open" or "refused"
     armed |-> FALSE,       \* registered with the poll object, and not yet reported
     event |-> "none",      \* of the transport: "none", "running", "ok" or "error"
     key |-> 0,             \* key_index + 1
     late |-> FALSE,        \* the time for the whole scan is over
     error |-> FALSE, complete |-> FALSE]

Init ==
    /\ limit \in Limits
    /\ req \in [Requests -> {Fresh(TRUE, TRUE), Fresh(TRUE, FALSE), Fresh(FALSE, TRUE)}]
    /\ active = <<>> /\ pending = <<>> /\ ready = {} /\ idx = 0

(***************************************************************************)
(* The threads that launch nodes                                           *)
(***************************************************************************)
AddRequest(r) ==
    /\ req[r].state = "new"
    /\ req' = [req EXCEPT ![r].state = "start"]
    /\ IF Len(active) >= limit
       THEN pending' = Append(pending, r) /\ UNCHANGED active
       ELSE active' = Append(active, r) /\ UNCHANGED pending
    /\ UNCHANGED <<limit, ready, idx>>

_Close(q) == [q EXCEPT !.sock = "none", !.armed = FALSE, !.event = "none"]

\* The launch timed out, or its session is lost
RemoveRequest(r) ==
    /\ req[r].state \notin {"new", "removed"} /\ ~req[r].complete
    /\ req' = [req EXCEPT ![r] = [_Close(req[r]) EXCEPT !.state = "removed"]]
    /\ active' = RemoveFirst(active, r) /\ pending' = RemoveFirst(pending, r)
    /\ UNCHANGED <<limit, ready, idx>>

(***************************************************************************)
(* advance(): the set of what it may make of a request                     *)
(***************************************************************************)
Fail(q) == [_Close(q) EXCEPT !.state = "complete", !.complete = TRUE, !.error = TRUE]
Complete(q) == [_Close(q) EXCEPT !.state = "complete", !.complete = TRUE]
_CheckTimeout(q) == IF q.late THEN Fail(q) ELSE q
Start(q) == [_Close(q) EXCEPT !.state = "start"]
_Connect(q, state) == [q EXCEPT !.sock = "pending", !.armed = TRUE, !.state = state]
_Start(q, state) == [q EXCEPT !.event = "running", !.state = state]

\* Whether the next key type is tried or there is none; connect() may raise
_NextKey(q) ==
    IF q.key < KeyTypes
    THEN {_Connect([_Close(q) EXCEPT !.key = @ + 1], "connecting key"), Fail(q)}
    ELSE {[_Close(q) EXCEPT !.state = "complete"]}

AdvanceStart(q) ==
    IF ~q.check THEN {Complete(q)}
    ELSE {Fail(q), _CheckTimeout(_Connect(q, "connecting"))}

\* Ten seconds without an answer are a reason to connect again
AdvanceConnecting(q, isReady) ==
    CASE ~isReady -> {_CheckTimeout(q)} \cup (IF q.late THEN {} ELSE {Start(q)})
      [] isReady /\ q.sock = "refused" -> {_CheckTimeout(Start(q))}
      [] isReady /\ q.sock = "open" ->
            IF q.gather THEN {_CheckTimeout(_Start(q, "negotiating"))} ELSE {Complete(q)}

AdvanceNegotiating(q) ==
    CASE q.event = "running" -> {_CheckTimeout(q)}
      [] q.event = "error" ->
            {Fail(q)} \cup (IF q.late THEN {} ELSE {_Connect(_Close(q), "connecting")})
      [] q.event = "ok" -> {IF k.state = "complete" THEN Complete(k) ELSE _CheckTimeout(k)
                               : k \in _NextKey(q)}

\* Mutant: only the whole connection has a timeout
AdvanceConnectingKey_Waits(q, isReady) ==
    CASE ~isReady -> {q}
      [] isReady /\ q.sock = "refused" -> _NextKey(q)
      [] isReady /\ q.sock = "open" -> {_CheckTimeout(_Start(q, "negotiating key"))}

AdvanceConnectingKey(q, isReady) ==
    CASE ~isReady -> {_CheckTimeout(q)}
      [] isReady /\ q.sock = "refused" -> _NextKey(q)
      [] isReady /\ q.sock = "open" -> {_CheckTimeout(_Start(q, "negotiating key"))}

AdvanceNegotiatingKey(q) ==
    IF q.event = "running"
    THEN {_CheckTimeout(q)}
    ELSE {IF k.state = "complete" THEN Complete(k) ELSE k : k \in _NextKey(q)}

Advanced(q, isReady) ==
    CASE q.state = "start" -> AdvanceStart(q)
      [] q.state = "connecting" -> AdvanceConnecting(q, isReady)
      [] q.state = "negotiating" -> AdvanceNegotiating(q)
      [] q.state = "connecting key" -> AdvanceConnectingKey(q, isReady)
      [] q.state = "negotiating key" -> AdvanceNegotiatingKey(q)
      [] q.state = "complete" -> {IF q.error THEN Fail(q) ELSE Complete(q)}

(***************************************************************************)
(* The worker                                                              *)
(***************************************************************************)
Room == IF Len(active) >= limit THEN 0
        ELSE IF Len(pending) <= limit - Len(active) THEN Len(pending)
        ELSE limit - Len(active)

\* The poll reports each answered socket once (EPOLLONESHOT)
Poll ==
    /\ idx = 0
    /\ active' = active \o SubSeq(pending, 1, Room)
    /\ pending' = SubSeq(pending, Room + 1, Len(pending))
    /\ ready' = {r \in ToSet(active') : req[r].armed /\ req[r].sock \in {"open", "refused"}}
    /\ req' = [r \in Requests |-> [req[r] EXCEPT !.armed = @ /\ r \notin ready']]
    /\ idx' = 1
    /\ UNCHANGED limit

\* A request that is complete leaves the list that is being iterated over,
\* and the one after it moves into its place
Advance ==
    /\ idx \in 1 .. Len(active)
    /\ LET r == active[idx] IN
       \E q \in Advanced(req[r], r \in ready) :
           /\ req' = [req EXCEPT ![r] = q]
           /\ active' = IF q.complete THEN RemoveFirst(active, r) ELSE active
    /\ idx' = idx + 1
    /\ UNCHANGED <<limit, pending, ready>>

EndRound ==
    /\ idx > Len(active)
    /\ idx' = 0 /\ ready' = {}
    /\ UNCHANGED <<limit, req, active, pending>>

(***************************************************************************)
(* The hosts, their transports, and time                                   *)
(***************************************************************************)
HostAnswers(r) ==
    /\ req[r].sock = "pending"
    /\ \E s \in {"open", "refused"} : req' = [req EXCEPT ![r].sock = s]
    /\ UNCHANGED <<limit, active, pending, ready, idx>>

Negotiated(r) ==
    /\ req[r].event = "running"
    /\ \E e \in {"ok", "error"} : req' = [req EXCEPT ![r].event = e]
    /\ UNCHANGED <<limit, active, pending, ready, idx>>

GetsLate(r) ==
    /\ req[r].state \notin {"new", "removed"} /\ ~req[r].complete /\ ~req[r].late
    /\ req' = [req EXCEPT ![r].late = TRUE]
    /\ UNCHANGED <<limit, active, pending, ready, idx>>

Next ==
    \/ Poll \/ Advance \/ EndRound
    \/ \E r \in Requests : \/ AddRequest(r) \/ RemoveRequest(r)
                           \/ HostAnswers(r) \/ Negotiated(r) \/ GetsLate(r)

Spec == Init /\ [][Next]_vars

(* The worker runs, and time passes; hosts need not answer *)
Fairness ==
    /\ WF_vars(Poll) /\ WF_vars(Advance) /\ WF_vars(EndRound)
    /\ \A r \in Requests : WF_vars(GetsLate(r))

LiveSpec == Spec /\ Fairness

-----------------------------------------------------------------------------
TypeOK ==
    /\ \A r \in Requests :
          /\ req[r].state \in States /\ req[r].sock \in {"none", "pending", "open", "refused"}
          /\ req[r].event \in {"none", "running", "ok", "error"} /\ req[r].key \in 0 .. KeyTypes
          /\ req[r].armed => req[r].sock # "none"
    /\ active \in Seq(Requests) /\ pending \in Seq(Requests)
    /\ ready \subseteq Requests /\ idx \in 0 .. Cardinality(Requests) + 1

(* Every scan ends, with keys or an error, unless its launch gives it up:  *)
(* none waits for ever for a host, for a turn, or for room among the       *)
(* active ones (NodescanWorker.run).                                       *)
ScansEnd ==
    \A r \in Requests : req[r].state = "start" ~> req[r].complete \/ req[r].state = "removed"
=============================================================================
