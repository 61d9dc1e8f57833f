-------------------------- MODULE RequestAssignment --------------------------
(***************************************************************************)
(* Which pool takes which node request (PoolWorker._assignHandlers,        *)
(* launcher.py): each pool's loop goes through the requests, and yields    *)
(* those that another pool should have: the pool of the provider that the  *)
(* request names, pools of a higher priority, and pools with its labels if *)
(* this one has not got them.  The pools know of each other from the       *)
(* registry of components: which pools there are is read once in a loop,   *)
(* whether they are paused when it matters.                                *)
(*                                                                         *)
(* A request asks for one node, and a provider has one pool.  What a       *)
(* handler does with a request that it took is in NodeRequests: here it    *)
(* launches a node, or pauses while its pool has no room.                  *)
(***************************************************************************)
EXTENDS Naturals, FiniteSets

CONSTANTS
    Pools, Requests, None,
    Configs,        \* records of the configuration, see Init
    Capacity,       \* of each pool: nodes at a time
    MaxConcurrency  \* max-concurrency of each provider, None if it has none

\* A loop's place in the requests is none of them.
ASSUME PoolsAssumption ==
    /\ None \notin Pools
    /\ IsFiniteSet(Requests) /\ {"idle", "loop"} \cap Requests = {}
    /\ Capacity \in Nat

VARIABLES
    conf,           \* the configuration
    status,         \* of each pool: "off", "on" or "stopped"
    shown,          \* component_info.paused of each pool, as registered
    state,          \* of each request: "none", "requested", "pending", "fulfilled",
                    \* "failed" or "returned" (the node is given back)
    declined,       \* declined_by
    holder,         \* of the request's lock: a pool or None
    work,           \* the pool's handler of a request: "none", "paused",
                    \* "launching" or "launched"
    node,           \* the pool that the request's node is of, or None
    at,             \* of each pool: "idle", "loop", or the request to lock next
    list,           \* launcher_pools of its loop
    queue,          \* the requests still ahead of its loop
    quota           \* label_quota of its loop

loopVars == <<at, list, queue, quota>>
vars == <<conf, status, shown, state, declined, holder, work, node, loopVars>>

Online == {p \in Pools : status[p] = "on"}
Used(p) == Cardinality({r \in Requests : node[r] = p})

\* Mutant: off by one
HasRoom_Full(p) == Used(p) <= Capacity

HasRoom(p) == Used(p) < Capacity

Paused(p) == {r \in Requests : work[r][p] = "paused"}

Serves(p, r) == r \in conf.serves[p]

\* getDeclinedReasons: labels, images, provider quota
Declines(p, r) == ~Serves(p, r) \/ p \in conf.unable

\* conf.limited: pools whose provider has a quota for each label (static)
Init ==
    /\ conf \in Configs
    /\ status \in [Pools -> {"off", "on"}] /\ Online # {}
    /\ shown = [p \in Pools |-> FALSE]
    /\ state = [r \in Requests |-> "none"]
    /\ declined = [r \in Requests |-> {}]
    /\ holder = [r \in Requests |-> None]
    /\ work = [r \in Requests |-> [p \in Pools |-> "none"]]
    /\ node = [r \in Requests |-> None]
    /\ at = [p \in Pools |-> "idle"]
    /\ list = [p \in Pools |-> {}] /\ queue = [p \in Pools |-> {}]
    /\ quota = [p \in Pools |-> 0]

-----------------------------------------------------------------------------
Submit(r) ==
    /\ state[r] = "none"
    /\ state' = [state EXCEPT ![r] = "requested"]
    /\ UNCHANGED <<conf, status, shown, declined, holder, work, node, loopVars>>

\* _process_paused_handlers, and the start of _assignHandlers
BeginLoop(p) ==
    /\ status[p] = "on" /\ at[p] = "idle"
    /\ LET goOn == {r \in Paused(p) : HasRoom(p)} IN
           /\ work' = [r \in Requests |-> IF r \in goOn THEN [work[r] EXCEPT ![p] = "launching"]
                                                        ELSE work[r]]
           /\ node' = [r \in Requests |-> IF r \in goOn THEN p ELSE node[r]]
           /\ shown' = [shown EXCEPT ![p] = Paused(p) \ goOn # {}]
           /\ quota' = [quota EXCEPT ![p] = Capacity - Used(p) - Cardinality(goOn)]
    /\ list' = [list EXCEPT ![p] = Online]
    /\ queue' = [queue EXCEPT ![p] = {r \in Requests : state[r] # "none"}]
    /\ at' = [at EXCEPT ![p] = "loop"]
    /\ UNCHANGED <<conf, status, state, declined, holder>>

\* Mutant: also those that have declined
Candidates_Declined(p, r) == {q \in list[p] : Serves(q, r)}

Candidates(p, r) == {q \in list[p] : Serves(q, r) /\ q \notin declined[r]}

YieldsToProvider(p, r) == conf.prefers[r] \in Candidates(p, r) \ {p}

YieldsToPriority(p, r) ==
    \E q \in Candidates(p, r) : conf.priority[q] < conf.priority[p] /\ ~shown[q]

LacksLabels(p, r) == ~Serves(p, r) /\ Candidates(p, r) # {}

NoLabelQuota(p, r) == p \in conf.limited /\ Serves(p, r) /\ quota[p] = 0

\* alive_thread_count: the launchers of its handlers that are complete
ActiveThreads(p) == Cardinality({r \in Requests : work[r][p] = "launched"})

Busy(p, r) ==
    /\ ~Declines(p, r)
    /\ \/ Paused(p) # {}
       \/ MaxConcurrency # None /\ ActiveThreads(p) >= MaxConcurrency

PassesOver(p, r) ==
    \/ state[r] # "requested" \/ p \in declined[r]
    \/ YieldsToProvider(p, r)
    \/ YieldsToPriority(p, r)
    \/ LacksLabels(p, r)
    \/ NoLabelQuota(p, r)
    \/ Busy(p, r)

\* Requests that the pool has no labels for come last
Comes(p, r) ==
    /\ at[p] = "loop" /\ r \in queue[p]
    /\ Serves(p, r) \/ \A other \in queue[p] : ~Serves(p, other)

PassOver(p, r) ==
    /\ Comes(p, r) /\ PassesOver(p, r)
    /\ queue' = [queue EXCEPT ![p] = @ \ {r}]
    /\ UNCHANGED <<conf, status, shown, state, declined, holder, work, node, at, list, quota>>

Choose(p, r) ==
    /\ Comes(p, r) /\ ~PassesOver(p, r)
    /\ at' = [at EXCEPT ![p] = r]
    /\ queue' = [queue EXCEPT ![p] = @ \ {r}]
    /\ UNCHANGED <<conf, status, shown, state, declined, holder, work, node, list, quota>>

\* Mutant: what the request was before it was locked is good enough
StillWanted_Unchecked(p, r) == holder[r] = None

\* Nobody else has the lock, and under it the request is as it should be
StillWanted(p, r) ==
    holder[r] = None /\ state[r] = "requested" /\ p \notin declined[r]

GiveUp(p, r) ==
    /\ at[p] = r /\ ~StillWanted(p, r)
    /\ at' = [at EXCEPT ![p] = "loop"]
    /\ UNCHANGED <<conf, status, shown, state, declined, holder, work, node, list, queue, quota>>

Take(p, r) ==
    /\ at[p] = r /\ StillWanted(p, r) /\ ~Declines(p, r)
    /\ at' = [at EXCEPT ![p] = "loop"]
    /\ state' = [state EXCEPT ![r] = "pending"]
    /\ holder' = [holder EXCEPT ![r] = p]
    /\ IF HasRoom(p)
       THEN /\ work' = [work EXCEPT ![r][p] = "launching"]
            /\ node' = [node EXCEPT ![r] = p]
            /\ quota' = [quota EXCEPT ![p] = IF @ = 0 THEN 0 ELSE @ - 1]
       ELSE /\ work' = [work EXCEPT ![r][p] = "paused"]
            /\ UNCHANGED <<node, quota>>
    /\ UNCHANGED <<conf, status, shown, declined, list, queue>>

\* Mutant: everybody is who was there when the loop began
Everybody_Listed(p) == list[p]

Everybody(p) == Online

\* declineRequest, with the lock taken before it and released after it
Decline(p, r) ==
    /\ at[p] = r /\ StillWanted(p, r) /\ Declines(p, r)
    /\ at' = [at EXCEPT ![p] = "loop"]
    /\ declined' = [declined EXCEPT ![r] = @ \cup {p}]
    /\ state' = [state EXCEPT ![r] = IF Everybody(p) \subseteq declined'[r]
                                     THEN "failed" ELSE "requested"]
    /\ UNCHANGED <<conf, status, shown, holder, work, node, list, queue, quota>>

\* _removeCompletedHandlers, and the wait for the next loop
EndLoop(p) ==
    /\ at[p] = "loop" /\ queue[p] = {}
    /\ LET done == {r \in Requests : work[r][p] = "launched"} IN
           /\ state' = [r \in Requests |-> IF r \in done THEN "fulfilled" ELSE state[r]]
           /\ holder' = [r \in Requests |-> IF r \in done THEN None ELSE holder[r]]
           /\ work' = [r \in Requests |-> IF r \in done THEN [work[r] EXCEPT ![p] = "none"]
                                                        ELSE work[r]]
    /\ at' = [at EXCEPT ![p] = "idle"]
    /\ UNCHANGED <<conf, status, shown, declined, node, list, queue, quota>>

LoopStep(p) ==
    \/ BeginLoop(p) \/ EndLoop(p)
    \/ \E r \in Requests : \/ PassOver(p, r) \/ Choose(p, r)
                           \/ GiveUp(p, r) \/ Take(p, r) \/ Decline(p, r)

LaunchComplete(p, r) ==
    /\ work[r][p] = "launching"
    /\ work' = [work EXCEPT ![r][p] = "launched"]
    /\ UNCHANGED <<conf, status, shown, state, declined, holder, node, loopVars>>

ZuulReturns(r) ==
    /\ state[r] = "fulfilled"
    /\ state' = [state EXCEPT ![r] = "returned"]
    /\ node' = [node EXCEPT ![r] = None]
    /\ UNCHANGED <<conf, status, shown, declined, holder, work, loopVars>>

\* The pool's component is registered
Join(p) ==
    /\ status[p] = "off"
    /\ status' = [status EXCEPT ![p] = "on"]
    /\ UNCHANGED <<conf, shown, state, declined, holder, work, node, loopVars>>

\* The launcher of a pool is gone, and others clean up what it held
Stop(p) ==
    /\ status[p] = "on" /\ Online # {p}
    /\ status' = [status EXCEPT ![p] = "stopped"]
    /\ shown' = [shown EXCEPT ![p] = FALSE]
    /\ LET held == {r \in Requests : holder[r] = p} IN
           /\ state' = [r \in Requests |-> IF r \in held THEN "requested" ELSE state[r]]
           /\ node' = [r \in Requests |-> IF r \in held THEN None ELSE node[r]]
           /\ holder' = [r \in Requests |-> IF r \in held THEN None ELSE holder[r]]
    /\ work' = [r \in Requests |-> [work[r] EXCEPT ![p] = "none"]]
    /\ at' = [at EXCEPT ![p] = "idle"] /\ queue' = [queue EXCEPT ![p] = {}]
    /\ list' = [list EXCEPT ![p] = {}] /\ quota' = [quota EXCEPT ![p] = 0]
    /\ UNCHANGED <<conf, declined>>

Next ==
    \/ \E p \in Pools : LoopStep(p) \/ Join(p) \/ Stop(p)
    \/ \E r \in Requests : \/ Submit(r) \/ ZuulReturns(r)
                           \/ \E p \in Pools : LaunchComplete(p, r)

Spec == Init /\ [][Next]_vars

(* Each pool's loop and the launches go on, and Zuul gives nodes back *)
LiveSpec ==
    /\ Spec
    /\ \A p \in Pools : WF_vars(LoopStep(p))
    /\ \A r \in Requests : /\ WF_vars(ZuulReturns(r))
                           /\ \A p \in Pools : WF_vars(LaunchComplete(p, r))

-----------------------------------------------------------------------------
RequestsTyped ==
    /\ state \in [Requests -> {"none", "requested", "pending", "fulfilled", "failed", "returned"}]
    /\ declined \in [Requests -> SUBSET Pools]
    /\ holder \in [Requests -> Pools \cup {None}] /\ node \in [Requests -> Pools \cup {None}]
    /\ work \in [Requests -> [Pools -> {"none", "paused", "launching", "launched"}]]

TypeOK ==
    /\ RequestsTyped
    /\ status \in [Pools -> {"off", "on", "stopped"}] /\ shown \in [Pools -> BOOLEAN]
    /\ at \in [Pools -> Requests \cup {"idle", "loop"}]
    /\ list \in [Pools -> SUBSET Pools] /\ queue \in [Pools -> SUBSET Requests]
    /\ quota \in [Pools -> 0 .. Capacity]

Done(r) == state[r] \in {"fulfilled", "returned", "failed"}

(* A pool that chose a request before another one concluded it does not    *)
(* take it again, nor does it decline it: what is fulfilled or failed      *)
(* stays so, and one handler works on what is pending (the checks that     *)
(* follow lockNodeRequest).                                                *)
TakenOnce ==
    [][\A r \in Requests :
           /\ Done(r) => Done(r)'
           /\ \A p, q \in Pools : work'[r][p] # "none" /\ work'[r][q] # "none" => p = q]_vars

(* A request fails only when none of the pools that are there then could   *)
(* have served it, whoever joined since the last one of them began its     *)
(* loop (declineRequest).                                                  *)
FailsOnlyIfNobodyCan ==
    [][\A r \in Requests : state[r] # "failed" /\ state'[r] = "failed" =>
           \A p \in Online : Declines(p, r)]_vars

\* It names a provider, and a pool with its labels has a higher priority
Contrary(r) ==
    conf.prefers[r] # None /\ \E q \in Pools :
        Serves(q, r) /\ conf.priority[q] < conf.priority[conf.prefers[r]]

(* While no pool goes away, every request is handled in the end, unless    *)
(* the provider it names has to yield it itself: whatever is yielded to    *)
(* another pool is taken there (_assignHandlers).                          *)
RequestsHandled ==
    \A r \in Requests :
        ~Contrary(r) /\ [](\A p \in Pools : status[p] # "stopped") =>
            (state[r] = "requested" ~> Done(r))
=============================================================================
