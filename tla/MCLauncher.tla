------------------------------ MODULE MCLauncher ------------------------------
(* Two things around the handling of node requests in a launcher: which    *)
(* pool takes which request, and the cache that the nodes are read from.   *)
(* Each is checked by itself: a behaviour is about one of them, and leaves *)
(* the other as it was at first.                                           *)
EXTENDS RequestAssignment, Integers

CONSTANTS
    p1, p2, r1, r2,
    Ids, MaxVersions, MaxUpsets     \* of the cache

\* A node that is created is written.
ASSUME CacheAssumption == MaxVersions \in Nat \ {0}

VARIABLES
    part,       \* what the behaviour is about
    znode, version, contender, conn, watch, start, todo, seen, stop, ready, events,
    playback, paths, entry, data, stat, contenders, pc, own, upsets

TwoPools == {p1, p2}
TwoRequests == {r1, r2}

\* p1 may lack r2's labels; it has priority, or p2 cannot serve what it has
\* labels for; it is named by r1, or it has label quotas
EightConfigs ==
    {[serves |-> [p \in TwoPools |-> IF p = p1 THEN s ELSE TwoRequests],
      priority |-> [p \in TwoPools |-> IF p = p1 /\ u = {} THEN 50 ELSE 100],
      prefers |-> [r \in TwoRequests |-> IF r = r1 /\ l = {} THEN p1 ELSE None],
      unable |-> u, limited |-> l] : s \in {TwoRequests, {r1}}, u \in {{}, {p2}}, l \in {{}, {p1}}}

C == INSTANCE TreeCache WITH state <- znode

cvars == <<znode, version, contender, conn, watch, start, todo, seen, stop, ready, events,
           playback, paths, entry, data, stat, contenders, pc, own, upsets>>
allVars == <<part, vars, cvars>>

BothInit ==
    /\ part \in {"assignment", "cache"}
    /\ Init /\ C!Init
    /\ part = "cache" => status = [p \in Pools |-> "on"] /\ conf = CHOOSE c \in Configs : TRUE
    /\ part = "assignment" => znode = [n \in Ids |-> "unborn"]

BothNext ==
    \/ part = "assignment" /\ Next /\ UNCHANGED <<part, cvars>>
    \/ part = "cache" /\ C!Next /\ UNCHANGED <<part, vars>>

(* The fairness of each, in the behaviours that are about it *)
BothSpec ==
    /\ BothInit /\ [][BothNext]_allVars
    /\ \A p \in Pools : WF_vars(part = "assignment" /\ LoopStep(p))
    /\ \A r \in Requests :
           /\ WF_vars(part = "assignment" /\ ZuulReturns(r))
           /\ \A p \in Pools : WF_vars(part = "assignment" /\ LaunchComplete(p, r))
    /\ WF_cvars(part = "cache" /\ C!StartCache) /\ WF_cvars(part = "cache" /\ C!WalkRoot)
    /\ WF_cvars(part = "cache" /\ C!WalkEnd)
    /\ WF_cvars(part = "cache" /\ \E n \in Ids : C!WalkNode(n))
    /\ WF_cvars(part = "cache" /\ C!EventWorker) /\ WF_cvars(part = "cache" /\ C!PlaybackWorker)
    /\ \A n \in Ids : WF_cvars(part = "cache" /\ C!ThreadGoesOn(n))

TypesOK == TypeOK /\ C!TypeOK
ViewSpec == C!ViewSpec
CatchesUp == C!CatchesUp
=============================================================================
