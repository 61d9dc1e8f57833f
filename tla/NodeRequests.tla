---------------------------- MODULE NodeRequests ----------------------------
(***************************************************************************)
(* How nodepool's launchers turn node requests into nodes: the PoolWorker  *)
(* and its NodeRequestHandlers, the CleanupWorker's reset of lost requests *)
(* and ageing of nodes, the DeletedNodeWorker, and the min-ready           *)
(* bookkeeping of the NodePool thread, over the records and locks they     *)
(* share in ZooKeeper.  Zuul, the requestor, is an environment.            *)
(*                                                                         *)
(* Every launcher process serves one pool here, so a pool's name also      *)
(* names the process and its ZooKeeper session; all pools belong to one    *)
(* provider and share its quota.  A crash ends the session: the ephemeral  *)
(* locks of the process are released and its handlers are forgotten.       *)
(***************************************************************************)
EXTENDS Naturals, FiniteSets

CONSTANTS
    Pools,          \* launcher pools (launcher_id)
    Requests,       \* node request ids
    Nodes,          \* node ids; an id is reused once nothing refers to it
    Wants,          \* Wants[r]: number of node types r asks for
    MinReady,       \* requests a launcher submits itself (NodePool:min-ready)
    Submitter,      \* Submitter[r]: the launcher that submits r \in MinReady
    MaxServers,     \* MaxServers[p]: the pool's max-servers
    ProviderQuota,  \* instances the provider allows over all its pools
    PauseAtQuota,   \* Provider.PAUSE_AT_QUOTA
    MaxReadyAge,    \* TRUE iff some label sets max-ready-age
    MaxCrashes,     \* bound: launcher crashes
    MaxFailures,    \* bound: launches and deletions that fail
    Zuul,           \* lock holder: a Zuul scheduler or executor
    None            \* no lock, no allocation, nothing in progress

Handler(p) == <<p, "handler">>
Cleaner(p) == <<p, "cleaner">>
Deleter(p) == <<p, "deleter">>

ASSUME ConstantsAssumption ==
    /\ Wants \in [Requests -> Nat \ {0}]
    /\ MinReady \subseteq Requests
    /\ \A r \in MinReady : Wants[r] = 1
    /\ Submitter \in [MinReady -> Pools]
    /\ MaxServers \in [Pools -> Nat]
    /\ ProviderQuota \in Nat
    /\ PauseAtQuota \in BOOLEAN
    /\ MaxReadyAge \in BOOLEAN
    /\ MaxCrashes \in Nat
    /\ MaxFailures \in Nat
    /\ None \notin Requests \cup Nodes \cup Pools
    /\ Zuul # None
    /\ \A p \in Pools, role \in {"handler", "cleaner", "deleter"} :
          <<p, role>> \notin {Zuul, None}

VARIABLES
    nodeState,      \* state of the node's znode, or "absent"
    nodeAlloc,      \* allocated_to
    nodePool,       \* pool; kept while a launcher still has the Node object
    nodeLock,       \* holder of the node's lock
    local,          \* state of the Node object its handler and launcher share
    reqState,       \* state of the request's znode
    declined,       \* declined_by
    reqNodes,       \* nodes
    reqLock,        \* holder of the request's lock
    phase,          \* phase[p][r]: where p's handler of r is, or "none"
    nodeset,        \* nodeset[p][r]: the handler's nodeset
    satisfied,      \* satisfied[p][r]: node ids in _satisfied_types
    verdict,        \* verdict[p][r]: request.state about to be stored by poll
    creating,       \* creating[p]: INIT node stored and not yet locked
    resetting,      \* resetting[p]: lost request the CleanupWorker holds
    resetTodo,      \* resetTodo[p]: its nodes still to be deallocated
    aging,          \* aging[p]: ready nodes the CleanupWorker is going over
    up,             \* registered pools
    crashes,        \* crashes so far
    failures        \* launches and deletions that failed so far

zkNode  == <<nodeState, nodeAlloc, nodePool, nodeLock>>
zkReq   == <<reqState, declined, reqNodes, reqLock>>
handler == <<phase, nodeset, satisfied, verdict, creating>>
cleanup == <<resetting, resetTodo, aging>>
bounds  == <<up, crashes, failures>>
vars    == <<zkNode, local, zkReq, handler, cleanup, bounds>>

NodeStates  == {"absent", "INIT", "BUILDING", "READY", "FAILED", "ABORTED",
                "IN_USE", "USED", "HOLD", "DELETING"}
LocalStates == {"none", "BUILDING", "READY", "FAILED", "ABORTED"}
ReqStates   == {"absent", "REQUESTED", "PENDING", "FULFILLED", "FAILED",
                "removed"}
Phases      == {"none", "filling", "granted", "paused", "releasing",
                "launching", "storing", "popped"}
Holders     == {Zuul, None}
                 \cup {Handler(p) : p \in Pools}
                 \cup {Cleaner(p) : p \in Pools}
                 \cup {Deleter(p) : p \in Pools}

(* Mutant: aborted nodes are not cleaned up. *)
CleanupStates_NoAborted == {"USED", "IN_USE", "BUILDING", "FAILED", "DELETING"}

(* States an unlocked node is deleted from: cleanup_states *)
CleanupStates == {"USED", "IN_USE", "BUILDING", "FAILED", "DELETING",
                  "ABORTED"}

TypeOK ==
    /\ nodeState \in [Nodes -> NodeStates]
    /\ nodeAlloc \in [Nodes -> Requests \cup {None}]
    /\ nodePool \in [Nodes -> Pools \cup {None}]
    /\ nodeLock \in [Nodes -> Holders]
    /\ local \in [Nodes -> LocalStates]
    /\ reqState \in [Requests -> ReqStates]
    /\ declined \in [Requests -> SUBSET Pools]
    /\ reqNodes \in [Requests -> SUBSET Nodes]
    /\ reqLock \in [Requests -> Holders]
    /\ phase \in [Pools -> [Requests -> Phases]]
    /\ nodeset \in [Pools -> [Requests -> SUBSET Nodes]]
    /\ satisfied \in [Pools -> [Requests -> SUBSET Nodes]]
    /\ verdict \in [Pools -> [Requests -> ReqStates]]
    /\ creating \in [Pools -> Nodes \cup {None}]
    /\ resetting \in [Pools -> Requests \cup {None}]
    /\ resetTodo \in [Pools -> SUBSET Nodes]
    /\ aging \in [Pools -> SUBSET Nodes]
    /\ up \subseteq Pools
    /\ crashes \in 0..MaxCrashes
    /\ failures \in 0..MaxFailures

Init ==
    /\ nodeState = [n \in Nodes |-> "absent"]
    /\ nodeAlloc = [n \in Nodes |-> None]
    /\ nodePool = [n \in Nodes |-> None]
    /\ nodeLock = [n \in Nodes |-> None]
    /\ local = [n \in Nodes |-> "none"]
    /\ reqState = [r \in Requests |-> "absent"]
    /\ declined = [r \in Requests |-> {}]
    /\ reqNodes = [r \in Requests |-> {}]
    /\ reqLock = [r \in Requests |-> None]
    /\ phase = [p \in Pools |-> [r \in Requests |-> "none"]]
    /\ nodeset = [p \in Pools |-> [r \in Requests |-> {}]]
    /\ satisfied = [p \in Pools |-> [r \in Requests |-> {}]]
    /\ verdict = [p \in Pools |-> [r \in Requests |-> "absent"]]
    /\ creating = [p \in Pools |-> None]
    /\ resetting = [p \in Pools |-> None]
    /\ resetTodo = [p \in Pools |-> {}]
    /\ aging = [p \in Pools |-> {}]
    /\ up = Pools
    /\ crashes = 0
    /\ failures = 0
----------------------------------------------------------------------------
(* What the code reads before it acts *)

Exists(n) == nodeState[n] # "absent"
ReqExists(r) == reqState[r] \notin {"absent", "removed"}

(* ZooKeeper's sequence nodes never repeat an id: an id stands for a new   *)
(* one when nothing in the system mentions it any more.                    *)
FreshId(n) ==
    /\ nodeState[n] = "absent" /\ local[n] = "none"
    /\ \A r \in Requests : n \notin reqNodes[r]
    /\ \A p \in Pools :
          /\ n \notin resetTodo[p] \cup aging[p] /\ creating[p] # n
          /\ \A r \in Requests : n \notin nodeset[p][r] \cup satisfied[p][r]

(* Request.requestor = "NodePool:min-ready" forces new launches *)
Reuses(r) == r \notin MinReady

(* hasProviderQuota: the request fits when nothing else is running *)
hasProviderQuota(p, r) ==
    Wants[r] <= MaxServers[p] /\ Wants[r] <= ProviderQuota

(* hasRemainingQuota: one more node fits, by the znodes that exist *)
hasRemainingQuota(p) ==
    /\ Cardinality({n \in Nodes : Exists(n)}) < ProviderQuota
    /\ Cardinality({n \in Nodes : Exists(n) /\ nodePool[n] = p})
         < MaxServers[p]

(* The PoolWorker is one thread: while it runs one handler's run() or      *)
(* poll() it does nothing else.                                            *)
Idle(p) ==
    /\ p \in up
    /\ \A r \in Requests :
          phase[p][r] \notin {"filling", "granted", "releasing", "storing"}

(* needed_types is not empty *)
Needs(p, r) == Cardinality(satisfied[p][r]) < Wants[r]

(* _declineRequest: the state the declined request goes to *)
DeclinedState(p, r) ==
    IF up \subseteq declined[r] \cup {p} THEN "FAILED" ELSE "REQUESTED"
----------------------------------------------------------------------------
(* Pieces of handlers *)

(* Unlocking a set of nodes gives up only the locks the handler holds. *)
Unlocked(p, S) ==
    [n \in Nodes |-> IF n \in S /\ nodeLock[n] = Handler(p)
                     THEN None ELSE nodeLock[n]]

(* unlockNodeSet(clear_allocation=True): each Node object is stored whole, *)
(* so its local state is written along with the cleared allocation.        *)
UnlockAndClear(p, S) ==
    /\ nodeState' = [n \in Nodes |-> IF n \in S /\ Exists(n)
                                     THEN local[n] ELSE nodeState[n]]
    /\ nodeAlloc' = [n \in Nodes |-> IF n \in S THEN None ELSE nodeAlloc[n]]
    /\ nodeLock' = Unlocked(p, S)
    /\ local' = [n \in Nodes |-> IF n \in S /\ local[n] # "BUILDING"
                                 THEN "none" ELSE local[n]]
    /\ UNCHANGED nodePool

(* Unlocked without clearing: the Node objects are dropped. *)
UnlockOnly(p, S) ==
    /\ nodeLock' = Unlocked(p, S)
    /\ local' = [n \in Nodes |-> IF n \in S THEN "none" ELSE local[n]]
    /\ UNCHANGED <<nodeState, nodeAlloc, nodePool>>

(* unlockNodeRequest *)
ReleaseRequest(p, r) ==
    reqLock' = [reqLock EXCEPT ![r] = IF @ = Handler(p) THEN None ELSE @]

DropHandler(p, r) ==
    /\ phase' = [phase EXCEPT ![p][r] = "none"]
    /\ nodeset' = [nodeset EXCEPT ![p][r] = {}]
    /\ satisfied' = [satisfied EXCEPT ![p][r] = {}]
    /\ verdict' = [verdict EXCEPT ![p][r] = "absent"]

(* _declinedHandlerCleanup with request.state = s and declined_by = d.  A  *)
(* request that is gone cannot be stored; its lock is then not released.   *)
DeclinedHandlerCleanup(p, r, s, d) ==
    /\ UnlockAndClear(p, nodeset[p][r])
    /\ DropHandler(p, r)
    /\ IF ReqExists(r)
       THEN /\ reqState' = [reqState EXCEPT ![r] = s]
            /\ declined' = [declined EXCEPT ![r] = d]
            /\ ReleaseRequest(p, r)
       ELSE UNCHANGED <<reqState, declined, reqLock>>
    /\ UNCHANGED reqNodes

declineRequest(p, r) ==
    DeclinedHandlerCleanup(p, r, DeclinedState(p, r), declined[r] \cup {p})
----------------------------------------------------------------------------
(* PoolWorker: taking requests *)

(* _assignHandlers, no reason to decline: lock the request, check it again *)
(* and let run() store it as PENDING.                                      *)
AcceptRequest(p, r) ==
    /\ Idle(p)
    /\ \A q \in Requests : phase[p][q] # "paused"
    /\ phase[p][r] = "none"
    /\ hasProviderQuota(p, r)
    /\ reqState[r] = "REQUESTED" /\ p \notin declined[r]
    /\ reqLock[r] = None
    /\ reqLock' = [reqLock EXCEPT ![r] = Handler(p)]
    /\ reqState' = [reqState EXCEPT ![r] = "PENDING"]
    /\ phase' = [phase EXCEPT ![p][r] = "filling"]
    /\ UNCHANGED <<zkNode, local, declined, reqNodes, nodeset, satisfied,
                   verdict, creating, cleanup, bounds>>

(* _assignHandlers, with a reason to decline (label, image or quota): the  *)
(* request is locked, declined and unlocked without becoming PENDING.      *)
DeclineOnArrival(p, r) ==
    /\ Idle(p)
    /\ phase[p][r] = "none"
    /\ reqState[r] = "REQUESTED" /\ p \notin declined[r]
    /\ reqLock[r] = None
    /\ reqState' = [reqState EXCEPT ![r] = DeclinedState(p, r)]
    /\ declined' = [declined EXCEPT ![r] = @ \cup {p}]
    /\ UNCHANGED <<zkNode, local, reqNodes, reqLock, handler, cleanup, bounds>>

(* _process_paused_handlers: run() of a paused handler, no decline reason *)
RetryPaused(p, r) ==
    /\ Idle(p)
    /\ phase[p][r] = "paused"
    /\ phase' = [phase EXCEPT ![p][r] = "filling"]
    /\ UNCHANGED <<zkNode, local, zkReq, nodeset, satisfied, verdict, creating,
                   cleanup, bounds>>

(* _process_paused_handlers: by now there is a reason to decline *)
DeclinePaused(p, r) ==
    /\ Idle(p)
    /\ phase[p][r] = "paused"
    /\ declineRequest(p, r)
    /\ UNCHANGED <<creating, cleanup, bounds>>
----------------------------------------------------------------------------
(* NodeRequestHandler._waitForNodeSet, one needed type at a time *)

Filling(p, r) ==
    /\ p \in up /\ phase[p][r] = "filling" /\ creating[p] = None

(* Mutant: the allocation is not checked again after the lock. *)
ReuseNode_NoDoubleCheck(p, r, n) ==
    /\ Filling(p, r) /\ Needs(p, r) /\ Reuses(r)
    /\ nodePool[n] = p /\ nodeLock[n] = None /\ nodeState[n] = "READY"
    /\ nodeLock' = [nodeLock EXCEPT ![n] = Handler(p)]
    /\ nodeAlloc' = [nodeAlloc EXCEPT ![n] = r]
    /\ local' = [local EXCEPT ![n] = "READY"]
    /\ nodeset' = [nodeset EXCEPT ![p][r] = @ \cup {n}]
    /\ satisfied' = [satisfied EXCEPT ![p][r] = @ \cup {n}]
    /\ UNCHANGED <<nodeState, nodePool, zkReq, phase, verdict, creating,
                   cleanup, bounds>>

(* A ready node of this pool is locked, checked again and allocated. *)
ReuseNode(p, r, n) ==
    /\ Filling(p, r) /\ Needs(p, r) /\ Reuses(r)
    /\ nodePool[n] = p /\ nodeLock[n] = None
    /\ nodeState[n] = "READY" /\ nodeAlloc[n] = None
    /\ nodeLock' = [nodeLock EXCEPT ![n] = Handler(p)]
    /\ nodeAlloc' = [nodeAlloc EXCEPT ![n] = r]
    /\ local' = [local EXCEPT ![n] = "READY"]
    /\ nodeset' = [nodeset EXCEPT ![p][r] = @ \cup {n}]
    /\ satisfied' = [satisfied EXCEPT ![p][r] = @ \cup {n}]
    /\ UNCHANGED <<nodeState, nodePool, zkReq, phase, verdict, creating,
                   cleanup, bounds>>

(* No ready node was found and the quota check passed.  Nothing keeps the  *)
(* quota free until the node is stored: another pool may use it first.     *)
GrantQuota(p, r) ==
    /\ Filling(p, r) /\ Needs(p, r) /\ hasRemainingQuota(p)
    /\ phase' = [phase EXCEPT ![p][r] = "granted"]
    /\ UNCHANGED <<zkNode, local, zkReq, nodeset, satisfied, verdict, creating,
                   cleanup, bounds>>

(* The new node is stored as INIT, not locked yet. *)
CreateNode(p, r, n) ==
    /\ p \in up /\ phase[p][r] = "granted"
    /\ FreshId(n)
    /\ phase' = [phase EXCEPT ![p][r] = "filling"]
    /\ nodeState' = [nodeState EXCEPT ![n] = "INIT"]
    /\ nodeAlloc' = [nodeAlloc EXCEPT ![n] = r]
    /\ nodePool' = [nodePool EXCEPT ![n] = p]
    /\ creating' = [creating EXCEPT ![p] = n]
    /\ UNCHANGED <<nodeLock, local, zkReq, nodeset, satisfied, verdict,
                   cleanup, bounds>>

(* The node just created is locked, stored as BUILDING and launched. *)
LockNewNode(p, r, n) ==
    /\ p \in up /\ phase[p][r] = "filling" /\ creating[p] = n
    /\ nodeLock[n] = None
    /\ nodeLock' = [nodeLock EXCEPT ![n] = Handler(p)]
    /\ nodeState' = [nodeState EXCEPT ![n] = "BUILDING"]
    /\ local' = [local EXCEPT ![n] = "BUILDING"]
    /\ nodeset' = [nodeset EXCEPT ![p][r] = @ \cup {n}]
    /\ satisfied' = [satisfied EXCEPT ![p][r] = @ \cup {n}]
    /\ creating' = [creating EXCEPT ![p] = None]
    /\ UNCHANGED <<nodeAlloc, nodePool, zkReq, phase, verdict, cleanup, bounds>>

(* All requested types have a node. *)
NodeSetFilled(p, r) ==
    /\ Filling(p, r) /\ ~Needs(p, r)
    /\ phase' = [phase EXCEPT ![p][r] = "launching"]
    /\ UNCHANGED <<zkNode, local, zkReq, nodeset, satisfied, verdict, creating,
                   cleanup, bounds>>

AtQuota(p, r) == Filling(p, r) /\ Needs(p, r) /\ ~hasRemainingQuota(p)

(* deleteOldestUnusedNode: one unused ready node of the pool, if any is    *)
(* unlocked, is marked for deletion.  Its "recently deleting" guard        *)
(* compares seconds with milliseconds and never holds.                     *)
deleteOldestUnusedNode(p) ==
    LET unused == {n \in Nodes : /\ nodePool[n] = p /\ nodeLock[n] = None
                                 /\ nodeState[n] = "READY"
                                 /\ nodeAlloc[n] = None}
    IN  \/ unused = {} /\ UNCHANGED nodeState
        \/ \E n \in unused :
              nodeState' = [nodeState EXCEPT ![n] = "DELETING"]

(* At capacity the handler makes room and pauses, or is about to let go of *)
(* its request.                                                            *)
PauseHandler(p, r) ==
    /\ AtQuota(p, r) /\ r \notin MinReady
    /\ deleteOldestUnusedNode(p)
    /\ phase' = [phase EXCEPT ![p][r] =
                   IF PauseAtQuota THEN "paused" ELSE "releasing"]
    /\ UNCHANGED <<nodeAlloc, nodePool, nodeLock, local, zkReq, nodeset,
                   satisfied, verdict, creating, cleanup, bounds>>

(* A min-ready request is not worth waiting for. *)
DeclineMinReady(p, r) ==
    /\ AtQuota(p, r) /\ r \in MinReady
    /\ declineRequest(p, r)
    /\ UNCHANGED <<creating, cleanup, bounds>>

(* PAUSE_AT_QUOTA = False: the request is released as it is, PENDING. *)
ReleaseAtQuota(p, r) ==
    /\ p \in up /\ phase[p][r] = "releasing"
    /\ DeclinedHandlerCleanup(p, r, reqState[r], declined[r])
    /\ UNCHANGED <<creating, cleanup, bounds>>
----------------------------------------------------------------------------
(* The node launcher's thread, by its outcome *)

Launching(n) == local[n] = "BUILDING" /\ nodePool[n] \in up

(* The Node object's new state; it is dropped with the launcher when no    *)
(* handler has it any more.                                                *)
LaunchResult(n, s) ==
    local' = [local EXCEPT ![n] =
                IF \E p \in Pools, r \in Requests : n \in nodeset[p][r]
                THEN s ELSE "none"]

(* The Node object is stored whole: READY over whatever is there. *)
LaunchReady(n) ==
    /\ Launching(n)
    /\ nodeState' = [nodeState EXCEPT ![n] =
                        IF Exists(n) THEN "READY" ELSE @]
    /\ LaunchResult(n, "READY")
    /\ UNCHANGED <<nodeAlloc, nodePool, nodeLock, zkReq, handler, cleanup,
                   bounds>>

(* Retries exhausted: FAILED is set on the object and not stored. *)
LaunchFailed(n) ==
    /\ Launching(n)
    /\ failures < MaxFailures
    /\ failures' = failures + 1
    /\ LaunchResult(n, "FAILED")
    /\ UNCHANGED <<zkNode, zkReq, handler, cleanup, up, crashes>>

(* QuotaException *)
LaunchAborted(n) ==
    /\ Launching(n)
    /\ failures < MaxFailures
    /\ failures' = failures + 1
    /\ nodeState' = [nodeState EXCEPT ![n] =
                        IF Exists(n) THEN "ABORTED" ELSE @]
    /\ LaunchResult(n, "ABORTED")
    /\ UNCHANGED <<nodeAlloc, nodePool, nodeLock, zkReq, handler, cleanup, up,
                   crashes>>
----------------------------------------------------------------------------
(* NodeRequestHandler.poll *)

LaunchesComplete(p, r) ==
    /\ Idle(p) /\ phase[p][r] = "launching"
    /\ \A n \in nodeset[p][r] : local[n] # "BUILDING"

WithLocal(p, r, s) == {n \in nodeset[p][r] : local[n] = s}

(* "Node request disappeared".  The aborted nodes were unlocked, but not   *)
(* cleared, and left the nodeset first.                                    *)
PollRequestGone(p, r) ==
    /\ LaunchesComplete(p, r) \/ (Idle(p) /\ phase[p][r] = "popped")
    /\ ~ReqExists(r)
    /\ LET aborted == WithLocal(p, r, "ABORTED")
           kept == nodeset[p][r] \ aborted
       IN  /\ nodeState' = [n \in Nodes |-> IF n \in kept /\ Exists(n)
                                            THEN local[n] ELSE nodeState[n]]
           /\ nodeAlloc' = [n \in Nodes |-> IF n \in kept
                                            THEN None ELSE nodeAlloc[n]]
           /\ nodeLock' = Unlocked(p, nodeset[p][r])
           /\ local' = [n \in Nodes |-> IF n \in nodeset[p][r]
                                        THEN "none" ELSE local[n]]
    /\ ReleaseRequest(p, r)
    /\ DropHandler(p, r)
    /\ UNCHANGED <<nodePool, reqState, declined, reqNodes, creating, cleanup,
                   bounds>>

(* Mutant: the unlocked nodes stay in the nodeset. *)
PollDecide_KeepsNodes(p, r) ==
    /\ LaunchesComplete(p, r) /\ ReqExists(r)
    /\ \/ WithLocal(p, r, "FAILED") # {}
       \/ WithLocal(p, r, "ABORTED") = {}
    /\ verdict' = [verdict EXCEPT ![p][r] =
                     IF WithLocal(p, r, "FAILED") # {}
                     THEN DeclinedState(p, r) ELSE "FULFILLED"]
    /\ UnlockOnly(p, nodeset[p][r])
    /\ phase' = [phase EXCEPT ![p][r] = "storing"]
    /\ UNCHANGED <<zkReq, nodeset, satisfied, creating, cleanup, bounds>>

(* Nodes failed, or all are ready: the verdict is formed and the nodeset   *)
(* is unlocked, with its allocations kept.                                 *)
PollDecide(p, r) ==
    /\ LaunchesComplete(p, r) /\ ReqExists(r)
    /\ \/ WithLocal(p, r, "FAILED") # {}
       \/ WithLocal(p, r, "ABORTED") = {}
    /\ verdict' = [verdict EXCEPT ![p][r] =
                     IF WithLocal(p, r, "FAILED") # {}
                     THEN DeclinedState(p, r) ELSE "FULFILLED"]
    /\ UnlockOnly(p, nodeset[p][r])
    /\ nodeset' = [nodeset EXCEPT ![p][r] = {}]
    /\ phase' = [phase EXCEPT ![p][r] = "storing"]
    /\ UNCHANGED <<zkReq, satisfied, creating, cleanup, bounds>>

(* Some nodes were aborted, none failed: they are unlocked and the handler *)
(* pauses until it can launch replacements.                                *)
PollAborted(p, r) ==
    /\ LaunchesComplete(p, r) /\ ReqExists(r)
    /\ WithLocal(p, r, "FAILED") = {}
    /\ LET aborted == WithLocal(p, r, "ABORTED")
       IN  /\ aborted # {}
           /\ UnlockOnly(p, aborted)
           /\ nodeset' = [nodeset EXCEPT ![p][r] = @ \ aborted]
           /\ satisfied' = [satisfied EXCEPT ![p][r] = @ \ aborted]
    /\ phase' = [phase EXCEPT ![p][r] = "paused"]
    /\ UNCHANGED <<zkReq, verdict, creating, cleanup, bounds>>

(* The request is stored with its verdict and unlocked. *)
PollStore(p, r) ==
    /\ p \in up /\ phase[p][r] = "storing" /\ ReqExists(r)
    /\ reqState' = [reqState EXCEPT ![r] = verdict[p][r]]
    /\ IF verdict[p][r] = "FULFILLED"
       THEN /\ reqNodes' = [reqNodes EXCEPT ![r] = satisfied[p][r]]
            /\ UNCHANGED declined
       ELSE /\ declined' = [declined EXCEPT ![r] = @ \cup {p}]
            /\ UNCHANGED reqNodes
    /\ ReleaseRequest(p, r)
    /\ DropHandler(p, r)
    /\ UNCHANGED <<zkNode, local, creating, cleanup, bounds>>

(* storeNodeRequest finds the request gone and raises: the handler stays   *)
(* and the next poll() sees that the request disappeared.                  *)
PollStoreRaises(p, r) ==
    /\ p \in up /\ phase[p][r] = "storing" /\ ~ReqExists(r)
    /\ phase' = [phase EXCEPT ![p][r] = "popped"]
    /\ satisfied' = [satisfied EXCEPT ![p][r] = {}]
    /\ UNCHANGED <<zkNode, local, zkReq, nodeset, verdict, creating, cleanup,
                   bounds>>
----------------------------------------------------------------------------
(* CleanupWorker *)

(* Mutant: a PENDING request is taken for lost although it is locked. *)
LockLostRequest_Unchecked(p, r) ==
    /\ p \in up /\ resetting[p] = None /\ reqState[r] = "PENDING"
    /\ reqLock' = [reqLock EXCEPT ![r] = Cleaner(p)]
    /\ resetting' = [resetting EXCEPT ![p] = r]
    /\ resetTodo' = [resetTodo EXCEPT ![p] = {n \in Nodes : nodeAlloc[n] = r}]
    /\ UNCHANGED <<zkNode, local, reqState, declined, reqNodes, handler, aging,
                   bounds>>

(* _cleanupLostRequests: a PENDING request nobody holds is locked and      *)
(* checked again; the nodes allocated to it are listed.                    *)
LockLostRequest(p, r) ==
    /\ p \in up /\ resetting[p] = None
    /\ reqState[r] = "PENDING" /\ reqLock[r] = None
    /\ reqLock' = [reqLock EXCEPT ![r] = Cleaner(p)]
    /\ resetting' = [resetting EXCEPT ![p] = r]
    /\ resetTodo' = [resetTodo EXCEPT ![p] = {n \in Nodes : nodeAlloc[n] = r}]
    /\ UNCHANGED <<zkNode, local, reqState, declined, reqNodes, handler, aging,
                   bounds>>

(* _resetLostRequest for one node, waiting for its lock; an INIT node has  *)
(* lost its creator and is deleted.                                        *)
DeallocateLost(p, n) ==
    /\ p \in up /\ n \in resetTodo[p]
    /\ nodeLock[n] = None
    /\ resetTodo' = [resetTodo EXCEPT ![p] = @ \ {n}]
    /\ IF nodeAlloc[n] = resetting[p]
       THEN /\ nodeState' = [nodeState EXCEPT ![n] =
                               IF @ = "INIT" THEN "DELETING" ELSE @]
            /\ nodeAlloc' = [nodeAlloc EXCEPT ![n] = None]
       ELSE UNCHANGED <<nodeState, nodeAlloc>>
    /\ UNCHANGED <<nodePool, nodeLock, local, zkReq, handler, resetting, aging,
                   bounds>>

(* Mutants: the request is left locked; its state is not reset. *)
ResetLostRequest_KeepsLock(p, r) ==
    /\ p \in up /\ resetting[p] = r /\ resetTodo[p] = {}
    /\ reqState' = [reqState EXCEPT ![r] = IF ReqExists(r) THEN "REQUESTED" ELSE @]
    /\ resetting' = [resetting EXCEPT ![p] = None]
    /\ UNCHANGED <<zkNode, local, declined, reqNodes, reqLock, handler, resetTodo,
                   aging, bounds>>

ResetLostRequest_KeepsState(p, r) ==
    /\ p \in up /\ resetting[p] = r /\ resetTodo[p] = {}
    /\ reqLock' = [reqLock EXCEPT ![r] = IF @ = Cleaner(p) THEN None ELSE @]
    /\ resetting' = [resetting EXCEPT ![p] = None]
    /\ UNCHANGED <<zkNode, local, reqState, declined, reqNodes, handler, resetTodo,
                   aging, bounds>>

(* The request goes back to REQUESTED, unless it was deleted meanwhile. *)
ResetLostRequest(p, r) ==
    /\ p \in up /\ resetting[p] = r /\ resetTodo[p] = {}
    /\ IF ReqExists(r)
       THEN /\ reqState' = [reqState EXCEPT ![r] = "REQUESTED"]
            /\ reqNodes' = [reqNodes EXCEPT ![r] = {}]
       ELSE UNCHANGED <<reqState, reqNodes>>
    /\ reqLock' = [reqLock EXCEPT ![r] = IF @ = Cleaner(p) THEN None ELSE @]
    /\ resetting' = [resetting EXCEPT ![p] = None]
    /\ UNCHANGED <<zkNode, local, declined, handler, resetTodo, aging, bounds>>

(* _cleanupMaxReadyAge: the unallocated ready nodes past their age *)
ListAgedNodes(p) ==
    /\ MaxReadyAge /\ p \in up /\ aging[p] = {}
    /\ \E S \in SUBSET {n \in Nodes : /\ nodeState[n] = "READY"
                                      /\ nodeAlloc[n] = None} :
          S # {} /\ aging' = [aging EXCEPT ![p] = S]
    /\ UNCHANGED <<zkNode, local, zkReq, handler, resetting, resetTodo, bounds>>

(* ... each is locked, found READY again and marked for deletion; one that *)
(* is locked or no longer READY is skipped.                                *)
DeleteAgedNode(p, n) ==
    /\ p \in up /\ n \in aging[p]
    /\ aging' = [aging EXCEPT ![p] = @ \ {n}]
    /\ IF nodeLock[n] = None /\ nodeState[n] = "READY"
       THEN nodeState' = [nodeState EXCEPT ![n] = "DELETING"]
       ELSE UNCHANGED nodeState
    /\ UNCHANGED <<nodeAlloc, nodePool, nodeLock, local, zkReq, handler,
                   resetting, resetTodo, bounds>>

(* _cleanupMaxHoldAge *)
DeleteHeldNode(p, n) ==
    /\ p \in up /\ nodeLock[n] = None /\ nodeState[n] = "HOLD"
    /\ nodeState' = [nodeState EXCEPT ![n] = "DELETING"]
    /\ UNCHANGED <<nodeAlloc, nodePool, nodeLock, local, zkReq, handler,
                   cleanup, bounds>>
----------------------------------------------------------------------------
(* DeletedNodeWorker and the deleter it starts *)

(* A ready node allocated to a request that is gone is deallocated. *)
DeallocateMissing(p, n) ==
    /\ p \in up /\ nodeLock[n] = None
    /\ nodeState[n] = "READY" /\ nodeAlloc[n] # None
    /\ ~ReqExists(nodeAlloc[n])
    /\ nodeAlloc' = [nodeAlloc EXCEPT ![n] = None]
    /\ UNCHANGED <<nodeState, nodePool, nodeLock, local, zkReq, handler,
                   cleanup, bounds>>

(* Mutant: a locked node is taken for cleanup. *)
StartNodeCleanup_IgnoresLock(p, n) ==
    /\ p \in up /\ nodeState[n] \in CleanupStates
    /\ nodeLock' = [nodeLock EXCEPT ![n] = Deleter(p)]
    /\ nodeState' = [nodeState EXCEPT ![n] = "DELETING"]
    /\ UNCHANGED <<nodeAlloc, nodePool, local, zkReq, handler, cleanup, bounds>>

(* An unlocked node in a cleanup state is locked; the deleter keeps the    *)
(* lock and stores the node as DELETING.                                   *)
StartNodeCleanup(p, n) ==
    /\ p \in up /\ nodeLock[n] = None /\ nodeState[n] \in CleanupStates
    /\ nodeLock' = [nodeLock EXCEPT ![n] = Deleter(p)]
    /\ nodeState' = [nodeState EXCEPT ![n] = "DELETING"]
    /\ UNCHANGED <<nodeAlloc, nodePool, local, zkReq, handler, cleanup, bounds>>

(* The instance is gone: the znode is deleted, and its lock with it. *)
DeleteNode(p, n) ==
    /\ p \in up /\ nodeLock[n] = Deleter(p)
    /\ nodeState' = [nodeState EXCEPT ![n] = "absent"]
    /\ nodeAlloc' = [nodeAlloc EXCEPT ![n] = None]
    /\ nodeLock' = [nodeLock EXCEPT ![n] = None]
    /\ UNCHANGED <<nodePool, local, zkReq, handler, cleanup, bounds>>

(* The provider failed to delete the instance: unlocked, to be retried. *)
DeleteFails(p, n) ==
    /\ p \in up /\ nodeLock[n] = Deleter(p)
    /\ failures < MaxFailures
    /\ failures' = failures + 1
    /\ nodeLock' = [nodeLock EXCEPT ![n] = None]
    /\ UNCHANGED <<nodeState, nodeAlloc, nodePool, local, zkReq, handler,
                   cleanup, up, crashes>>
----------------------------------------------------------------------------
(* NodePool: min-ready requests *)

createMinReady(p, r) ==
    /\ p \in up /\ r \in MinReady /\ Submitter[r] = p
    /\ reqState[r] = "absent"
    /\ reqState' = [reqState EXCEPT ![r] = "REQUESTED"]
    /\ UNCHANGED <<zkNode, local, declined, reqNodes, reqLock, handler, cleanup,
                   bounds>>

RequestRemoved(r) ==
    /\ reqState' = [reqState EXCEPT ![r] = "removed"]
    /\ reqNodes' = [reqNodes EXCEPT ![r] = {}]
    /\ UNCHANGED <<declined, reqLock>>

(* The nodes of a fulfilled min-ready request are deallocated, without a   *)
(* lock, and the request is deleted; a failed one is deleted.              *)
removeCompletedRequests(p, r) ==
    /\ p \in up /\ r \in MinReady /\ Submitter[r] = p
    /\ reqState[r] \in {"FULFILLED", "FAILED"}
    /\ \A n \in reqNodes[r] : Exists(n)
    /\ nodeAlloc' = [n \in Nodes |-> IF n \in reqNodes[r]
                                     THEN None ELSE nodeAlloc[n]]
    /\ RequestRemoved(r)
    /\ UNCHANGED <<nodeState, nodePool, nodeLock, local, handler, cleanup,
                   bounds>>
----------------------------------------------------------------------------
(* The environment: Zuul, and launchers that die and come back *)

ZuulSubmit(r) ==
    /\ r \notin MinReady /\ reqState[r] = "absent"
    /\ reqState' = [reqState EXCEPT ![r] = "REQUESTED"]
    /\ UNCHANGED <<zkNode, local, declined, reqNodes, reqLock, handler, cleanup,
                   bounds>>

(* The request is cancelled, or its ephemeral znode went with the session. *)
ZuulWithdraw(r) ==
    /\ r \notin MinReady /\ ReqExists(r)
    /\ RequestRemoved(r)
    /\ UNCHANGED <<zkNode, local, handler, cleanup, bounds>>

(* Zuul locks the nodes it was given, checks that they are allocated to    *)
(* its request, deletes the request and uses them.                         *)
ZuulAccept(r) ==
    /\ r \notin MinReady /\ reqState[r] = "FULFILLED"
    /\ \A n \in reqNodes[r] : nodeLock[n] = None /\ nodeAlloc[n] = r
    /\ nodeLock' = [n \in Nodes |-> IF n \in reqNodes[r]
                                    THEN Zuul ELSE nodeLock[n]]
    /\ nodeState' = [n \in Nodes |-> IF n \in reqNodes[r]
                                     THEN "IN_USE" ELSE nodeState[n]]
    /\ RequestRemoved(r)
    /\ UNCHANGED <<nodeAlloc, nodePool, local, handler, cleanup, bounds>>

(* Zuul is done with a node, holds it for inspection, or lost its session. *)
ZuulReturn(n) ==
    /\ nodeLock[n] = Zuul
    /\ nodeLock' = [nodeLock EXCEPT ![n] = None]
    /\ \E s \in {"USED", "HOLD", "IN_USE"} :
          nodeState' = [nodeState EXCEPT ![n] = s]
    /\ UNCHANGED <<nodeAlloc, nodePool, local, zkReq, handler, cleanup, bounds>>

OwnLocks(p) == {Handler(p), Cleaner(p), Deleter(p)}

(* The launcher process dies: its session ends, and with it its locks, its *)
(* registration and its min-ready requests.                                *)
Crash(p) ==
    /\ p \in up /\ crashes < MaxCrashes
    /\ crashes' = crashes + 1
    /\ up' = up \ {p}
    /\ nodeLock' = [n \in Nodes |-> IF nodeLock[n] \in OwnLocks(p)
                                    THEN None ELSE nodeLock[n]]
    /\ reqLock' = [r \in Requests |-> IF reqLock[r] \in OwnLocks(p)
                                      THEN None ELSE reqLock[r]]
    /\ reqState' = [r \in Requests |->
                      IF r \in MinReady /\ Submitter[r] = p /\ ReqExists(r)
                      THEN "removed" ELSE reqState[r]]
    /\ reqNodes' = [r \in Requests |->
                      IF r \in MinReady /\ Submitter[r] = p /\ ReqExists(r)
                      THEN {} ELSE reqNodes[r]]
    /\ local' = [n \in Nodes |-> IF nodePool[n] = p THEN "none" ELSE local[n]]
    /\ phase' = [phase EXCEPT ![p] = [r \in Requests |-> "none"]]
    /\ nodeset' = [nodeset EXCEPT ![p] = [r \in Requests |-> {}]]
    /\ satisfied' = [satisfied EXCEPT ![p] = [r \in Requests |-> {}]]
    /\ verdict' = [verdict EXCEPT ![p] = [r \in Requests |-> "absent"]]
    /\ creating' = [creating EXCEPT ![p] = None]
    /\ resetting' = [resetting EXCEPT ![p] = None]
    /\ resetTodo' = [resetTodo EXCEPT ![p] = {}]
    /\ aging' = [aging EXCEPT ![p] = {}]
    /\ UNCHANGED <<nodeState, nodeAlloc, nodePool, declined, failures>>

Restart(p) ==
    /\ p \notin up
    /\ up' = up \cup {p}
    /\ UNCHANGED <<zkNode, local, zkReq, handler, cleanup, crashes, failures>>
----------------------------------------------------------------------------
PoolWorkerStep(p, r) ==
    \/ AcceptRequest(p, r)
    \/ DeclineOnArrival(p, r)
    \/ RetryPaused(p, r)
    \/ DeclinePaused(p, r)
    \/ \E n \in Nodes : \/ ReuseNode(p, r, n)
                        \/ CreateNode(p, r, n)
                        \/ LockNewNode(p, r, n)
    \/ GrantQuota(p, r)
    \/ NodeSetFilled(p, r)
    \/ PauseHandler(p, r)
    \/ DeclineMinReady(p, r)
    \/ ReleaseAtQuota(p, r)
    \/ PollRequestGone(p, r)
    \/ PollDecide(p, r)
    \/ PollAborted(p, r)
    \/ PollStore(p, r)
    \/ PollStoreRaises(p, r)

LauncherStep(n) == LaunchReady(n) \/ LaunchFailed(n) \/ LaunchAborted(n)

CleanupWorkerStep(p) ==
    \/ \E r \in Requests : LockLostRequest(p, r) \/ ResetLostRequest(p, r)
    \/ ListAgedNodes(p)
    \/ \E n \in Nodes : \/ DeallocateLost(p, n)
                        \/ DeleteAgedNode(p, n)
                        \/ DeleteHeldNode(p, n)

DeletedNodeWorkerStep(p, n) ==
    \/ DeallocateMissing(p, n)
    \/ StartNodeCleanup(p, n)
    \/ DeleteNode(p, n)
    \/ DeleteFails(p, n)

NodePoolStep(p, r) == createMinReady(p, r) \/ removeCompletedRequests(p, r)

ZuulStep ==
    \/ \E r \in Requests : ZuulSubmit(r) \/ ZuulWithdraw(r) \/ ZuulAccept(r)
    \/ \E n \in Nodes : ZuulReturn(n)

Next ==
    \/ \E p \in Pools, r \in Requests : PoolWorkerStep(p, r) \/ NodePoolStep(p, r)
    \/ \E n \in Nodes : LauncherStep(n)
    \/ \E p \in Pools : CleanupWorkerStep(p)
    \/ \E p \in Pools, n \in Nodes : DeletedNodeWorkerStep(p, n)
    \/ ZuulStep
    \/ \E p \in Pools : Crash(p) \/ Restart(p)

Spec == Init /\ [][Next]_vars

(* Fairness.  A PoolWorker's loop considers every request and polls every  *)
(* handler on each pass, so what is enabled whenever the thread is free is *)
(* not passed over for ever; launchers and deleters run until they finish  *)
(* or time out; the cleanup threads loop; Zuul answers fulfilled requests  *)
(* and returns nodes.  Declining, crashing and withdrawing are never owed. *)
Fill(p, r) ==
    \/ \E n \in Nodes : \/ ReuseNode(p, r, n)
                        \/ CreateNode(p, r, n)
                        \/ LockNewNode(p, r, n)
    \/ GrantQuota(p, r) \/ NodeSetFilled(p, r) \/ PauseHandler(p, r)
    \/ DeclineMinReady(p, r) \/ ReleaseAtQuota(p, r)

Poll(p, r) ==
    \/ PollRequestGone(p, r) \/ PollDecide(p, r) \/ PollAborted(p, r)

Fairness ==
    /\ \A p \in Pools, r \in Requests :
          /\ SF_vars(AcceptRequest(p, r) \/ DeclineOnArrival(p, r))
          /\ SF_vars(RetryPaused(p, r))
          /\ WF_vars(Fill(p, r))
          /\ SF_vars(Poll(p, r))
          /\ WF_vars(PollStore(p, r) \/ PollStoreRaises(p, r))
          /\ WF_vars(LockLostRequest(p, r))
          /\ WF_vars(ResetLostRequest(p, r))
    /\ \A p \in Pools, n \in Nodes : WF_vars(DeallocateLost(p, n))
    /\ \A n \in Nodes :
          /\ WF_vars(LauncherStep(n))
          /\ WF_vars(\E p \in Pools : DeletedNodeWorkerStep(p, n))
          /\ WF_vars(\E p \in Pools : DeleteHeldNode(p, n))
          /\ WF_vars(ZuulReturn(n))
    /\ \A r \in Requests :
          /\ WF_vars(\E p \in Pools : removeCompletedRequests(p, r))
          /\ WF_vars(ZuulAccept(r))

(* A launcher that died is started again. *)
RestartFairness == \A p \in Pools : WF_vars(Restart(p))

FairSpec == Spec /\ Fairness
LiveSpec == FairSpec /\ RestartFairness
----------------------------------------------------------------------------
(* Safety *)

(* A request that still exists is worked on by at most one launcher: every *)
(* handler past the lock in _assignHandlers still holds the request's lock *)
(* until it stores its verdict, whatever the cleanup and crashes do.       *)
HandlerHoldsRequest ==
    \A p \in Pools, r \in Requests :
        phase[p][r] # "none" => reqLock[r] = Handler(p)

(* ... and a request stays locked only while something works on it: a lock *)
(* a launcher holds belongs to one of its handlers or to its cleanup, so   *)
(* no live request is left PENDING out of everybody's reach.               *)
HeldRequestHandled ==
    \A p \in Pools, r \in Requests : ReqExists(r) =>
        /\ reqLock[r] = Handler(p) => phase[p][r] # "none"
        /\ reqLock[r] = Cleaner(p) => resetting[p] = r

(* Every node in a handler's nodeset is locked by it and allocated to its  *)
(* request: no other handler, cleaner or deleter takes a node from a       *)
(* request that is being put together.                                     *)
NodesetHeld ==
    \A p \in Pools, r \in Requests : \A n \in nodeset[p][r] :
        nodeLock[n] = Handler(p) /\ nodeAlloc[n] = r

(* What poll() promises when it stores FULFILLED: the request has as many  *)
(* nodes as it asked for, all of them READY and allocated to it, and they  *)
(* stay so until the requestor takes them.                                 *)
FulfilledNodesReady ==
    \A r \in Requests : reqState[r] = "FULFILLED" =>
        /\ Cardinality(reqNodes[r]) = Wants[r]
        /\ \A n \in reqNodes[r] : nodeState[n] = "READY" /\ nodeAlloc[n] = r

(* No node is listed by two requests at once. *)
NodeGivenOnce ==
    \A r, q \in Requests : r # q => reqNodes[r] \cap reqNodes[q] = {}

(* removeCompletedRequests writes the nodes of a fulfilled min-ready       *)
(* request without their locks, "since a node with allocated_to set should *)
(* not be locked except by the creator of the request": nobody else holds  *)
(* or deletes such a node, not even the max-ready-age cleanup.             *)
MinReadyNodesUnlocked ==
    \A r \in MinReady : reqState[r] = "FULFILLED" =>
        \A n \in reqNodes[r] : nodeLock[n] = None /\ nodeState[n] = "READY"
----------------------------------------------------------------------------
(* The inductive invariant behind the safety properties *)

Busy == {"filling", "granted", "releasing", "storing"}
Gathering == {"filling", "granted", "paused", "releasing", "launching"}

(* Handlers and cleanups hold the lock of a request that is PENDING, or    *)
(* was when it disappeared, and a PoolWorker runs one handler at a time.   *)
OwnersInv ==
    /\ \A p \in Pools, r \in Requests :
          phase[p][r] # "none" =>
             p \in up /\ reqLock[r] = Handler(p)
                /\ reqState[r] \in {"PENDING", "removed"}
    /\ \A p \in Pools : resetting[p] # None =>
          p \in up /\ reqLock[resetting[p]] = Cleaner(p)
             /\ reqState[resetting[p]] \in {"PENDING", "removed"}
    /\ \A p \in Pools, r, q \in Requests :
          phase[p][r] \in Busy /\ phase[p][q] \in Busy => r = q

(* A handler's nodeset is among what satisfies it until poll() unlocks it, *)
(* and each of its nodes is locked, allocated and as the Node object says. *)
NodesetsInv ==
    /\ \A p \in Pools, r \in Requests :
          /\ phase[p][r] \in Gathering => nodeset[p][r] \subseteq satisfied[p][r]
          /\ phase[p][r] \notin Gathering => nodeset[p][r] = {}
    /\ \A p \in Pools, r \in Requests : \A n \in nodeset[p][r] :
          /\ nodeLock[n] = Handler(p) /\ nodeAlloc[n] = r /\ nodePool[n] = p
          /\ local[n] # "none" /\ nodeState[n] # "absent"
          /\ local[n] = "READY" => nodeState[n] = "READY"

(* A node between storeNode and lockNode is INIT, unlocked and allocated   *)
(* to the request its PoolWorker is filling.                               *)
CreatingInv ==
    \A p \in Pools : creating[p] # None =>
        /\ p \in up
        /\ nodeState[creating[p]] = "INIT" /\ nodeLock[creating[p]] = None
        /\ local[creating[p]] = "none" /\ nodePool[creating[p]] = p
        /\ nodeAlloc[creating[p]] \in Requests
        /\ phase[p][nodeAlloc[creating[p]]] = "filling"

(* The lock and the allocation of a node go with its znode. *)
AbsentInv ==
    \A n \in Nodes : nodeState[n] = "absent" =>
        nodeLock[n] = None /\ nodeAlloc[n] = None

(* A live request claims the nodes stored in it and those its handler has  *)
(* found.  A claimed node stays allocated to the request until it is       *)
(* deleted, and no two live requests claim the same node.                  *)
Claims(r, n) ==
    ReqExists(r) /\ (n \in reqNodes[r] \/ \E p \in Pools : n \in satisfied[p][r])

ClaimsInv ==
    /\ \A r \in Requests : reqState[r] # "FULFILLED" => reqNodes[r] = {}
    /\ \A p \in Pools, r \in Requests :
          phase[p][r] \in {"none", "popped"} => satisfied[p][r] = {}
    /\ \A r \in Requests, n \in Nodes :
          Claims(r, n) => nodeAlloc[n] = r \/ nodeState[n] = "absent"
    /\ \A r, q \in Requests, n \in Nodes : Claims(r, n) /\ Claims(q, n) => r = q

(* A request is locked by a handler that works on it or by the cleanup     *)
(* that resets it, and not at all before it is submitted.                  *)
HeldInv ==
    /\ HeldRequestHandled
    /\ \A r \in Requests : reqState[r] = "absent" => reqLock[r] = None

(* The nodes of a fulfilled request, and those that poll() has found ready *)
(* and not stored yet, are promised to it.                                 *)
Promised(r, n) ==
    \/ n \in reqNodes[r]
    \/ /\ ReqExists(r)
       /\ \E p \in Pools : /\ phase[p][r] = "storing"
                          /\ verdict[p][r] = "FULFILLED" /\ n \in satisfied[p][r]

LeftAlone(r, n) ==
    /\ nodeState[n] = "READY" /\ nodeAlloc[n] = r
    /\ nodeLock[n] = None /\ local[n] = "none"

(* Without max-ready-age, a promised node is ready, allocated and left     *)
(* alone from the verdict, when it is unlocked, until the request is gone. *)
PromisesKept == \A r \in Requests, n \in Nodes : Promised(r, n) => LeftAlone(r, n)

(* The nodeset is all that satisfies the handler, as poll() drops aborted  *)
(* nodes from both.                                                        *)
GatheredInv ==
    \A p \in Pools, r \in Requests :
        phase[p][r] \in Gathering => satisfied[p][r] \subseteq nodeset[p][r]

(* max-ready-age is off *)
NoAgingInv == \A p \in Pools : aging[p] = {}

(* The nodes found for a request never exceed what it wants, and reach it  *)
(* when the handler starts to wait for its launches.                       *)
Counted(p, r) ==
    /\ IsFiniteSet(satisfied[p][r])
    /\ Cardinality(satisfied[p][r]) <= Wants[r]
    /\ phase[p][r] = "granted" => Needs(p, r)
    /\ creating[p] # None /\ phase[p][r] = "filling" => Needs(p, r)
    /\ phase[p][r] = "launching" => ~Needs(p, r)
    /\ phase[p][r] = "storing" /\ verdict[p][r] = "FULFILLED" => ~Needs(p, r)

CountInv ==
    /\ \A p \in Pools, r \in Requests : Counted(p, r)
    /\ \A r \in Requests :
          reqState[r] = "FULFILLED" => Cardinality(reqNodes[r]) = Wants[r]
----------------------------------------------------------------------------
(* Liveness *)

(* Every request that is submitted is fulfilled, failed or withdrawn in    *)
(* the end: none stays REQUESTED or PENDING for ever, although launchers   *)
(* crash while they hold it, launches fail or abort, and handlers pause.   *)
RequestsResolved ==
    \A r \in Requests :
        reqState[r] \in {"REQUESTED", "PENDING"} ~>
            reqState[r] \in {"FULFILLED", "FAILED", "removed"}
=============================================================================
