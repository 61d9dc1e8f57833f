------------------------- MODULE NodeRequestFaults --------------------------
(***************************************************************************)
(* NodeRequests when single ZooKeeper operations of a handler fail: the    *)
(* connection is lost in the middle of poll() or of a decline and comes    *)
(* back (the operation raises, the session lives on), or the session       *)
(* expires while the launcher process, and its handlers, live on.          *)
(***************************************************************************)
EXTENDS NodeRequests

CONSTANTS
    MaxErrors,      \* bound: operations that raise
    MaxExpiries     \* bound: sessions that expire

ASSUME FaultBoundsAssumption == MaxErrors \in Nat /\ MaxExpiries \in Nat

VARIABLES
    errors,         \* operations that raised so far
    expiries        \* sessions that expired so far

fvars == <<vars, errors, expiries>>

FInit == Init /\ errors = 0 /\ expiries = 0

Raises == errors < MaxErrors /\ errors' = errors + 1 /\ UNCHANGED expiries

(* Mutant: the aborted nodes are unlocked but stay in the nodeset. *)
PollInterrupted_KeepsNodes(p, r) ==
    /\ LaunchesComplete(p, r) /\ Raises
    /\ UnlockOnly(p, WithLocal(p, r, "ABORTED"))
    /\ UNCHANGED <<zkReq, phase, nodeset, satisfied, verdict, creating, cleanup,
                   bounds>>

(* poll() has unlocked the aborted nodes and taken them out of the         *)
(* nodeset; then getNodeRequest raises.  _removeCompletedHandlers keeps    *)
(* the handler: the next poll() starts from what is left, and the aborted  *)
(* nodes are still among the satisfied types.                              *)
PollInterrupted(p, r) ==
    /\ LaunchesComplete(p, r) /\ Raises
    /\ UnlockOnly(p, WithLocal(p, r, "ABORTED"))
    /\ nodeset' = [nodeset EXCEPT ![p][r] = @ \ WithLocal(p, r, "ABORTED")]
    /\ UNCHANGED <<zkReq, phase, satisfied, verdict, creating, cleanup, bounds>>

(* storeNodeRequest raises after the types of a fulfilled request were     *)
(* popped: every later poll() fails in LabelRecorder.pop, unless the       *)
(* request has gone.                                                       *)
PollStoreFails(p, r) ==
    /\ p \in up /\ phase[p][r] = "storing" /\ ReqExists(r)
    /\ verdict[p][r] = "FULFILLED" /\ Raises
    /\ phase' = [phase EXCEPT ![p][r] = "popped"]
    /\ satisfied' = [satisfied EXCEPT ![p][r] = {}]
    /\ UNCHANGED <<zkNode, local, zkReq, nodeset, verdict, creating, cleanup,
                   bounds>>

(* _declinedHandlerCleanup: storeNodeRequest raises, so the request is not *)
(* unlocked either, and the handler is done.                               *)
DeclineStoreFails(p, r) ==
    /\ Idle(p) /\ phase[p][r] = "paused" /\ ReqExists(r) /\ Raises
    /\ UnlockAndClear(p, nodeset[p][r])
    /\ DropHandler(p, r)
    /\ UNCHANGED <<zkReq, creating, cleanup, bounds>>

(* An operation of run() raises between the steps of _waitForNodeSet: the  *)
(* request is declined.  A node stored and not yet locked stays behind.    *)
RunRaises(p, r) ==
    /\ p \in up /\ phase[p][r] \in {"filling", "granted"} /\ Raises
    /\ declineRequest(p, r)
    /\ creating' = [creating EXCEPT ![p] = None]
    /\ UNCHANGED <<cleanup, bounds>>

(* The session expires and a new one is opened before the PoolWorker's     *)
(* next operation: its locks are gone, its handlers do not know it.  (What *)
(* such a handler stores over another's work is its own stale copy; here   *)
(* declined_by is merged.)                                                 *)
ExpireSession(p) ==
    /\ p \in up /\ expiries < MaxExpiries
    /\ expiries' = expiries + 1
    /\ nodeLock' = [n \in Nodes |-> IF nodeLock[n] \in OwnLocks(p)
                                    THEN None ELSE nodeLock[n]]
    /\ reqLock' = [r \in Requests |-> IF reqLock[r] \in OwnLocks(p)
                                      THEN None ELSE reqLock[r]]
    /\ UNCHANGED <<nodeState, nodeAlloc, nodePool, local, reqState, declined,
                   reqNodes, handler, cleanup, bounds, errors>>

FNext ==
    \/ Next /\ UNCHANGED <<errors, expiries>>
    \/ \E p \in Pools, r \in Requests : \/ PollInterrupted(p, r)
                                        \/ PollStoreFails(p, r)
                                        \/ DeclineStoreFails(p, r)
                                        \/ RunRaises(p, r)
    \/ \E p \in Pools : ExpireSession(p)

FSpec == FInit /\ [][FNext]_fvars

FLiveSpec == FSpec /\ Fairness /\ RestartFairness
----------------------------------------------------------------------------
(* A request is never stuck PENDING: whether its handler concludes, its    *)
(* launcher loses its session or its lock is left to _cleanupLostRequests, *)
(* it leaves that state.                                                   *)
PendingEnds ==
    \A r \in Requests : reqState[r] = "PENDING" ~> reqState[r] # "PENDING"
=============================================================================
