---------------------- MODULE NodeRequestFaultsProofs -----------------------
(***************************************************************************)
(* Proofs that the handlers keep their locks and nodes apart also when     *)
(* operations of theirs fail, for any pools, requests, nodes and number of *)
(* failures, as long as no session expires under a living handler.         *)
(***************************************************************************)
EXTENDS NodeRequestFaults, NodeRequestsProofs

(* A node between storeNode and lockNode is in no nodeset, so what is      *)
(* unlocked or cleared of a nodeset leaves it as it is.                    *)
LEMMA CreatingSpared ==
    ASSUME SafetyInv, NEW p \in Pools, NEW r \in Requests,
           NEW S \in SUBSET nodeset[p][r], UnlockOnly(p, S) \/ UnlockAndClear(p, S),
           NEW q \in Pools, creating[q] # None
    PROVE  /\ nodeState'[creating[q]] = nodeState[creating[q]]
           /\ nodeLock'[creating[q]] = nodeLock[creating[q]]
           /\ local'[creating[q]] = local[creating[q]]
           /\ nodePool'[creating[q]] = nodePool[creating[q]]
           /\ nodeAlloc'[creating[q]] = nodeAlloc[creating[q]]
<1>1. creating[q] \in Nodes /\ creating[q] \notin S
  BY CreatingApart DEF SafetyInv
<1> QED BY <1>1 DEF UnlockOnly, UnlockAndClear, Unlocked, SafetyInv, TypeOK

(* poll() is interrupted after it unlocked the aborted nodes: they leave   *)
(* the nodeset, and the request keeps what it claims.                      *)
LEMMA InterruptedStep ==
    ASSUME SafetyInv, NEW p \in Pools, NEW r \in Requests, PollInterrupted(p, r)
    PROVE  SafetyInv'
<1> USE DEF zkNode, zkReq, handler, cleanup, bounds
<1> DEFINE S == WithLocal(p, r, "ABORTED")
<1>0. /\ S \in SUBSET nodeset[p][r] /\ S \in SUBSET Nodes
      /\ UnlockOnly(p, S)
      /\ nodeset' = [nodeset EXCEPT ![p][r] = @ \ S]
      /\ UNCHANGED <<nodeState, nodeAlloc, nodePool>>
      /\ UNCHANGED <<reqState, declined, reqNodes, reqLock>>
      /\ UNCHANGED <<phase, satisfied, verdict, creating>>
      /\ UNCHANGED <<resetting, resetTodo, aging, up, crashes, failures>>
  BY DEF PollInterrupted, UnlockOnly, WithLocal, SafetyInv, TypeOK
<1> HIDE DEF S
<1>1. TypeOK'
  <2>1. /\ nodeLock' \in [Nodes -> Holders]
        /\ local' \in [Nodes -> LocalStates]
    BY <1>0, UnlockTypes DEF SafetyInv
  <2>2. nodeset' \in [Pools -> [Requests -> SUBSET Nodes]]
    BY <1>0 DEF SafetyInv, TypeOK
  <2> QED BY <1>0, <2>1, <2>2 DEF SafetyInv, TypeOK
<1>2. OwnersInv'
  BY <1>0 DEF SafetyInv, OwnersInv
<1>3. NodesetsInv'
  <2>1. \A q \in Pools, s \in Requests :
           /\ phase'[q][s] \in Gathering => nodeset'[q][s] \subseteq satisfied'[q][s]
           /\ phase'[q][s] \notin Gathering => nodeset'[q][s] = {}
    BY <1>0 DEF SafetyInv, NodesetsInv, TypeOK
  <2> QED BY <1>0, <2>1, NodesetsUnlock DEF SafetyInv
<1>4. CreatingInv'
  BY <1>0, CreatingSpared, CreatingFrame DEF SafetyInv, CreatingInv
<1>5. ClaimsInv'
  BY <1>0 DEF SafetyInv, ClaimsInv, Claims, ReqExists
<1>6. AbsentInv'
  BY <1>0 DEF SafetyInv, AbsentInv, UnlockOnly, Unlocked
<1> QED BY <1>1, <1>2, <1>3, <1>4, <1>5, <1>6 DEF SafetyInv

(* storeNodeRequest raises: the handler and its lock stay, without types.  *)
LEMMA StoreFailsStep ==
    ASSUME SafetyInv, NEW p \in Pools, NEW r \in Requests, PollStoreFails(p, r)
    PROVE  SafetyInv'
<1> USE DEF zkNode, zkReq, handler, cleanup, bounds
<1>0. /\ phase[p][r] = "storing" /\ phase' = [phase EXCEPT ![p][r] = "popped"]
      /\ satisfied' = [satisfied EXCEPT ![p][r] = {}]
      /\ UNCHANGED <<nodeState, nodeAlloc, nodePool, nodeLock, local>>
      /\ UNCHANGED <<reqState, declined, reqNodes, reqLock>>
      /\ UNCHANGED <<nodeset, verdict, creating>>
      /\ UNCHANGED <<resetting, resetTodo, aging, up, crashes, failures>>
  BY DEF PollStoreFails
<1>1. TypeOK'
  BY <1>0 DEF SafetyInv, TypeOK, Phases
<1>2. OwnersInv'
  BY <1>0 DEF SafetyInv, OwnersInv, TypeOK, Busy
<1>3. NodesetsInv'
  BY <1>0 DEF SafetyInv, NodesetsInv, TypeOK, Gathering
<1>4. CreatingInv'
  BY <1>0 DEF SafetyInv, CreatingInv, TypeOK
<1>5. ClaimsInv'
  <2>1. \A q \in Pools, t \in Requests :
           phase'[q][t] \in {"none", "popped"} => satisfied'[q][t] = {}
    BY <1>0 DEF SafetyInv, ClaimsInv, TypeOK
  <2>2. ASSUME NEW t \in Requests, NEW n \in Nodes, Claims(t, n)'
        PROVE  Claims(t, n)
    BY <1>0, <2>2 DEF Claims, ReqExists, SafetyInv, TypeOK
  <2> QED BY <1>0, <2>1, <2>2, ClaimsShrink DEF SafetyInv, ClaimsInv
<1>6. AbsentInv'
  BY <1>0 DEF SafetyInv, AbsentInv
<1> QED BY <1>1, <1>2, <1>3, <1>4, <1>5, <1>6 DEF SafetyInv

(* storeNodeRequest raises in a decline: the nodes are cleared and the     *)
(* handler is done, while the request stays locked.                        *)
LEMMA DeclineFailsStep ==
    ASSUME SafetyInv, NEW p \in Pools, NEW r \in Requests, DeclineStoreFails(p, r)
    PROVE  SafetyInv'
<1> USE DEF zkNode, zkReq, handler, cleanup, bounds
<1>0. /\ phase[p][r] = "paused" /\ Idle(p)
      /\ UnlockAndClear(p, nodeset[p][r]) /\ DropHandler(p, r)
      /\ UNCHANGED <<reqState, declined, reqNodes, reqLock, creating>>
      /\ UNCHANGED <<resetting, resetTodo, aging, up, crashes, failures>>
  BY DEF DeclineStoreFails
<1>1. TypeOK'
  <2>1. nodeset[p][r] \in SUBSET Nodes /\ \A n \in nodeset[p][r] : local[n] # "none"
    BY DEF SafetyInv, NodesetsInv, TypeOK
  <2>2. /\ nodeState' \in [Nodes -> NodeStates]
        /\ nodeAlloc' \in [Nodes -> Requests \cup {None}]
        /\ nodeLock' \in [Nodes -> Holders]
        /\ local' \in [Nodes -> LocalStates]
        /\ UNCHANGED nodePool
    BY <1>0, <2>1, ClearTypes DEF SafetyInv
  <2>3. /\ phase' \in [Pools -> [Requests -> Phases]]
        /\ nodeset' \in [Pools -> [Requests -> SUBSET Nodes]]
        /\ satisfied' \in [Pools -> [Requests -> SUBSET Nodes]]
        /\ verdict' \in [Pools -> [Requests -> ReqStates]]
    BY <1>0 DEF DropHandler, SafetyInv, TypeOK, Phases, ReqStates
  <2> QED BY <1>0, <2>2, <2>3 DEF SafetyInv, TypeOK
<1>2. OwnersInv'
  BY <1>0 DEF DropHandler, SafetyInv, OwnersInv, TypeOK, Busy
<1>c. \A n \in Nodes \ nodeset[p][r] :
         /\ nodeLock'[n] = nodeLock[n] /\ nodeState'[n] = nodeState[n]
         /\ nodePool'[n] = nodePool[n] /\ local'[n] = local[n]
         /\ nodeAlloc'[n] = nodeAlloc[n]
  BY <1>0 DEF UnlockAndClear, Unlocked
<1>3. NodesetsInv'
  BY <1>0, <1>c, NodesetsDrop DEF SafetyInv
<1>4. CreatingInv'
  <2>1. ASSUME NEW q \in Pools, creating[q] # None
        PROVE  q # p
    BY <1>0, <2>1 DEF Idle, SafetyInv, CreatingInv
  <2>2. \A q \in Pools \ {p} : phase'[q] = phase[q]
    BY <1>0 DEF DropHandler, SafetyInv, TypeOK
  <2> QED BY <1>0, <2>1, <2>2, CreatingSpared, CreatingFrame DEF SafetyInv, CreatingInv
<1>5. ClaimsInv'
  <2>1. "REQUESTED" \in ReqStates
    BY DEF ReqStates
  <2> QED BY <1>0, <1>c, <2>1, ClaimsDrop DEF SafetyInv
<1>6. AbsentInv'
  BY <1>0 DEF UnlockAndClear, Unlocked, SafetyInv, AbsentInv, TypeOK, LocalStates
<1> QED BY <1>1, <1>2, <1>3, <1>4, <1>5, <1>6 DEF SafetyInv

(* run() raises: the request is declined, and a node that was stored and   *)
(* not yet locked is left as it is.                                        *)
LEMMA RunRaisesStep ==
    ASSUME SafetyInv, NEW p \in Pools, NEW r \in Requests, RunRaises(p, r)
    PROVE  SafetyInv'
<1> USE DEF zkNode, zkReq, handler, cleanup, bounds
<1> DEFINE s == DeclinedState(p, r)
           d == declined[r] \cup {p}
<1>0. /\ phase[p][r] # "none" /\ DeclinedHandlerCleanup(p, r, s, d)
      /\ creating' = [creating EXCEPT ![p] = None]
      /\ UNCHANGED <<resetting, resetTodo, aging, up, crashes, failures>>
      /\ s \in ReqStates /\ s # "FULFILLED" /\ d \in SUBSET Pools
  BY DEF RunRaises, declineRequest, DeclinedState, ReqStates, SafetyInv, TypeOK
<1> HIDE DEF s, d
<1>d. /\ UnlockAndClear(p, nodeset[p][r]) /\ DropHandler(p, r) /\ UNCHANGED reqNodes
      /\ reqState' = reqState \/ (reqState' = [reqState EXCEPT ![r] = s] /\ ReqExists(r))
  BY <1>0 DEF DeclinedHandlerCleanup
<1>1. TypeOK'
  <2>1. creating' \in [Pools -> Nodes \cup {None}]
    BY <1>0 DEF SafetyInv, TypeOK
  <2> QED BY <1>0, <2>1, DeclineTypes DEF SafetyInv
<1>2. OwnersInv'
  BY <1>0, OwnersDecline DEF SafetyInv
<1>c. \A n \in Nodes \ nodeset[p][r] :
         /\ nodeLock'[n] = nodeLock[n] /\ nodeState'[n] = nodeState[n]
         /\ nodePool'[n] = nodePool[n] /\ local'[n] = local[n]
         /\ nodeAlloc'[n] = nodeAlloc[n]
  BY <1>d DEF UnlockAndClear, Unlocked
<1>3. NodesetsInv'
  BY <1>d, <1>c, NodesetsDrop DEF SafetyInv
<1>4. CreatingInv'
  <2>1. \A q \in Pools \ {p} : phase'[q] = phase[q] /\ creating'[q] = creating[q]
    BY <1>0, <1>d DEF DropHandler, SafetyInv, TypeOK
  <2>2. creating'[p] = None
    BY <1>0 DEF SafetyInv, TypeOK
  <2>3. ASSUME NEW q \in Pools, creating'[q] # None
        PROVE  /\ q # p /\ creating[q] # None /\ creating'[q] = creating[q]
               /\ phase'[q] = phase[q] /\ q \in up'
               /\ nodeState'[creating[q]] = nodeState[creating[q]]
               /\ nodeLock'[creating[q]] = nodeLock[creating[q]]
               /\ local'[creating[q]] = local[creating[q]]
               /\ nodePool'[creating[q]] = nodePool[creating[q]]
               /\ nodeAlloc'[creating[q]] = nodeAlloc[creating[q]]
    BY <1>0, <1>d, <2>1, <2>2, <2>3, CreatingSpared DEF SafetyInv, CreatingInv
  <2> QED BY <2>3 DEF SafetyInv, CreatingInv
<1>5. ClaimsInv'
  BY <1>0, <1>d, <1>c, ClaimsDrop DEF SafetyInv
<1>6. AbsentInv'
  BY <1>d DEF UnlockAndClear, Unlocked, SafetyInv, AbsentInv, TypeOK, LocalStates
<1> QED BY <1>1, <1>2, <1>3, <1>4, <1>5, <1>6 DEF SafetyInv

(* SafetyInv holds until a session expires under its handlers. *)
FaultsInv == expiries \in Nat /\ (expiries = 0 => SafetyInv)

(* Steps that fail keep it, and so do the others. *)
LEMMA FaultsStep ==
    ASSUME FaultsInv, [FNext]_fvars
    PROVE  FaultsInv'
<1>1. CASE Next /\ UNCHANGED <<errors, expiries>>
  BY <1>1, SafetyStep DEF FaultsInv
<1>2. ASSUME NEW p \in Pools, NEW r \in Requests,
             \/ PollInterrupted(p, r) \/ PollStoreFails(p, r)
             \/ DeclineStoreFails(p, r) \/ RunRaises(p, r)
      PROVE  FaultsInv'
  <2>1. UNCHANGED expiries
    BY <1>2 DEF PollInterrupted, PollStoreFails, DeclineStoreFails, RunRaises, Raises
  <2> QED
    BY <1>2, <2>1, InterruptedStep, StoreFailsStep, DeclineFailsStep, RunRaisesStep
       DEF FaultsInv
<1>3. ASSUME NEW p \in Pools, ExpireSession(p)
      PROVE  FaultsInv'
  BY <1>3 DEF ExpireSession, FaultsInv
<1>4. CASE UNCHANGED fvars
  <2>1. UNCHANGED vars /\ UNCHANGED expiries
    BY <1>4 DEF fvars
  <2> QED BY <2>1, SafetyStep DEF FaultsInv
<1> QED BY <1>1, <1>2, <1>3, <1>4 DEF FNext

(* FaultsInv is invariant. *)
LEMMA FaultsInvariance == FSpec => []FaultsInv
<1>1. FInit => FaultsInv
  BY SafetyInit DEF FInit, FaultsInv
<1> QED BY <1>1, FaultsStep, PTL DEF FSpec

(* However many operations of the handlers fail, a request that is being   *)
(* worked on is locked by the launcher that works on it: an interrupted    *)
(* poll() and a failed store keep the lock, a failed run() gives up both.  *)
THEOREM FaultsRequestExclusive == FSpec => [](expiries = 0 => HandlerHoldsRequest)
<1>1. FaultsInv => (expiries = 0 => HandlerHoldsRequest)
  BY DEF FaultsInv, SafetyInv, OwnersInv, HandlerHoldsRequest
<1> QED BY <1>1, FaultsInvariance, PTL

(* ... a node in a nodeset stays locked by its handler and allocated to    *)
(* its request                                                             *)
THEOREM FaultsNodesetExclusive == FSpec => [](expiries = 0 => NodesetHeld)
<1>1. FaultsInv => (expiries = 0 => NodesetHeld)
  BY DEF FaultsInv, SafetyInv, NodesetsInv, NodesetHeld
<1> QED BY <1>1, FaultsInvariance, PTL

(* ... and no node is given to two requests.                               *)
THEOREM FaultsNodeExclusive == FSpec => [](expiries = 0 => NodeGivenOnce)
<1>1. FaultsInv => (expiries = 0 => NodeGivenOnce)
  BY GivenOnce DEF FaultsInv
<1> QED BY <1>1, FaultsInvariance, PTL
=============================================================================
