------------------------- MODULE NodeRequestsProofs -------------------------
(***************************************************************************)
(* Proofs that NodeRequests keeps its types and its safety properties, for *)
(* any pools, requests, nodes and bounds.                                  *)
(***************************************************************************)
EXTENDS NodeRequests, FiniteSetTheorems, TLAPS

(* The named states are distinct members of their types. *)
LEMMA HolderTypes ==
    ASSUME NEW p \in Pools
    PROVE  /\ Handler(p) \in Holders /\ Cleaner(p) \in Holders
           /\ Deleter(p) \in Holders /\ Zuul \in Holders /\ None \in Holders
BY DEF Holders

(* The launchers start with no handlers, locks or nodes: types hold. *)
LEMMA TypeInit == Init => TypeOK
BY ConstantsAssumption DEF Init, TypeOK, NodeStates, LocalStates, ReqStates, Phases, Holders

(* Unlocking and storing a handler's nodes keeps their types. *)
LEMMA UnlockTypes ==
    ASSUME TypeOK, NEW p \in Pools, NEW S \in SUBSET Nodes
    PROVE  /\ Unlocked(p, S) \in [Nodes -> Holders]
           /\ UnlockOnly(p, S) =>
                /\ nodeLock' \in [Nodes -> Holders]
                /\ local' \in [Nodes -> LocalStates]
                /\ UNCHANGED <<nodeState, nodeAlloc, nodePool>>
<1>1. Unlocked(p, S) \in [Nodes -> Holders]
  BY DEF Unlocked, TypeOK, Holders
<1>2. ASSUME UnlockOnly(p, S)
      PROVE  /\ nodeLock' \in [Nodes -> Holders]
             /\ local' \in [Nodes -> LocalStates]
             /\ UNCHANGED <<nodeState, nodeAlloc, nodePool>>
  BY <1>1, <1>2 DEF UnlockOnly, TypeOK, LocalStates
<1> QED BY <1>1, <1>2

(* unlockNodeSet(clear_allocation=True) stores only states a node can have *)
(* when every node of the set has a Node object.                           *)
LEMMA ClearTypes ==
    ASSUME TypeOK, NEW p \in Pools, NEW S \in SUBSET Nodes,
           UnlockAndClear(p, S), \A n \in S : local[n] # "none"
    PROVE  /\ nodeState' \in [Nodes -> NodeStates]
           /\ nodeAlloc' \in [Nodes -> Requests \cup {None}]
           /\ nodeLock' \in [Nodes -> Holders]
           /\ local' \in [Nodes -> LocalStates]
           /\ UNCHANGED nodePool
<1>1. nodeLock' \in [Nodes -> Holders]
  BY UnlockTypes DEF UnlockAndClear
<1>2. nodeState' \in [Nodes -> NodeStates]
  BY DEF UnlockAndClear, TypeOK, NodeStates, LocalStates
<1>3. nodeAlloc' \in [Nodes -> Requests \cup {None}]
  BY DEF UnlockAndClear, TypeOK
<1>4. local' \in [Nodes -> LocalStates]
  BY DEF UnlockAndClear, TypeOK, LocalStates
<1> QED BY <1>1, <1>2, <1>3, <1>4 DEF UnlockAndClear

(* _declinedHandlerCleanup stores the nodes of the nodeset and the request, *)
(* and drops the handler.                                                  *)
LEMMA DeclineTypes ==
    ASSUME TypeOK, NodesetsInv, NEW p \in Pools, NEW r \in Requests,
           NEW s \in ReqStates, NEW d \in SUBSET Pools,
           DeclinedHandlerCleanup(p, r, s, d),
           creating' \in [Pools -> Nodes \cup {None}], UNCHANGED <<cleanup, bounds>>
    PROVE  TypeOK'
<1> USE DEF zkNode, zkReq, handler, cleanup, bounds
<1>1. UnlockAndClear(p, nodeset[p][r]) /\ nodeset[p][r] \in SUBSET Nodes
      /\ \A n \in nodeset[p][r] : local[n] # "none"
  BY DEF DeclinedHandlerCleanup, TypeOK, NodesetsInv
<1>2. /\ nodeState' \in [Nodes -> NodeStates]
      /\ nodeAlloc' \in [Nodes -> Requests \cup {None}]
      /\ nodeLock' \in [Nodes -> Holders]
      /\ local' \in [Nodes -> LocalStates]
      /\ UNCHANGED nodePool
  BY <1>1, ClearTypes
<1>3. /\ reqState' \in [Requests -> ReqStates]
      /\ declined' \in [Requests -> SUBSET Pools]
      /\ reqLock' \in [Requests -> Holders]
      /\ UNCHANGED reqNodes
  <2>1. reqState' = reqState \/ reqState' = [reqState EXCEPT ![r] = s]
    BY DEF DeclinedHandlerCleanup
  <2>2. declined' = declined \/ declined' = [declined EXCEPT ![r] = d]
    BY DEF DeclinedHandlerCleanup
  <2>3. reqLock' = reqLock \/ reqLock' = [reqLock EXCEPT ![r] = None]
    BY DEF DeclinedHandlerCleanup, ReleaseRequest, TypeOK
  <2>4. UNCHANGED reqNodes
    BY DEF DeclinedHandlerCleanup
  <2>5. /\ reqState \in [Requests -> ReqStates]
        /\ declined \in [Requests -> SUBSET Pools]
        /\ reqLock \in [Requests -> Holders]
    BY DEF TypeOK
  <2> QED BY <2>1, <2>2, <2>3, <2>4, <2>5, HolderTypes
<1>4. /\ phase' \in [Pools -> [Requests -> Phases]]
      /\ nodeset' \in [Pools -> [Requests -> SUBSET Nodes]]
      /\ satisfied' \in [Pools -> [Requests -> SUBSET Nodes]]
      /\ verdict' \in [Pools -> [Requests -> ReqStates]]
  BY DEF DeclinedHandlerCleanup, DropHandler, TypeOK, Phases, ReqStates
<1> QED BY <1>2, <1>3, <1>4 DEF TypeOK

(* Every operation keeps the types; those that store a Node object whole   *)
(* need NodesetsInv, which says that the object is there.                  *)
LEMMA TypeStep == TypeOK /\ NodesetsInv /\ [Next]_vars => TypeOK'
<1> SUFFICES ASSUME TypeOK, NodesetsInv, [Next]_vars PROVE TypeOK'
  OBVIOUS
<1> USE DEF zkNode, zkReq, handler, cleanup, bounds
<1>1. ASSUME NEW p \in Pools, NEW r \in Requests, PoolWorkerStep(p, r)
      PROVE  TypeOK'
  <2> USE HolderTypes
  <2>1. CASE AcceptRequest(p, r)
    BY <2>1 DEF AcceptRequest, TypeOK, ReqStates, Phases
  <2>2. CASE DeclineOnArrival(p, r)
    BY <2>2 DEF DeclineOnArrival, DeclinedState, TypeOK, ReqStates
  <2>3. CASE RetryPaused(p, r)
    BY <2>3 DEF RetryPaused, TypeOK, Phases
  <2>4. ASSUME NEW s \in ReqStates, NEW d \in SUBSET Pools,
               DeclinedHandlerCleanup(p, r, s, d),
               UNCHANGED <<creating, cleanup, bounds>>
        PROVE  TypeOK'
    BY <2>4, DeclineTypes DEF TypeOK
  <2>5. DeclinedState(p, r) \in ReqStates /\ declined[r] \cup {p} \in SUBSET Pools
        /\ reqState[r] \in ReqStates /\ declined[r] \in SUBSET Pools
    BY DEF DeclinedState, TypeOK, ReqStates
  <2>6. CASE DeclinePaused(p, r)
    BY <2>4, <2>5, <2>6 DEF DeclinePaused, declineRequest
  <2>7. CASE DeclineMinReady(p, r)
    BY <2>4, <2>5, <2>7 DEF DeclineMinReady, declineRequest
  <2>8. CASE ReleaseAtQuota(p, r)
    BY <2>4, <2>5, <2>8 DEF ReleaseAtQuota
  <2>9. ASSUME NEW n \in Nodes, ReuseNode(p, r, n)
        PROVE  TypeOK'
    BY <2>9 DEF ReuseNode, TypeOK, LocalStates
  <2>10. ASSUME NEW n \in Nodes, CreateNode(p, r, n)
         PROVE  TypeOK'
    BY <2>10 DEF CreateNode, TypeOK, NodeStates, Phases
  <2>11. ASSUME NEW n \in Nodes, LockNewNode(p, r, n)
         PROVE  TypeOK'
    BY <2>11 DEF LockNewNode, TypeOK, NodeStates, LocalStates, Phases
  <2>12. CASE GrantQuota(p, r)
    BY <2>12 DEF GrantQuota, TypeOK, Phases
  <2>13. CASE NodeSetFilled(p, r)
    BY <2>13 DEF NodeSetFilled, TypeOK, Phases
  <2>14. CASE PauseHandler(p, r)
    BY <2>14 DEF PauseHandler, deleteOldestUnusedNode, TypeOK, NodeStates, Phases
  <2>15. CASE PollRequestGone(p, r)
    <3>1. nodeState' \in [Nodes -> NodeStates]
      BY <2>15 DEF PollRequestGone, TypeOK, NodesetsInv, NodeStates, LocalStates
    <3>2. nodeset[p][r] \in SUBSET Nodes
      BY DEF TypeOK
    <3>3. nodeLock' \in [Nodes -> Holders]
      BY <2>15, <3>2, UnlockTypes DEF PollRequestGone
    <3>4. /\ nodeAlloc' \in [Nodes -> Requests \cup {None}]
          /\ local' \in [Nodes -> LocalStates]
      BY <2>15 DEF PollRequestGone, TypeOK, LocalStates
    <3>5. /\ phase' \in [Pools -> [Requests -> Phases]]
          /\ nodeset' \in [Pools -> [Requests -> SUBSET Nodes]]
          /\ satisfied' \in [Pools -> [Requests -> SUBSET Nodes]]
          /\ verdict' \in [Pools -> [Requests -> ReqStates]]
      BY <2>15 DEF PollRequestGone, DropHandler, TypeOK, Phases, ReqStates
    <3> QED
      BY <2>15, <3>1, <3>3, <3>4, <3>5 DEF PollRequestGone, ReleaseRequest, TypeOK
  <2>16. ASSUME NEW S \in SUBSET Nodes, UnlockOnly(p, S)
         PROVE  /\ nodeLock' \in [Nodes -> Holders]
                /\ local' \in [Nodes -> LocalStates]
                /\ UNCHANGED <<nodeState, nodeAlloc, nodePool>>
    BY <2>16, UnlockTypes
  <2>17. CASE PollDecide(p, r)
    <3>1. nodeset[p][r] \in SUBSET Nodes /\ UnlockOnly(p, nodeset[p][r])
      BY <2>17 DEF PollDecide, TypeOK
    <3> QED
      BY <2>16, <2>17, <3>1 DEF PollDecide, DeclinedState, TypeOK, ReqStates, Phases
  <2>18. CASE PollAborted(p, r)
    <3>1. /\ WithLocal(p, r, "ABORTED") \in SUBSET Nodes
          /\ UnlockOnly(p, WithLocal(p, r, "ABORTED"))
      BY <2>18 DEF PollAborted, WithLocal, TypeOK
    <3> QED
      BY <2>16, <2>18, <3>1 DEF PollAborted, TypeOK, Phases
  <2>19. CASE PollStore(p, r)
    <3>1. /\ phase' \in [Pools -> [Requests -> Phases]]
          /\ nodeset' \in [Pools -> [Requests -> SUBSET Nodes]]
          /\ satisfied' \in [Pools -> [Requests -> SUBSET Nodes]]
          /\ verdict' \in [Pools -> [Requests -> ReqStates]]
      BY <2>19 DEF PollStore, DropHandler, TypeOK, Phases, ReqStates
    <3>2. /\ reqState' \in [Requests -> ReqStates]
          /\ reqLock' \in [Requests -> Holders]
      BY <2>19 DEF PollStore, ReleaseRequest, TypeOK
    <3>3. /\ declined' \in [Requests -> SUBSET Pools]
          /\ reqNodes' \in [Requests -> SUBSET Nodes]
      <4>1. /\ satisfied[p][r] \in SUBSET Nodes
            /\ declined[r] \cup {p} \in SUBSET Pools
            /\ declined \in [Requests -> SUBSET Pools]
            /\ reqNodes \in [Requests -> SUBSET Nodes]
        BY DEF TypeOK
      <4>2. \/ /\ reqNodes' = [reqNodes EXCEPT ![r] = satisfied[p][r]]
               /\ declined' = declined
            \/ /\ declined' = [declined EXCEPT ![r] = declined[r] \cup {p}]
               /\ reqNodes' = reqNodes
        BY <2>19 DEF PollStore
      <4> QED BY <4>1, <4>2
    <3> QED BY <2>19, <3>1, <3>2, <3>3 DEF PollStore, TypeOK
  <2>20. CASE PollStoreRaises(p, r)
    BY <2>20 DEF PollStoreRaises, TypeOK, Phases
  <2> QED
    BY <1>1, <2>1, <2>2, <2>3, <2>6, <2>7, <2>8, <2>9, <2>10, <2>11, <2>12, <2>13,
       <2>14, <2>15, <2>17, <2>18, <2>19, <2>20 DEF PoolWorkerStep
<1>2. ASSUME NEW p \in Pools, NEW r \in Requests, NodePoolStep(p, r)
      PROVE  TypeOK'
  <2>1. CASE createMinReady(p, r)
    BY <2>1 DEF createMinReady, TypeOK, ReqStates
  <2>2. CASE removeCompletedRequests(p, r)
    BY <2>2 DEF removeCompletedRequests, RequestRemoved, TypeOK, ReqStates
  <2> QED BY <1>2, <2>1, <2>2 DEF NodePoolStep
<1>3. ASSUME NEW n \in Nodes, LauncherStep(n)
      PROVE  TypeOK'
  <2>1. ASSUME NEW s \in LocalStates, LaunchResult(n, s)
        PROVE  local' \in [Nodes -> LocalStates]
    BY <2>1 DEF LaunchResult, TypeOK, LocalStates
  <2>2. CASE LaunchReady(n)
    BY <2>1, <2>2 DEF LaunchReady, TypeOK, NodeStates, LocalStates
  <2>3. CASE LaunchFailed(n)
    BY <2>1, <2>3, ConstantsAssumption DEF LaunchFailed, TypeOK, LocalStates
  <2>4. CASE LaunchAborted(n)
    BY <2>1, <2>4, ConstantsAssumption DEF LaunchAborted, TypeOK, NodeStates, LocalStates
  <2> QED BY <1>3, <2>2, <2>3, <2>4 DEF LauncherStep
<1>4. ASSUME NEW p \in Pools, CleanupWorkerStep(p)
      PROVE  TypeOK'
  <2>1. ASSUME NEW r \in Requests, LockLostRequest(p, r)
        PROVE  TypeOK'
    BY <2>1, HolderTypes DEF LockLostRequest, TypeOK
  <2>2. ASSUME NEW r \in Requests, ResetLostRequest(p, r)
        PROVE  TypeOK'
    BY <2>2, HolderTypes DEF ResetLostRequest, TypeOK, ReqStates
  <2>3. CASE ListAgedNodes(p)
    BY <2>3 DEF ListAgedNodes, TypeOK
  <2>4. ASSUME NEW n \in Nodes, DeallocateLost(p, n)
        PROVE  TypeOK'
    <3>1. /\ nodeState' \in [Nodes -> NodeStates]
          /\ nodeAlloc' \in [Nodes -> Requests \cup {None}]
      <4>1. /\ nodeState \in [Nodes -> NodeStates] /\ "DELETING" \in NodeStates
            /\ nodeAlloc \in [Nodes -> Requests \cup {None}]
        BY DEF TypeOK, NodeStates
      <4>2. \/ UNCHANGED <<nodeState, nodeAlloc>>
            \/ /\ nodeState' = [nodeState EXCEPT ![n] =
                                   IF @ = "INIT" THEN "DELETING" ELSE @]
               /\ nodeAlloc' = [nodeAlloc EXCEPT ![n] = None]
        BY <2>4 DEF DeallocateLost
      <4> QED BY <4>1, <4>2
    <3>2. resetTodo' \in [Pools -> SUBSET Nodes]
      BY <2>4 DEF DeallocateLost, TypeOK
    <3> QED BY <2>4, <3>1, <3>2 DEF DeallocateLost, TypeOK
  <2>5. ASSUME NEW n \in Nodes, DeleteAgedNode(p, n)
        PROVE  TypeOK'
    BY <2>5 DEF DeleteAgedNode, TypeOK, NodeStates
  <2>6. ASSUME NEW n \in Nodes, DeleteHeldNode(p, n)
        PROVE  TypeOK'
    BY <2>6 DEF DeleteHeldNode, TypeOK, NodeStates
  <2> QED BY <1>4, <2>1, <2>2, <2>3, <2>4, <2>5, <2>6 DEF CleanupWorkerStep
<1>5. ASSUME NEW p \in Pools, NEW n \in Nodes, DeletedNodeWorkerStep(p, n)
      PROVE  TypeOK'
  <2>1. CASE DeallocateMissing(p, n)
    BY <2>1 DEF DeallocateMissing, TypeOK
  <2>2. CASE StartNodeCleanup(p, n)
    BY <2>2, HolderTypes DEF StartNodeCleanup, TypeOK, NodeStates
  <2>3. CASE DeleteNode(p, n)
    BY <2>3, HolderTypes DEF DeleteNode, TypeOK, NodeStates
  <2>4. CASE DeleteFails(p, n)
    BY <2>4, HolderTypes, ConstantsAssumption DEF DeleteFails, TypeOK
  <2> QED BY <1>5, <2>1, <2>2, <2>3, <2>4 DEF DeletedNodeWorkerStep
<1>6. CASE ZuulStep
  <2>1. ASSUME NEW r \in Requests, ZuulSubmit(r)
        PROVE  TypeOK'
    BY <2>1 DEF ZuulSubmit, TypeOK, ReqStates
  <2>2. ASSUME NEW r \in Requests, ZuulWithdraw(r)
        PROVE  TypeOK'
    BY <2>2 DEF ZuulWithdraw, RequestRemoved, TypeOK, ReqStates
  <2>3. ASSUME NEW r \in Requests, ZuulAccept(r)
        PROVE  TypeOK'
    BY <2>3 DEF ZuulAccept, RequestRemoved, TypeOK, NodeStates, ReqStates, Holders
  <2>4. ASSUME NEW n \in Nodes, ZuulReturn(n)
        PROVE  TypeOK'
    BY <2>4 DEF ZuulReturn, TypeOK, NodeStates, Holders
  <2> QED BY <1>6, <2>1, <2>2, <2>3, <2>4 DEF ZuulStep
<1>7. ASSUME NEW p \in Pools, Crash(p)
      PROVE  TypeOK'
  <2>1. /\ nodeLock' \in [Nodes -> Holders]
        /\ reqLock' \in [Requests -> Holders]
    BY <1>7 DEF Crash, TypeOK, Holders
  <2>2. /\ reqState' \in [Requests -> ReqStates]
        /\ reqNodes' \in [Requests -> SUBSET Nodes]
        /\ local' \in [Nodes -> LocalStates]
    BY <1>7 DEF Crash, TypeOK, ReqStates, LocalStates
  <2>3. /\ phase' \in [Pools -> [Requests -> Phases]]
        /\ nodeset' \in [Pools -> [Requests -> SUBSET Nodes]]
        /\ satisfied' \in [Pools -> [Requests -> SUBSET Nodes]]
        /\ verdict' \in [Pools -> [Requests -> ReqStates]]
    BY <1>7 DEF Crash, TypeOK, Phases, ReqStates
  <2>4. /\ up' \subseteq Pools /\ crashes' \in 0..MaxCrashes
        /\ failures' \in 0..MaxFailures
    BY <1>7, ConstantsAssumption DEF Crash, TypeOK
  <2> QED BY <1>7, <2>1, <2>2, <2>3, <2>4 DEF Crash, TypeOK
<1>8. ASSUME NEW p \in Pools, Restart(p)
      PROVE  TypeOK'
  BY <1>8 DEF Restart, TypeOK
<1>9. CASE UNCHANGED vars
  BY <1>9 DEF vars, TypeOK
<1> QED BY <1>1, <1>2, <1>3, <1>4, <1>5, <1>6, <1>7, <1>8, <1>9 DEF Next
----------------------------------------------------------------------------
(* Lock holders of different pools or roles are different. *)
LEMMA HolderDistinct ==
    ASSUME NEW p \in Pools, NEW q \in Pools
    PROVE  /\ Handler(p) = Handler(q) => p = q
           /\ Cleaner(p) = Cleaner(q) => p = q
           /\ Handler(p) # Cleaner(q) /\ Handler(p) # Deleter(q)
           /\ Cleaner(p) # Deleter(q)
           /\ Handler(p) \notin {Zuul, None} /\ Cleaner(p) \notin {Zuul, None}
           /\ Deleter(p) \notin {Zuul, None}
BY ConstantsAssumption DEF Handler, Cleaner, Deleter

(* At the start nobody holds a request. *)
LEMMA OwnersInit == Init => OwnersInv
BY DEF Init, OwnersInv, Busy

(* A declined request is given up by its handler, and by it alone. *)
LEMMA OwnersDecline ==
    ASSUME TypeOK, OwnersInv, NEW p \in Pools, NEW r \in Requests,
           NEW s \in ReqStates, NEW d, phase[p][r] # "none",
           DeclinedHandlerCleanup(p, r, s, d), UNCHANGED <<resetting, up>>
    PROVE  OwnersInv'
<1>1. CASE ReqExists(r)
  <2>1. /\ phase' = [phase EXCEPT ![p][r] = "none"]
        /\ reqLock' = [reqLock EXCEPT ![r] = None]
        /\ reqState' = [reqState EXCEPT ![r] = s]
        /\ UNCHANGED <<resetting, up>>
    BY <1>1 DEF DeclinedHandlerCleanup, ReleaseRequest, DropHandler,
       OwnersInv
  <2>2. \A q \in Pools, t \in Requests : phase'[q][t] # "none" =>
           q \in up' /\ reqLock'[t] = Handler(q)
             /\ reqState'[t] \in {"PENDING", "removed"}
    BY <2>1, HolderDistinct DEF OwnersInv, TypeOK
  <2>3. \A q \in Pools : resetting'[q] # None =>
           q \in up' /\ reqLock'[resetting'[q]] = Cleaner(q)
             /\ reqState'[resetting'[q]] \in {"PENDING", "removed"}
    BY <2>1, HolderDistinct DEF OwnersInv, TypeOK
  <2>4. \A q \in Pools, t, u \in Requests :
           phase'[q][t] \in Busy /\ phase'[q][u] \in Busy => t = u
    BY <2>1 DEF OwnersInv, TypeOK, Busy
  <2> QED BY <2>2, <2>3, <2>4 DEF OwnersInv
<1>2. CASE ~ReqExists(r)
  BY <1>2 DEF DeclinedHandlerCleanup, DropHandler, OwnersInv, TypeOK, Busy
<1> QED BY <1>1, <1>2

(* No operation takes a request from the handler or cleanup that has its   *)
(* lock, and none starts a second handler while a PoolWorker is busy.      *)
LEMMA OwnersStep == TypeOK /\ OwnersInv /\ [Next]_vars => OwnersInv'
<1> SUFFICES ASSUME TypeOK, OwnersInv, [Next]_vars PROVE OwnersInv'
  OBVIOUS
<1> USE DEF zkNode, zkReq, handler, cleanup, bounds
<1>0. ASSUME UNCHANGED <<phase, resetting, reqState, reqLock, up>>
      PROVE  OwnersInv'
  BY <1>0 DEF OwnersInv
<1>1. ASSUME NEW p \in Pools, NEW r \in Requests, PoolWorkerStep(p, r)
      PROVE  OwnersInv'
  <2>1. CASE AcceptRequest(p, r)
    BY <2>1, HolderDistinct DEF AcceptRequest, Idle, OwnersInv, TypeOK, Busy
  <2>2. CASE DeclineOnArrival(p, r)
    BY <2>2, HolderDistinct DEF DeclineOnArrival, OwnersInv, TypeOK
  <2>3. CASE RetryPaused(p, r)
    BY <2>3 DEF RetryPaused, Idle, OwnersInv, TypeOK, Busy
  <2>4. ASSUME NEW s \in ReqStates, NEW d \in SUBSET Pools, phase[p][r] # "none",
               DeclinedHandlerCleanup(p, r, s, d),
               UNCHANGED <<creating, cleanup, bounds>>
        PROVE  OwnersInv'
    BY <2>4, OwnersDecline
  <2>5. DeclinedState(p, r) \in ReqStates /\ declined[r] \cup {p} \in SUBSET Pools
        /\ reqState[r] \in ReqStates /\ declined[r] \in SUBSET Pools
    BY DEF DeclinedState, TypeOK, ReqStates
  <2>6. CASE DeclinePaused(p, r)
    BY <2>4, <2>5, <2>6 DEF DeclinePaused, declineRequest
  <2>7. CASE DeclineMinReady(p, r)
    BY <2>4, <2>5, <2>7 DEF DeclineMinReady, AtQuota, Filling, declineRequest
  <2>8. CASE ReleaseAtQuota(p, r)
    BY <2>4, <2>5, <2>8 DEF ReleaseAtQuota, AtQuota, Filling
  <2>9. ASSUME NEW n \in Nodes, ReuseNode(p, r, n)
        PROVE  OwnersInv'
    BY <1>0, <2>9 DEF ReuseNode
  <2>10. ASSUME NEW n \in Nodes, CreateNode(p, r, n)
         PROVE  OwnersInv'
    BY <2>10 DEF CreateNode, OwnersInv, TypeOK, Busy
  <2>11. ASSUME NEW n \in Nodes, LockNewNode(p, r, n)
         PROVE  OwnersInv'
    BY <1>0, <2>11 DEF LockNewNode
  <2>12. CASE GrantQuota(p, r)
    BY <2>12 DEF GrantQuota, Filling, OwnersInv, TypeOK, Busy
  <2>13. CASE NodeSetFilled(p, r)
    BY <2>13 DEF NodeSetFilled, Filling, OwnersInv, TypeOK, Busy
  <2>14. CASE PauseHandler(p, r)
    BY <2>14 DEF PauseHandler, AtQuota, Filling, OwnersInv, TypeOK, Busy
  <2>15. CASE PollRequestGone(p, r)
    BY <2>15, HolderDistinct DEF PollRequestGone, LaunchesComplete, ReleaseRequest,
       DropHandler, OwnersInv, TypeOK, Busy
  <2>17. CASE PollDecide(p, r)
    BY <2>17 DEF PollDecide, LaunchesComplete, Idle, OwnersInv, TypeOK, Busy
  <2>18. CASE PollAborted(p, r)
    BY <2>18 DEF PollAborted, LaunchesComplete, OwnersInv, TypeOK, Busy
  <2>19. CASE PollStore(p, r)
    BY <2>19, HolderDistinct DEF PollStore, ReleaseRequest, DropHandler, OwnersInv,
       TypeOK, Busy
  <2>20. CASE PollStoreRaises(p, r)
    BY <2>20 DEF PollStoreRaises, OwnersInv, TypeOK, Busy
  <2> QED
    BY <1>1, <2>1, <2>2, <2>3, <2>6, <2>7, <2>8, <2>9, <2>10, <2>11, <2>12, <2>13,
       <2>14, <2>15, <2>17, <2>18, <2>19, <2>20 DEF PoolWorkerStep
<1>2. ASSUME NEW p \in Pools, NEW r \in Requests, NodePoolStep(p, r)
      PROVE  OwnersInv'
  <2>1. CASE createMinReady(p, r)
    BY <2>1 DEF createMinReady, OwnersInv, TypeOK
  <2>2. CASE removeCompletedRequests(p, r)
    BY <2>2 DEF removeCompletedRequests, RequestRemoved, OwnersInv, TypeOK
  <2> QED BY <1>2, <2>1, <2>2 DEF NodePoolStep
<1>3. ASSUME NEW n \in Nodes, LauncherStep(n)
      PROVE  OwnersInv'
  BY <1>0, <1>3 DEF LauncherStep, LaunchReady, LaunchFailed, LaunchAborted
<1>4. ASSUME NEW p \in Pools, CleanupWorkerStep(p)
      PROVE  OwnersInv'
  <2>1. ASSUME NEW r \in Requests, LockLostRequest(p, r)
        PROVE  OwnersInv'
    BY <2>1, HolderDistinct, ConstantsAssumption DEF LockLostRequest, OwnersInv, TypeOK
  <2>2. ASSUME NEW r \in Requests, ResetLostRequest(p, r)
        PROVE  OwnersInv'
    <3>1. r # None /\ reqLock[r] = Cleaner(p)
      BY <2>2, ConstantsAssumption DEF ResetLostRequest, OwnersInv
    <3>2. \A q \in Pools : phase[q][r] = "none"
      BY <3>1, HolderDistinct DEF OwnersInv
    <3>3. \A q \in Pools \ {p} : resetting[q] # r
      BY <3>1, HolderDistinct DEF OwnersInv
    <3> QED BY <2>2, <3>1, <3>2, <3>3 DEF ResetLostRequest, OwnersInv, TypeOK
  <2>3. CASE ListAgedNodes(p)
    BY <1>0, <2>3 DEF ListAgedNodes
  <2>4. ASSUME NEW n \in Nodes,
               DeallocateLost(p, n) \/ DeleteAgedNode(p, n) \/ DeleteHeldNode(p, n)
        PROVE  OwnersInv'
    BY <1>0, <2>4 DEF DeallocateLost, DeleteAgedNode, DeleteHeldNode
  <2> QED BY <1>4, <2>1, <2>2, <2>3, <2>4 DEF CleanupWorkerStep
<1>5. ASSUME NEW p \in Pools, NEW n \in Nodes, DeletedNodeWorkerStep(p, n)
      PROVE  OwnersInv'
  BY <1>0, <1>5 DEF DeletedNodeWorkerStep, DeallocateMissing, StartNodeCleanup,
     DeleteNode, DeleteFails
<1>6. CASE ZuulStep
  <2>1. ASSUME NEW r \in Requests, ZuulSubmit(r)
        PROVE  OwnersInv'
    BY <2>1 DEF ZuulSubmit, OwnersInv, TypeOK
  <2>2. ASSUME NEW r \in Requests, ZuulWithdraw(r)
        PROVE  OwnersInv'
    BY <2>2 DEF ZuulWithdraw, RequestRemoved, OwnersInv, TypeOK
  <2>3. ASSUME NEW r \in Requests, ZuulAccept(r)
        PROVE  OwnersInv'
    BY <2>3 DEF ZuulAccept, RequestRemoved, OwnersInv, TypeOK
  <2>4. ASSUME NEW n \in Nodes, ZuulReturn(n)
        PROVE  OwnersInv'
    BY <1>0, <2>4 DEF ZuulReturn
  <2> QED BY <1>6, <2>1, <2>2, <2>3, <2>4 DEF ZuulStep
<1>7. ASSUME NEW p \in Pools, Crash(p)
      PROVE  OwnersInv'
  BY <1>7, HolderDistinct, ConstantsAssumption DEF Crash, OwnLocks, OwnersInv, TypeOK, Busy
<1>8. ASSUME NEW p \in Pools, Restart(p)
      PROVE  OwnersInv'
  BY <1>8 DEF Restart, OwnersInv
<1>9. CASE UNCHANGED vars
  BY <1>0, <1>9 DEF vars
<1> QED BY <1>1, <1>2, <1>3, <1>4, <1>5, <1>6, <1>7, <1>8, <1>9 DEF Next
----------------------------------------------------------------------------
(* At the start every nodeset is empty. *)
LEMMA NodesetsInit == Init => NodesetsInv
BY DEF Init, NodesetsInv, Gathering

(* A handler's node is left alone by whoever does not hold its lock. *)
LEMMA NodesetsFrame ==
    ASSUME TypeOK, NodesetsInv, UNCHANGED <<phase, nodeset, satisfied>>,
           \A n \in Nodes : (\E p \in Pools : nodeLock[n] = Handler(p)) =>
               /\ nodeLock'[n] = nodeLock[n] /\ nodeState'[n] = nodeState[n]
               /\ nodePool'[n] = nodePool[n] /\ local'[n] = local[n]
               /\ nodeAlloc'[n] = nodeAlloc[n]
    PROVE  NodesetsInv'
<1>1. \A p \in Pools, r \in Requests : \A n \in nodeset[p][r] : n \in Nodes
  BY DEF TypeOK
<1>2. \A p \in Pools, r \in Requests : \A n \in nodeset'[p][r] :
          /\ nodeLock'[n] = Handler(p) /\ nodeAlloc'[n] = r /\ nodePool'[n] = p
          /\ local'[n] # "none" /\ nodeState'[n] # "absent"
          /\ local'[n] = "READY" => nodeState'[n] = "READY"
  BY <1>1 DEF NodesetsInv
<1> QED BY <1>2 DEF NodesetsInv

(* Different handlers have different nodes. *)
LEMMA NodesetsDisjoint ==
    ASSUME TypeOK, NodesetsInv, NEW p \in Pools, NEW r \in Requests,
           NEW q \in Pools, NEW s \in Requests, <<p, r>> # <<q, s>>,
           NEW n \in nodeset[p][r]
    PROVE  n \notin nodeset[q][s]
<1>1. CASE p # q
  BY <1>1, HolderDistinct DEF NodesetsInv
<1>2. CASE p = q /\ r # s
  BY <1>2 DEF NodesetsInv
<1> QED BY <1>1, <1>2

(* A handler that is dropped gives up its nodes and no others. *)
LEMMA NodesetsDrop ==
    ASSUME TypeOK, NodesetsInv, NEW p \in Pools, NEW r \in Requests,
           \A n \in Nodes \ nodeset[p][r] :
              /\ nodeLock'[n] = nodeLock[n] /\ nodeState'[n] = nodeState[n]
              /\ nodePool'[n] = nodePool[n] /\ local'[n] = local[n]
              /\ nodeAlloc'[n] = nodeAlloc[n],
           DropHandler(p, r)
    PROVE  NodesetsInv'
<1>1. ASSUME NEW q \in Pools, NEW s \in Requests
      PROVE  /\ phase'[q][s] \in Gathering => nodeset'[q][s] \subseteq satisfied'[q][s]
             /\ phase'[q][s] \notin Gathering => nodeset'[q][s] = {}
  BY DEF DropHandler, NodesetsInv, TypeOK, Gathering
<1>2. ASSUME NEW q \in Pools, NEW s \in Requests, NEW n \in nodeset'[q][s]
      PROVE  n \in nodeset[q][s] /\ n \in Nodes \ nodeset[p][r]
  <2>1. <<p, r>> # <<q, s>> /\ n \in nodeset[q][s]
    BY <1>2 DEF DropHandler, TypeOK
  <2>2. n \notin nodeset[p][r]
    BY <2>1, NodesetsDisjoint
  <2> QED BY <2>1, <2>2 DEF TypeOK
<1> QED BY <1>1, <1>2 DEF NodesetsInv

(* Nodes that poll() unlocks and takes out of the nodeset leave the others *)
(* as they are.                                                            *)
LEMMA NodesetsUnlock ==
    ASSUME TypeOK, NodesetsInv, NEW p \in Pools, NEW r \in Requests,
           NEW S \in SUBSET nodeset[p][r], UnlockOnly(p, S),
           nodeset' = [nodeset EXCEPT ![p][r] = @ \ S],
           \A q \in Pools, s \in Requests :
              /\ phase'[q][s] \in Gathering => nodeset'[q][s] \subseteq satisfied'[q][s]
              /\ phase'[q][s] \notin Gathering => nodeset'[q][s] = {}
    PROVE  NodesetsInv'
<1>1. ASSUME NEW q \in Pools, NEW s \in Requests, NEW n \in nodeset'[q][s]
      PROVE  n \in nodeset[q][s] /\ n \in Nodes \ S
  <2>1. n \in nodeset[q][s] /\ (<<p, r>> = <<q, s>> => n \notin S)
    BY <1>1 DEF TypeOK
  <2>2. <<p, r>> # <<q, s>> => n \notin nodeset[p][r]
    BY <2>1, NodesetsDisjoint
  <2> QED BY <2>1, <2>2 DEF TypeOK
<1>2. \A n \in Nodes \ S : nodeLock'[n] = nodeLock[n] /\ local'[n] = local[n]
  BY DEF UnlockOnly, Unlocked
<1>3. ASSUME NEW q \in Pools, NEW s \in Requests, NEW n \in nodeset'[q][s]
      PROVE  /\ nodeLock'[n] = Handler(q) /\ nodeAlloc'[n] = s
             /\ nodePool'[n] = q
             /\ local'[n] # "none" /\ nodeState'[n] # "absent"
             /\ local'[n] = "READY" => nodeState'[n] = "READY"
  <2>1. n \in nodeset[q][s] /\ n \in Nodes \ S
    BY <1>1, <1>3
  <2> QED BY <1>2, <2>1 DEF UnlockOnly, NodesetsInv
<1> QED BY <1>3 DEF NodesetsInv

(* No operation unlocks, reallocates or deletes a node that is in some     *)
(* handler's nodeset, or adds one that another handler has.                *)
LEMMA NodesetsStep ==
    TypeOK /\ OwnersInv /\ NodesetsInv /\ CreatingInv /\ ClaimsInv /\ [Next]_vars
        => NodesetsInv'
<1> SUFFICES ASSUME TypeOK, OwnersInv, NodesetsInv, CreatingInv, ClaimsInv,
                    [Next]_vars
             PROVE  NodesetsInv'
  OBVIOUS
<1> USE DEF zkNode, zkReq, handler, cleanup, bounds
<1>0. ASSUME UNCHANGED <<phase, nodeset, satisfied, zkNode, local>>
      PROVE  NodesetsInv'
  BY <1>0 DEF NodesetsInv
<1>1. ASSUME NEW p \in Pools, NEW r \in Requests, PoolWorkerStep(p, r)
      PROVE  NodesetsInv'
  <2>1. CASE AcceptRequest(p, r)
    <3>1. ASSUME NEW q \in Pools, NEW s \in Requests
          PROVE  /\ phase'[q][s] \in Gathering => nodeset'[q][s] \subseteq satisfied'[q][s]
                 /\ phase'[q][s] \notin Gathering => nodeset'[q][s] = {}
      <4>1. CASE q = p /\ s = r
        <5>1. nodeset[p][r] = {} /\ satisfied[p][r] = {}
          BY <2>1 DEF AcceptRequest, NodesetsInv, ClaimsInv, Gathering
        <5> QED BY <2>1, <4>1, <5>1 DEF AcceptRequest
      <4>2. CASE ~(q = p /\ s = r)
        BY <2>1, <4>2 DEF AcceptRequest, NodesetsInv, TypeOK
      <4> QED BY <4>1, <4>2
    <3> QED BY <2>1, <3>1 DEF AcceptRequest, NodesetsInv
  <2>2. CASE DeclineOnArrival(p, r)
    BY <1>0, <2>2 DEF DeclineOnArrival
  <2>3. CASE RetryPaused(p, r)
    BY <2>3 DEF RetryPaused, NodesetsInv, TypeOK, Gathering
  <2>4. ASSUME \A n \in Nodes \ nodeset[p][r] :
                  /\ nodeLock'[n] = nodeLock[n] /\ nodeState'[n] = nodeState[n]
                  /\ nodePool'[n] = nodePool[n] /\ local'[n] = local[n]
                  /\ nodeAlloc'[n] = nodeAlloc[n],
               DropHandler(p, r)
        PROVE  NodesetsInv'
    BY <2>4, NodesetsDrop
  <2>5. ASSUME NEW s, NEW d, DeclinedHandlerCleanup(p, r, s, d)
        PROVE  NodesetsInv'
    <3>1. nodeset[p][r] \in SUBSET Nodes
      BY DEF TypeOK
    <3>2. \A n \in Nodes \ nodeset[p][r] :
             /\ nodeLock'[n] = nodeLock[n] /\ nodeState'[n] = nodeState[n]
             /\ nodePool'[n] = nodePool[n] /\ local'[n] = local[n]
             /\ nodeAlloc'[n] = nodeAlloc[n]
      BY <2>5 DEF DeclinedHandlerCleanup, UnlockAndClear, Unlocked
    <3> QED BY <2>4, <2>5, <3>1, <3>2 DEF DeclinedHandlerCleanup
  <2>6. CASE DeclinePaused(p, r)
    BY <2>5, <2>6 DEF DeclinePaused, declineRequest
  <2>7. CASE DeclineMinReady(p, r)
    BY <2>5, <2>7 DEF DeclineMinReady, declineRequest
  <2>8. CASE ReleaseAtQuota(p, r)
    BY <2>5, <2>8 DEF ReleaseAtQuota
  <2>9. ASSUME NEW n \in Nodes, nodeLock[n] = None, n \in Nodes,
               phase[p][r] = "filling", UNCHANGED phase,
               nodeset' = [nodeset EXCEPT ![p][r] = @ \cup {n}],
               satisfied' = [satisfied EXCEPT ![p][r] = @ \cup {n}],
               \A m \in Nodes \ {n} :
                  /\ nodeLock'[m] = nodeLock[m] /\ nodeState'[m] = nodeState[m]
                  /\ nodePool'[m] = nodePool[m] /\ local'[m] = local[m]
                  /\ nodeAlloc'[m] = nodeAlloc[m],
               /\ nodeLock'[n] = Handler(p) /\ nodeAlloc'[n] = r /\ nodePool'[n] = p
               /\ local'[n] # "none" /\ nodeState'[n] # "absent"
               /\ local'[n] = "READY" => nodeState'[n] = "READY"
        PROVE  NodesetsInv'
    <3>1. ASSUME NEW q \in Pools, NEW s \in Requests
          PROVE  /\ phase'[q][s] \in Gathering => nodeset'[q][s] \subseteq satisfied'[q][s]
                 /\ phase'[q][s] \notin Gathering => nodeset'[q][s] = {}
      <4>1. CASE q = p /\ s = r
        <5>1. nodeset[p][r] \subseteq satisfied[p][r] /\ phase[p][r] \in Gathering
          BY <2>9 DEF NodesetsInv, Gathering
        <5> QED BY <2>9, <4>1, <5>1 DEF TypeOK
      <4>2. CASE ~(q = p /\ s = r)
        BY <2>9, <4>2 DEF NodesetsInv, TypeOK
      <4> QED BY <4>1, <4>2
    <3>2. ASSUME NEW q \in Pools, NEW s \in Requests, NEW m \in nodeset'[q][s]
          PROVE  \/ m = n /\ q = p /\ s = r
                 \/ m \in nodeset[q][s] /\ m \in Nodes \ {n}
      <4>1. m \in nodeset[q][s] => m # n
        BY <2>9, HolderDistinct DEF NodesetsInv
      <4> QED BY <2>9, <3>2, <4>1 DEF TypeOK
    <3>3. ASSUME NEW q \in Pools, NEW s \in Requests, NEW m \in nodeset'[q][s]
          PROVE  /\ nodeLock'[m] = Handler(q) /\ nodeAlloc'[m] = s
                 /\ nodePool'[m] = q
                 /\ local'[m] # "none" /\ nodeState'[m] # "absent"
                 /\ local'[m] = "READY" => nodeState'[m] = "READY"
      <4>1. CASE m = n /\ q = p /\ s = r
        BY <2>9, <4>1
      <4>2. CASE m \in nodeset[q][s] /\ m \in Nodes \ {n}
        BY <2>9, <4>2 DEF NodesetsInv
      <4> QED BY <3>2, <3>3, <4>1, <4>2
    <3> QED BY <3>1, <3>3 DEF NodesetsInv
  <2>10. ASSUME NEW n \in Nodes, ReuseNode(p, r, n)
         PROVE  NodesetsInv'
    BY <2>9, <2>10 DEF ReuseNode, Filling, TypeOK
  <2>11. ASSUME NEW n \in Nodes, CreateNode(p, r, n)
         PROVE  NodesetsInv'
    <3>1. \A q \in Pools, s \in Requests : n \notin nodeset[q][s]
      BY <2>11 DEF CreateNode, FreshId
    <3>2. ASSUME NEW q \in Pools, NEW s \in Requests
          PROVE  /\ phase'[q][s] \in Gathering => nodeset'[q][s] \subseteq satisfied'[q][s]
                 /\ phase'[q][s] \notin Gathering => nodeset'[q][s] = {}
      BY <2>11 DEF CreateNode, NodesetsInv, TypeOK, Gathering
    <3> QED BY <2>11, <3>1, <3>2 DEF CreateNode, NodesetsInv, TypeOK
  <2>12. ASSUME NEW n \in Nodes, LockNewNode(p, r, n)
         PROVE  NodesetsInv'
    <3>1. nodeAlloc[n] = r /\ nodePool[n] = p /\ nodeLock[n] = None
      BY <2>12, ConstantsAssumption DEF LockNewNode, CreatingInv, OwnersInv, Busy
    <3> QED BY <2>9, <2>12, <3>1 DEF LockNewNode, TypeOK
  <2>13. CASE GrantQuota(p, r)
    BY <2>13 DEF GrantQuota, Filling, NodesetsInv, TypeOK, Gathering
  <2>14. CASE NodeSetFilled(p, r)
    BY <2>14 DEF NodeSetFilled, Filling, NodesetsInv, TypeOK, Gathering
  <2>15. CASE PauseHandler(p, r)
    <3>1. \A q \in Pools, s \in Requests : \A n \in nodeset[q][s] :
             nodeState'[n] = nodeState[n]
      BY <2>15, HolderDistinct DEF PauseHandler, deleteOldestUnusedNode, NodesetsInv,
         TypeOK
    <3>2. ASSUME NEW q \in Pools, NEW s \in Requests
          PROVE  /\ phase'[q][s] \in Gathering => nodeset'[q][s] \subseteq satisfied'[q][s]
                 /\ phase'[q][s] \notin Gathering => nodeset'[q][s] = {}
      BY <2>15 DEF PauseHandler, AtQuota, Filling, NodesetsInv, TypeOK, Gathering
    <3> QED BY <2>15, <3>1, <3>2 DEF PauseHandler, NodesetsInv
  <2>16. CASE PollRequestGone(p, r)
    <3>1. nodeset[p][r] \in SUBSET Nodes
      BY DEF TypeOK
    <3>2. \A n \in Nodes \ nodeset[p][r] :
             /\ nodeLock'[n] = nodeLock[n] /\ nodeState'[n] = nodeState[n]
             /\ nodePool'[n] = nodePool[n] /\ local'[n] = local[n]
             /\ nodeAlloc'[n] = nodeAlloc[n]
      BY <2>16 DEF PollRequestGone, Unlocked
    <3> QED BY <2>4, <2>16, <3>1, <3>2 DEF PollRequestGone
  <2>17. ASSUME NEW S \in SUBSET nodeset[p][r], UnlockOnly(p, S),
                nodeset' = [nodeset EXCEPT ![p][r] = @ \ S],
                \A q \in Pools, s \in Requests :
                   /\ phase'[q][s] \in Gathering => nodeset'[q][s] \subseteq satisfied'[q][s]
                   /\ phase'[q][s] \notin Gathering => nodeset'[q][s] = {}
         PROVE  NodesetsInv'
    BY <2>17, NodesetsUnlock
  <2>18. CASE PollDecide(p, r)
    <3>1. \A q \in Pools, s \in Requests :
             /\ phase'[q][s] \in Gathering => nodeset'[q][s] \subseteq satisfied'[q][s]
             /\ phase'[q][s] \notin Gathering => nodeset'[q][s] = {}
      BY <2>18 DEF PollDecide, NodesetsInv, TypeOK, Gathering
    <3>2. nodeset' = [nodeset EXCEPT ![p][r] = @ \ nodeset[p][r]]
      BY <2>18 DEF PollDecide
    <3> QED BY <2>17, <2>18, <3>1, <3>2 DEF PollDecide
  <2>19. CASE PollAborted(p, r)
    <3>1. \A q \in Pools, s \in Requests :
             /\ phase'[q][s] \in Gathering => nodeset'[q][s] \subseteq satisfied'[q][s]
             /\ phase'[q][s] \notin Gathering => nodeset'[q][s] = {}
      <4>1. nodeset[p][r] \subseteq satisfied[p][r] /\ phase[p][r] \in Gathering
        BY <2>19 DEF PollAborted, LaunchesComplete, NodesetsInv, Gathering
      <4>2. "paused" \in Gathering
        BY DEF Gathering
      <4> QED BY <2>19, <4>1, <4>2 DEF PollAborted, NodesetsInv, TypeOK
    <3> QED BY <2>17, <2>19, <3>1 DEF PollAborted, WithLocal
  <2>20. CASE PollStore(p, r)
    BY <2>20 DEF PollStore, DropHandler, NodesetsInv, TypeOK, Gathering
  <2>21. CASE PollStoreRaises(p, r)
    BY <2>21 DEF PollStoreRaises, NodesetsInv, TypeOK, Gathering
  <2> QED
    BY <1>1, <2>1, <2>2, <2>3, <2>6, <2>7, <2>8, <2>10, <2>11, <2>12, <2>13, <2>14,
       <2>15, <2>16, <2>18, <2>19, <2>20, <2>21 DEF PoolWorkerStep
<1>2. ASSUME NEW p \in Pools, NEW r \in Requests, NodePoolStep(p, r)
      PROVE  NodesetsInv'
  <2>1. CASE createMinReady(p, r)
    BY <1>0, <2>1 DEF createMinReady
  <2>2. CASE removeCompletedRequests(p, r)
    <3>1. ASSUME NEW q \in Pools, NEW s \in Requests, NEW n \in nodeset[q][s]
          PROVE  n \notin reqNodes[r]
      <4>1. nodeAlloc[n] = s /\ nodeState[n] # "absent" /\ phase[q][s] # "none"
        BY <3>1 DEF NodesetsInv, Gathering
      <4>2. reqState[s] \in {"PENDING", "removed"}
        BY <4>1 DEF OwnersInv
      <4> QED BY <2>2, <3>1, <4>1, <4>2 DEF removeCompletedRequests, ClaimsInv, Claims,
                 ReqExists, TypeOK
    <3> QED BY <2>2, <3>1 DEF removeCompletedRequests, NodesetsInv, TypeOK
  <2> QED BY <1>2, <2>1, <2>2 DEF NodePoolStep
<1>3. ASSUME NEW n \in Nodes, LauncherStep(n)
      PROVE  NodesetsInv'
  <2>1. ASSUME NEW s \in {"READY", "FAILED", "ABORTED"}, LaunchResult(n, s),
               UNCHANGED <<phase, nodeset, satisfied, nodeLock, nodeAlloc, nodePool>>,
               \/ UNCHANGED nodeState /\ s = "FAILED"
               \/ nodeState' = [nodeState EXCEPT ![n] = IF Exists(n) THEN s ELSE @]
        PROVE  NodesetsInv'
    <3>1. ASSUME NEW q \in Pools, NEW r \in Requests, NEW m \in nodeset[q][r]
          PROVE  /\ local'[m] # "none" /\ nodeState'[m] # "absent"
                 /\ local'[m] = "READY" => nodeState'[m] = "READY"
      <4>1. CASE m = n
        BY <2>1, <3>1, <4>1 DEF LaunchResult, NodesetsInv, Exists, TypeOK
      <4>2. CASE m # n
        BY <2>1, <3>1, <4>2 DEF LaunchResult, NodesetsInv, TypeOK
      <4> QED BY <4>1, <4>2
    <3> QED BY <2>1, <3>1 DEF NodesetsInv
  <2>2. CASE LaunchReady(n)
    BY <2>1, <2>2 DEF LaunchReady
  <2>3. CASE LaunchFailed(n)
    BY <2>1, <2>3 DEF LaunchFailed
  <2>4. CASE LaunchAborted(n)
    BY <2>1, <2>4 DEF LaunchAborted
  <2> QED BY <1>3, <2>2, <2>3, <2>4 DEF LauncherStep
<1>4. ASSUME NEW p \in Pools, CleanupWorkerStep(p)
      PROVE  NodesetsInv'
  <2>1. ASSUME NEW r \in Requests, LockLostRequest(p, r)
        PROVE  NodesetsInv'
    BY <1>0, <2>1 DEF LockLostRequest
  <2>2. ASSUME NEW r \in Requests, ResetLostRequest(p, r)
        PROVE  NodesetsInv'
    BY <1>0, <2>2 DEF ResetLostRequest
  <2>3. CASE ListAgedNodes(p)
    BY <1>0, <2>3 DEF ListAgedNodes
  <2>4. ASSUME NEW n \in Nodes, DeallocateLost(p, n)
        PROVE  NodesetsInv'
    BY <2>4, HolderDistinct, NodesetsFrame DEF DeallocateLost, TypeOK
  <2>5. ASSUME NEW n \in Nodes, DeleteAgedNode(p, n)
        PROVE  NodesetsInv'
    BY <2>5, HolderDistinct, NodesetsFrame DEF DeleteAgedNode, TypeOK
  <2>6. ASSUME NEW n \in Nodes, DeleteHeldNode(p, n)
        PROVE  NodesetsInv'
    BY <2>6, HolderDistinct, NodesetsFrame DEF DeleteHeldNode, TypeOK
  <2> QED BY <1>4, <2>1, <2>2, <2>3, <2>4, <2>5, <2>6 DEF CleanupWorkerStep
<1>5. ASSUME NEW p \in Pools, NEW n \in Nodes, DeletedNodeWorkerStep(p, n)
      PROVE  NodesetsInv'
  <2>1. CASE DeallocateMissing(p, n)
    BY <2>1, HolderDistinct, NodesetsFrame DEF DeallocateMissing, TypeOK
  <2>2. CASE StartNodeCleanup(p, n)
    BY <2>2, HolderDistinct, NodesetsFrame DEF StartNodeCleanup, TypeOK
  <2>3. CASE DeleteNode(p, n)
    BY <2>3, HolderDistinct, NodesetsFrame DEF DeleteNode, TypeOK
  <2>4. CASE DeleteFails(p, n)
    BY <2>4, HolderDistinct, NodesetsFrame DEF DeleteFails, TypeOK
  <2> QED BY <1>5, <2>1, <2>2, <2>3, <2>4 DEF DeletedNodeWorkerStep
<1>6. CASE ZuulStep
  <2>1. ASSUME NEW r \in Requests, ZuulSubmit(r)
        PROVE  NodesetsInv'
    BY <1>0, <2>1 DEF ZuulSubmit
  <2>2. ASSUME NEW r \in Requests, ZuulWithdraw(r)
        PROVE  NodesetsInv'
    BY <1>0, <2>2 DEF ZuulWithdraw
  <2>3. ASSUME NEW r \in Requests, ZuulAccept(r)
        PROVE  NodesetsInv'
    BY <2>3, HolderDistinct, NodesetsFrame DEF ZuulAccept, TypeOK
  <2>4. ASSUME NEW n \in Nodes, ZuulReturn(n)
        PROVE  NodesetsInv'
    BY <2>4, HolderDistinct, NodesetsFrame DEF ZuulReturn, TypeOK
  <2> QED BY <1>6, <2>1, <2>2, <2>3, <2>4 DEF ZuulStep
<1>7. ASSUME NEW p \in Pools, Crash(p)
      PROVE  NodesetsInv'
  <2>1. ASSUME NEW q \in Pools, NEW s \in Requests
        PROVE  /\ phase'[q][s] \in Gathering => nodeset'[q][s] \subseteq satisfied'[q][s]
               /\ phase'[q][s] \notin Gathering => nodeset'[q][s] = {}
    BY <1>7 DEF Crash, NodesetsInv, TypeOK, Gathering
  <2>2. ASSUME NEW q \in Pools, NEW s \in Requests, NEW n \in nodeset'[q][s]
        PROVE  /\ q # p /\ n \in nodeset[q][s] /\ n \in Nodes
               /\ nodeLock'[n] = nodeLock[n] /\ local'[n] = local[n]
    <3>1. q # p /\ n \in nodeset[q][s] /\ n \in Nodes
      BY <1>7, <2>2 DEF Crash, TypeOK
    <3>2. nodeLock[n] = Handler(q) /\ nodePool[n] = q
      BY <3>1 DEF NodesetsInv
    <3>3. nodeLock[n] \notin OwnLocks(p)
      BY <3>1, <3>2, HolderDistinct DEF OwnLocks
    <3> QED BY <1>7, <3>1, <3>2, <3>3 DEF Crash
  <2>3. ASSUME NEW q \in Pools, NEW s \in Requests, NEW n \in nodeset'[q][s]
        PROVE  /\ nodeLock'[n] = Handler(q) /\ nodeAlloc'[n] = s
               /\ nodePool'[n] = q
               /\ local'[n] # "none" /\ nodeState'[n] # "absent"
               /\ local'[n] = "READY" => nodeState'[n] = "READY"
    <3>1. /\ n \in nodeset[q][s]
          /\ nodeLock'[n] = nodeLock[n] /\ local'[n] = local[n]
      BY <2>2, <2>3
    <3>2. UNCHANGED <<nodeState, nodeAlloc, nodePool>>
      BY <1>7 DEF Crash
    <3> QED BY <3>1, <3>2 DEF NodesetsInv
  <2> QED BY <2>1, <2>3 DEF NodesetsInv
<1>8. ASSUME NEW p \in Pools, Restart(p)
      PROVE  NodesetsInv'
  BY <1>0, <1>8 DEF Restart
<1>9. CASE UNCHANGED vars
  BY <1>0, <1>9 DEF vars
<1> QED BY <1>1, <1>2, <1>3, <1>4, <1>5, <1>6, <1>7, <1>8, <1>9 DEF Next
----------------------------------------------------------------------------
(* At the start there are no nodes. *)
LEMMA AbsentInit == Init => AbsentInv
BY DEF Init, AbsentInv

(* Deleting a znode drops its lock and allocation, and nothing locks or    *)
(* allocates a node that does not exist.                                   *)
LEMMA AbsentStep == TypeOK /\ CreatingInv /\ AbsentInv /\ [Next]_vars => AbsentInv'
<1> SUFFICES ASSUME TypeOK, CreatingInv, AbsentInv, [Next]_vars PROVE AbsentInv'
  OBVIOUS
<1> USE DEF zkNode, zkReq, handler, cleanup, bounds
<1>0. ASSUME UNCHANGED zkNode PROVE AbsentInv'
  BY <1>0 DEF AbsentInv
<1>1. ASSUME NEW p \in Pools, NEW r \in Requests, PoolWorkerStep(p, r)
      PROVE  AbsentInv'
  <2>1. CASE \/ AcceptRequest(p, r) \/ DeclineOnArrival(p, r) \/ RetryPaused(p, r)
             \/ GrantQuota(p, r) \/ NodeSetFilled(p, r) \/ PollStore(p, r)
             \/ PollStoreRaises(p, r)
    BY <1>0, <2>1 DEF AcceptRequest, DeclineOnArrival, RetryPaused, GrantQuota,
       NodeSetFilled, PollStore, PollStoreRaises
  <2>2. ASSUME UnlockAndClear(p, nodeset[p][r])
        PROVE  AbsentInv'
    BY <2>2 DEF UnlockAndClear, Unlocked, AbsentInv, TypeOK, LocalStates
  <2>3. CASE DeclinePaused(p, r) \/ DeclineMinReady(p, r) \/ ReleaseAtQuota(p, r)
    BY <2>2, <2>3 DEF DeclinePaused, DeclineMinReady, ReleaseAtQuota, declineRequest,
       DeclinedHandlerCleanup
  <2>4. ASSUME NEW n \in Nodes, ReuseNode(p, r, n)
        PROVE  AbsentInv'
    BY <2>4 DEF ReuseNode, AbsentInv, TypeOK
  <2>5. ASSUME NEW n \in Nodes, CreateNode(p, r, n)
        PROVE  AbsentInv'
    BY <2>5 DEF CreateNode, AbsentInv, TypeOK
  <2>6. ASSUME NEW n \in Nodes, LockNewNode(p, r, n)
        PROVE  AbsentInv'
    BY <2>6 DEF LockNewNode, AbsentInv, TypeOK
  <2>7. CASE PauseHandler(p, r)
    BY <2>7 DEF PauseHandler, deleteOldestUnusedNode, AbsentInv, TypeOK
  <2>8. CASE PollRequestGone(p, r)
    BY <2>8 DEF PollRequestGone, Unlocked, AbsentInv, TypeOK, LocalStates
  <2>9. ASSUME NEW S, UnlockOnly(p, S)
        PROVE  AbsentInv'
    BY <2>9 DEF UnlockOnly, Unlocked, AbsentInv
  <2>10. CASE PollDecide(p, r) \/ PollAborted(p, r)
    BY <2>9, <2>10 DEF PollDecide, PollAborted
  <2> QED
    BY <1>1, <2>1, <2>3, <2>4, <2>5, <2>6, <2>7, <2>8, <2>10 DEF PoolWorkerStep
<1>2. ASSUME NEW p \in Pools, NEW r \in Requests, NodePoolStep(p, r)
      PROVE  AbsentInv'
  BY <1>0, <1>2 DEF NodePoolStep, createMinReady, removeCompletedRequests, AbsentInv
<1>3. ASSUME NEW n \in Nodes, LauncherStep(n)
      PROVE  AbsentInv'
  BY <1>0, <1>3 DEF LauncherStep, LaunchReady, LaunchFailed, LaunchAborted, Exists,
     AbsentInv, TypeOK
<1>4. ASSUME NEW p \in Pools, CleanupWorkerStep(p)
      PROVE  AbsentInv'
  <2>1. ASSUME NEW r \in Requests, LockLostRequest(p, r) \/ ResetLostRequest(p, r)
        PROVE  AbsentInv'
    BY <1>0, <2>1 DEF LockLostRequest, ResetLostRequest
  <2>2. CASE ListAgedNodes(p)
    BY <1>0, <2>2 DEF ListAgedNodes
  <2>3. ASSUME NEW n \in Nodes, DeallocateLost(p, n)
        PROVE  AbsentInv'
    BY <2>3 DEF DeallocateLost, AbsentInv, TypeOK
  <2>4. ASSUME NEW n \in Nodes, DeleteAgedNode(p, n) \/ DeleteHeldNode(p, n)
        PROVE  AbsentInv'
    BY <2>4 DEF DeleteAgedNode, DeleteHeldNode, AbsentInv, TypeOK
  <2> QED BY <1>4, <2>1, <2>2, <2>3, <2>4 DEF CleanupWorkerStep
<1>5. ASSUME NEW p \in Pools, NEW n \in Nodes, DeletedNodeWorkerStep(p, n)
      PROVE  AbsentInv'
  BY <1>5 DEF DeletedNodeWorkerStep, DeallocateMissing, StartNodeCleanup, DeleteNode,
     DeleteFails, AbsentInv, TypeOK
<1>6. CASE ZuulStep
  <2>1. ASSUME NEW r \in Requests, ZuulSubmit(r) \/ ZuulWithdraw(r)
        PROVE  AbsentInv'
    BY <1>0, <2>1 DEF ZuulSubmit, ZuulWithdraw
  <2>2. ASSUME NEW r \in Requests, ZuulAccept(r)
        PROVE  AbsentInv'
    BY <2>2 DEF ZuulAccept, AbsentInv
  <2>3. ASSUME NEW n \in Nodes, ZuulReturn(n)
        PROVE  AbsentInv'
    BY <2>3 DEF ZuulReturn, AbsentInv, TypeOK
  <2> QED BY <1>6, <2>1, <2>2, <2>3 DEF ZuulStep
<1>7. ASSUME NEW p \in Pools, Crash(p) \/ Restart(p)
      PROVE  AbsentInv'
  BY <1>0, <1>7 DEF Crash, Restart, AbsentInv
<1>8. CASE UNCHANGED vars
  BY <1>0, <1>8 DEF vars
<1> QED BY <1>1, <1>2, <1>3, <1>4, <1>5, <1>6, <1>7, <1>8 DEF Next
----------------------------------------------------------------------------
(* At the start no node is being created. *)
LEMMA CreatingInit == Init => CreatingInv
BY DEF Init, CreatingInv

(* A node being created is in no nodeset and in no fulfilled request. *)
LEMMA CreatingApart ==
    ASSUME TypeOK, OwnersInv, NodesetsInv, CreatingInv, ClaimsInv,
           NEW q \in Pools, creating[q] # None
    PROVE  /\ creating[q] \in Nodes
           /\ \A p \in Pools, r \in Requests : creating[q] \notin nodeset[p][r]
           /\ \A r \in Requests : creating[q] \notin reqNodes[r]
<1>1. creating[q] \in Nodes
  BY DEF TypeOK
<1>2. \A p \in Pools, r \in Requests : creating[q] \notin nodeset[p][r]
  BY HolderDistinct DEF CreatingInv, NodesetsInv
<1>3. ASSUME NEW r \in Requests, creating[q] \in reqNodes[r]
      PROVE  FALSE
  <2>1. reqState[r] = "FULFILLED"
    BY <1>3 DEF ClaimsInv
  <2>2. nodeAlloc[creating[q]] = r
    BY <1>1, <1>3, <2>1 DEF ClaimsInv, Claims, ReqExists, CreatingInv
  <2>3. phase[q][r] = "filling"
    BY <2>2 DEF CreatingInv
  <2> QED BY <2>1, <2>3 DEF OwnersInv
<1> QED BY <1>1, <1>2, <1>3

(* What keeps a node being created as it is *)
LEMMA CreatingFrame ==
    ASSUME CreatingInv, UNCHANGED creating,
           \A q \in Pools : creating[q] # None =>
               /\ q \in up' /\ phase'[q] = phase[q]
               /\ nodeState'[creating[q]] = nodeState[creating[q]]
               /\ nodeLock'[creating[q]] = nodeLock[creating[q]]
               /\ local'[creating[q]] = local[creating[q]]
               /\ nodePool'[creating[q]] = nodePool[creating[q]]
               /\ nodeAlloc'[creating[q]] = nodeAlloc[creating[q]]
    PROVE  CreatingInv'
BY DEF CreatingInv

(* Between storeNode and lockNode nothing touches the INIT node: this is   *)
(* what makes locking it after it is stored safe in _waitForNodeSet.       *)
LEMMA CreatingStep ==
    TypeOK /\ OwnersInv /\ NodesetsInv /\ CreatingInv /\ ClaimsInv
      /\ AbsentInv /\ [Next]_vars
        => CreatingInv'
<1> SUFFICES ASSUME TypeOK, OwnersInv, NodesetsInv, CreatingInv, ClaimsInv,
                    AbsentInv, [Next]_vars
             PROVE  CreatingInv'
  OBVIOUS
<1> USE DEF zkNode, zkReq, handler, cleanup, bounds
<1>a. ASSUME UNCHANGED <<creating, phase, up, zkNode, local>>
      PROVE  CreatingInv'
  BY <1>a DEF CreatingInv
<1>b. ASSUME NEW n \in Nodes, UNCHANGED <<creating, phase, up>>,
             \A m \in Nodes \ {n} :
                /\ nodeLock'[m] = nodeLock[m] /\ nodeState'[m] = nodeState[m]
                /\ nodePool'[m] = nodePool[m] /\ local'[m] = local[m]
                /\ nodeAlloc'[m] = nodeAlloc[m],
             \A q \in Pools : creating[q] # n
      PROVE  CreatingInv'
  <2>1. \A q \in Pools : creating[q] # None => creating[q] \in Nodes \ {n} /\ q \in up
    BY <1>b DEF TypeOK, CreatingInv
  <2> QED BY <1>b, <2>1 DEF CreatingInv
<1>1. ASSUME NEW p \in Pools, NEW r \in Requests, PoolWorkerStep(p, r)
      PROVE  CreatingInv'
  <2>1. ASSUME NEW S \in SUBSET Nodes, creating[p] = None,
               UNCHANGED <<creating, up>>,
               \A q \in Pools \ {p} : phase'[q] = phase[q],
               \A n \in Nodes \ S :
                  /\ nodeLock'[n] = nodeLock[n] /\ nodeState'[n] = nodeState[n]
                  /\ nodePool'[n] = nodePool[n] /\ local'[n] = local[n]
                  /\ nodeAlloc'[n] = nodeAlloc[n],
               \A q \in Pools : creating[q] \notin S
        PROVE  CreatingInv'
    <3>1. ASSUME NEW q \in Pools, creating[q] # None
          PROVE  q # p /\ creating[q] \in Nodes \ S /\ q \in up
      BY <2>1, <3>1 DEF TypeOK, CreatingInv
    <3> QED BY <2>1, <3>1, CreatingFrame
  <2>2. ASSUME Idle(p) \/ phase[p][r] \in {"granted", "releasing", "storing"}
        PROVE  creating[p] = None
    BY <2>2 DEF Idle, CreatingInv, OwnersInv, Busy
  <2>3. ASSUME creating[p] = None, UNCHANGED <<creating, up, zkNode, local>>,
               \A q \in Pools \ {p} : phase'[q] = phase[q]
        PROVE  CreatingInv'
    BY <2>3 DEF CreatingInv
  <2>4. /\ nodeset[p][r] \in SUBSET Nodes
        /\ \A q \in Pools : creating[q] \notin nodeset[p][r]
    <3>1. nodeset[p][r] \in SUBSET Nodes /\ None \notin Nodes
      BY ConstantsAssumption DEF TypeOK
    <3>2. ASSUME NEW q \in Pools, creating[q] # None
          PROVE  creating[q] \notin nodeset[p][r]
      BY <3>2, CreatingApart
    <3> QED BY <3>1, <3>2
  <2>5. CASE AcceptRequest(p, r)
    BY <2>2, <2>3, <2>5 DEF AcceptRequest, TypeOK
  <2>6. CASE DeclineOnArrival(p, r)
    BY <1>a, <2>6 DEF DeclineOnArrival
  <2>7. CASE RetryPaused(p, r)
    BY <2>2, <2>3, <2>7 DEF RetryPaused, TypeOK
  <2>8. ASSUME NEW s, NEW d, DeclinedHandlerCleanup(p, r, s, d), creating[p] = None,
               UNCHANGED <<creating, up>>
        PROVE  CreatingInv'
    <3>1. \A q \in Pools \ {p} : phase'[q] = phase[q]
      BY <2>8 DEF DeclinedHandlerCleanup, DropHandler, TypeOK
    <3>2. \A n \in Nodes \ nodeset[p][r] :
             /\ nodeLock'[n] = nodeLock[n] /\ nodeState'[n] = nodeState[n]
             /\ nodePool'[n] = nodePool[n] /\ local'[n] = local[n]
             /\ nodeAlloc'[n] = nodeAlloc[n]
      BY <2>8 DEF DeclinedHandlerCleanup, UnlockAndClear, Unlocked
    <3> QED BY <2>1, <2>4, <2>8, <3>1, <3>2
  <2>9. CASE DeclinePaused(p, r)
    BY <2>2, <2>8, <2>9 DEF DeclinePaused, declineRequest
  <2>10. CASE DeclineMinReady(p, r)
    BY <2>8, <2>10 DEF DeclineMinReady, AtQuota, Filling, declineRequest
  <2>11. CASE ReleaseAtQuota(p, r)
    BY <2>2, <2>8, <2>11 DEF ReleaseAtQuota
  <2>12. ASSUME NEW n \in Nodes, ReuseNode(p, r, n)
         PROVE  CreatingInv'
    <3>1. \A q \in Pools : creating[q] # n
      BY <2>12, ConstantsAssumption DEF ReuseNode, CreatingInv
    <3> QED BY <1>b, <2>12, <3>1 DEF ReuseNode, TypeOK
  <2>13. ASSUME NEW n \in Nodes, CreateNode(p, r, n)
         PROVE  CreatingInv'
    <3>1. nodeLock[n] = None
      BY <2>13 DEF CreateNode, FreshId, AbsentInv
    <3>2. p \in up /\ local[n] = "none"
      BY <2>13 DEF CreateNode, FreshId
    <3>3. ASSUME NEW q \in Pools, q # p, creating[q] # None
          PROVE  creating[q] \in Nodes \ {n}
      BY <2>13, <3>3 DEF CreateNode, FreshId, TypeOK
    <3>4. ASSUME NEW q \in Pools, q # p, creating'[q] # None
          PROVE  /\ creating'[q] = creating[q] /\ creating[q] \in Nodes \ {n}
                 /\ phase'[q] = phase[q]
      BY <2>13, <3>3, <3>4 DEF CreateNode, TypeOK
    <3>5. creating'[p] = n /\ nodeState'[n] = "INIT" /\ nodeAlloc'[n] = r
          /\ nodePool'[n] = p /\ phase'[p][r] = "filling"
      BY <2>13 DEF CreateNode, TypeOK
    <3>6. \A m \in Nodes \ {n} : nodeState'[m] = nodeState[m]
             /\ nodeAlloc'[m] = nodeAlloc[m] /\ nodePool'[m] = nodePool[m]
      BY <2>13 DEF CreateNode, TypeOK
    <3>7. UNCHANGED <<nodeLock, local, up>>
      BY <2>13 DEF CreateNode
    <3> QED BY <3>1, <3>2, <3>4, <3>5, <3>6, <3>7 DEF CreatingInv
  <2>14. ASSUME NEW n \in Nodes, LockNewNode(p, r, n)
         PROVE  CreatingInv'
    <3>1. ASSUME NEW q \in Pools, creating'[q] # None
          PROVE  q # p /\ creating'[q] = creating[q] /\ creating[q] \in Nodes \ {n}
      BY <2>14, <3>1 DEF LockNewNode, CreatingInv, TypeOK
    <3>2. \A m \in Nodes \ {n} : nodeState'[m] = nodeState[m]
             /\ nodeLock'[m] = nodeLock[m] /\ local'[m] = local[m]
      BY <2>14 DEF LockNewNode, TypeOK
    <3>3. UNCHANGED <<nodeAlloc, nodePool, phase, up>>
      BY <2>14 DEF LockNewNode
    <3> QED BY <3>1, <3>2, <3>3 DEF CreatingInv
  <2>15. CASE GrantQuota(p, r)
    BY <2>3, <2>15 DEF GrantQuota, Filling, TypeOK
  <2>16. CASE NodeSetFilled(p, r)
    BY <2>3, <2>16 DEF NodeSetFilled, Filling, TypeOK
  <2>17. CASE PauseHandler(p, r)
    <3>1. ASSUME NEW q \in Pools, creating[q] # None
          PROVE  nodeState'[creating[q]] = nodeState[creating[q]]
      BY <2>17, <3>1 DEF PauseHandler, deleteOldestUnusedNode, CreatingInv, TypeOK
    <3>2. ASSUME NEW q \in Pools, creating[q] # None
          PROVE  q \in up' /\ phase'[q] = phase[q]
      BY <2>17, <3>2 DEF PauseHandler, AtQuota, Filling, CreatingInv, TypeOK
    <3> QED BY <2>17, <3>1, <3>2, CreatingFrame DEF PauseHandler
  <2>18. CASE PollRequestGone(p, r)
    <3>1. \A q \in Pools \ {p} : phase'[q] = phase[q]
      BY <2>18 DEF PollRequestGone, DropHandler, TypeOK
    <3>2. \A n \in Nodes \ nodeset[p][r] :
             /\ nodeLock'[n] = nodeLock[n] /\ nodeState'[n] = nodeState[n]
             /\ nodePool'[n] = nodePool[n] /\ local'[n] = local[n]
             /\ nodeAlloc'[n] = nodeAlloc[n]
      BY <2>18 DEF PollRequestGone, Unlocked
    <3>3. creating[p] = None /\ UNCHANGED <<creating, up>>
      BY <2>2, <2>18 DEF PollRequestGone, LaunchesComplete
    <3> QED BY <2>1, <2>4, <3>1, <3>2, <3>3
  <2>19. ASSUME NEW S \in SUBSET nodeset[p][r], UnlockOnly(p, S), Idle(p),
                \A q \in Pools \ {p} : phase'[q] = phase[q],
                UNCHANGED <<creating, up>>
         PROVE  CreatingInv'
    <3>1. \A n \in Nodes \ nodeset[p][r] :
             /\ nodeLock'[n] = nodeLock[n] /\ nodeState'[n] = nodeState[n]
             /\ nodePool'[n] = nodePool[n] /\ local'[n] = local[n]
             /\ nodeAlloc'[n] = nodeAlloc[n]
      BY <2>19 DEF UnlockOnly, Unlocked
    <3> QED BY <2>1, <2>2, <2>4, <2>19, <3>1
  <2>20. CASE PollDecide(p, r)
    BY <2>19, <2>20 DEF PollDecide, LaunchesComplete, TypeOK
  <2>21. CASE PollAborted(p, r)
    BY <2>19, <2>21 DEF PollAborted, LaunchesComplete, WithLocal, TypeOK
  <2>22. CASE PollStore(p, r)
    BY <2>2, <2>3, <2>22 DEF PollStore, DropHandler, TypeOK
  <2>23. CASE PollStoreRaises(p, r)
    BY <2>2, <2>3, <2>23 DEF PollStoreRaises, TypeOK
  <2> QED
    BY <1>1, <2>5, <2>6, <2>7, <2>9, <2>10, <2>11, <2>12, <2>13, <2>14, <2>15,
       <2>16, <2>17, <2>18, <2>20, <2>21, <2>22, <2>23 DEF PoolWorkerStep
<1>2. ASSUME NEW p \in Pools, NEW r \in Requests, NodePoolStep(p, r)
      PROVE  CreatingInv'
  <2>1. CASE createMinReady(p, r)
    BY <1>a, <2>1 DEF createMinReady
  <2>2. CASE removeCompletedRequests(p, r)
    <3>1. ASSUME NEW q \in Pools, creating[q] # None
          PROVE  q \in up /\ nodeAlloc'[creating[q]] = nodeAlloc[creating[q]]
      BY <2>2, <3>1, CreatingApart DEF removeCompletedRequests, CreatingInv
    <3> QED BY <2>2, <3>1, CreatingFrame DEF removeCompletedRequests
  <2> QED BY <1>2, <2>1, <2>2 DEF NodePoolStep
<1>3. ASSUME NEW n \in Nodes, LauncherStep(n)
      PROVE  CreatingInv'
  <2>1. \A q \in Pools : creating[q] # n
    BY <1>3, ConstantsAssumption DEF LauncherStep, LaunchReady, LaunchFailed,
       LaunchAborted, Launching, CreatingInv
  <2>2. CASE LaunchReady(n)
    BY <1>b, <2>1, <2>2 DEF LaunchReady, LaunchResult, TypeOK
  <2>3. CASE LaunchFailed(n)
    BY <1>b, <2>1, <2>3 DEF LaunchFailed, LaunchResult, TypeOK
  <2>4. CASE LaunchAborted(n)
    BY <1>b, <2>1, <2>4 DEF LaunchAborted, LaunchResult, TypeOK
  <2> QED BY <1>3, <2>2, <2>3, <2>4 DEF LauncherStep
<1>4. ASSUME NEW p \in Pools, CleanupWorkerStep(p)
      PROVE  CreatingInv'
  <2>1. ASSUME NEW r \in Requests, LockLostRequest(p, r)
        PROVE  CreatingInv'
    BY <1>a, <2>1 DEF LockLostRequest
  <2>2. ASSUME NEW r \in Requests, ResetLostRequest(p, r)
        PROVE  CreatingInv'
    BY <1>a, <2>2 DEF ResetLostRequest
  <2>3. CASE ListAgedNodes(p)
    BY <1>a, <2>3 DEF ListAgedNodes
  <2>4. ASSUME NEW n \in Nodes, DeallocateLost(p, n)
        PROVE  CreatingInv'
    <3>1. CASE nodeAlloc[n] = resetting[p] /\ resetting[p] # None
      <4>1. \A q \in Pools : creating[q] # n
        <5> SUFFICES ASSUME NEW q \in Pools, creating[q] = n PROVE FALSE
          OBVIOUS
        <5>1. n # None /\ resetting[p] \in Requests
          BY <3>1, ConstantsAssumption DEF TypeOK
        <5>2. reqLock[resetting[p]] = Cleaner(p)
          BY <3>1 DEF OwnersInv
        <5>3. phase[q][resetting[p]] = "filling"
          BY <3>1, <5>1 DEF CreatingInv
        <5>4. reqLock[resetting[p]] = Handler(q)
          BY <5>1, <5>3 DEF OwnersInv
        <5> QED BY <5>2, <5>4, HolderDistinct
      <4> QED BY <1>b, <2>4, <4>1 DEF DeallocateLost, TypeOK
    <3>2. CASE nodeAlloc[n] = None /\ resetting[p] = None
      <4>1. \A q \in Pools : creating[q] # n
        BY <3>2, ConstantsAssumption DEF CreatingInv, TypeOK
      <4> QED BY <1>b, <2>4, <4>1 DEF DeallocateLost, TypeOK
    <3>3. CASE nodeAlloc[n] # resetting[p]
      BY <1>a, <2>4, <3>3 DEF DeallocateLost
    <3> QED BY <3>1, <3>2, <3>3
  <2>5. ASSUME NEW n \in Nodes, DeleteAgedNode(p, n)
        PROVE  CreatingInv'
    <3>1. CASE nodeState[n] = "READY"
      <4>1. \A q \in Pools : creating[q] # n
        BY <3>1, ConstantsAssumption DEF CreatingInv
      <4> QED BY <1>b, <2>5, <4>1 DEF DeleteAgedNode, TypeOK
    <3>2. CASE nodeState[n] # "READY"
      BY <1>a, <2>5, <3>2 DEF DeleteAgedNode
    <3> QED BY <3>1, <3>2
  <2>6. ASSUME NEW n \in Nodes, DeleteHeldNode(p, n)
        PROVE  CreatingInv'
    <3>1. \A q \in Pools : creating[q] # n
      BY <2>6, ConstantsAssumption DEF DeleteHeldNode, CreatingInv
    <3> QED BY <1>b, <2>6, <3>1 DEF DeleteHeldNode, TypeOK
  <2> QED BY <1>4, <2>1, <2>2, <2>3, <2>4, <2>5, <2>6 DEF CleanupWorkerStep
<1>5. ASSUME NEW p \in Pools, NEW n \in Nodes, DeletedNodeWorkerStep(p, n)
      PROVE  CreatingInv'
  <2>1. \A q \in Pools : creating[q] # n
    BY <1>5, HolderDistinct, ConstantsAssumption DEF DeletedNodeWorkerStep,
       DeallocateMissing, StartNodeCleanup, DeleteNode, DeleteFails, CreatingInv,
       CleanupStates
  <2>2. CASE DeallocateMissing(p, n)
    BY <1>b, <2>1, <2>2 DEF DeallocateMissing, TypeOK
  <2>3. CASE StartNodeCleanup(p, n)
    BY <1>b, <2>1, <2>3 DEF StartNodeCleanup, TypeOK
  <2>4. CASE DeleteNode(p, n)
    BY <1>b, <2>1, <2>4 DEF DeleteNode, TypeOK
  <2>5. CASE DeleteFails(p, n)
    BY <1>b, <2>1, <2>5 DEF DeleteFails, TypeOK
  <2> QED BY <1>5, <2>2, <2>3, <2>4, <2>5 DEF DeletedNodeWorkerStep
<1>6. CASE ZuulStep
  <2>1. ASSUME NEW r \in Requests, ZuulSubmit(r)
        PROVE  CreatingInv'
    BY <1>a, <2>1 DEF ZuulSubmit
  <2>2. ASSUME NEW r \in Requests, ZuulWithdraw(r)
        PROVE  CreatingInv'
    BY <1>a, <2>2 DEF ZuulWithdraw
  <2>3. ASSUME NEW r \in Requests, ZuulAccept(r)
        PROVE  CreatingInv'
    <3>1. ASSUME NEW q \in Pools, creating[q] # None
          PROVE  /\ q \in up
                 /\ nodeLock'[creating[q]] = nodeLock[creating[q]]
                 /\ nodeState'[creating[q]] = nodeState[creating[q]]
      BY <2>3, <3>1, CreatingApart DEF ZuulAccept, CreatingInv
    <3> QED BY <2>3, <3>1, CreatingFrame DEF ZuulAccept
  <2>4. ASSUME NEW n \in Nodes, ZuulReturn(n)
        PROVE  CreatingInv'
    <3>1. \A q \in Pools : creating[q] # n
      BY <2>4, ConstantsAssumption DEF ZuulReturn, CreatingInv
    <3> QED BY <1>b, <2>4, <3>1 DEF ZuulReturn, TypeOK
  <2> QED BY <1>6, <2>1, <2>2, <2>3, <2>4 DEF ZuulStep
<1>7. ASSUME NEW p \in Pools, Crash(p)
      PROVE  CreatingInv'
  <2>1. ASSUME NEW q \in Pools, creating'[q] # None
        PROVE  /\ q # p /\ creating'[q] = creating[q] /\ creating[q] \in Nodes
               /\ q \in up' /\ phase'[q] = phase[q]
    BY <1>7, <2>1 DEF Crash, CreatingInv, TypeOK
  <2>2. ASSUME NEW q \in Pools, creating'[q] # None
        PROVE  /\ nodeLock'[creating[q]] = None
               /\ local'[creating[q]] = "none"
    BY <1>7, <2>1, <2>2 DEF Crash, CreatingInv
  <2>3. UNCHANGED <<nodeState, nodeAlloc, nodePool>>
    BY <1>7 DEF Crash
  <2> QED BY <2>1, <2>2, <2>3 DEF CreatingInv
<1>8. ASSUME NEW p \in Pools, Restart(p)
      PROVE  CreatingInv'
  BY <1>8 DEF Restart, CreatingInv
<1>9. CASE UNCHANGED vars
  BY <1>a, <1>9 DEF vars
<1> QED BY <1>1, <1>2, <1>3, <1>4, <1>5, <1>6, <1>7, <1>8, <1>9 DEF Next
----------------------------------------------------------------------------
(* At the start nothing is claimed. *)
LEMMA ClaimsInit == Init => ClaimsInv
BY DEF Init, ClaimsInv, Claims

(* Claims that do not grow, over nodes that stay allocated, stay disjoint. *)
LEMMA ClaimsShrink ==
    ASSUME ClaimsInv,
           \A r \in Requests : reqState'[r] # "FULFILLED" => reqNodes'[r] = {},
           \A p \in Pools, r \in Requests :
               phase'[p][r] \in {"none", "popped"} => satisfied'[p][r] = {},
           \A r \in Requests, n \in Nodes : Claims(r, n)' =>
               /\ Claims(r, n)
               /\ \/ nodeAlloc'[n] = nodeAlloc[n]
                  \/ nodeState'[n] = "absent"
               /\ nodeState[n] = "absent" => nodeState'[n] = "absent"
    PROVE  ClaimsInv'
BY DEF ClaimsInv

(* While a handler is at work on a request nothing else claims for it. *)
LEMMA OneClaimant ==
    ASSUME TypeOK, OwnersInv, ClaimsInv, NEW r \in Requests, NEW n \in Nodes
    PROVE  /\ \A p \in Pools : phase[p][r] # "none" /\ Claims(r, n) =>
                 n \in satisfied[p][r]
           /\ \A p \in Pools : resetting[p] = r => ~Claims(r, n)
           /\ reqState[r] = "absent" =>
                 /\ reqNodes[r] = {} /\ \A q \in Pools : satisfied[q][r] = {}
<1>1. ASSUME NEW p \in Pools, phase[p][r] # "none", Claims(r, n)
      PROVE  n \in satisfied[p][r]
  <2>1. reqNodes[r] = {} /\ reqLock[r] = Handler(p)
    BY <1>1 DEF OwnersInv, ClaimsInv
  <2>2. \A q \in Pools \ {p} : phase[q][r] = "none"
    BY <2>1, HolderDistinct DEF OwnersInv
  <2>3. \A q \in Pools \ {p} : satisfied[q][r] = {}
    BY <2>2 DEF ClaimsInv
  <2> QED BY <1>1, <2>1, <2>3 DEF Claims
<1>2. ASSUME NEW p \in Pools, resetting[p] = r, Claims(r, n)
      PROVE  FALSE
  <2>1. reqNodes[r] = {} /\ reqLock[r] = Cleaner(p)
    BY <1>2, ConstantsAssumption DEF OwnersInv, ClaimsInv
  <2>2. \A q \in Pools : phase[q][r] = "none"
    BY <2>1, HolderDistinct DEF OwnersInv
  <2> QED BY <1>2, <2>1, <2>2 DEF Claims, ClaimsInv
<1>3. ASSUME reqState[r] = "absent"
      PROVE  reqNodes[r] = {} /\ \A q \in Pools : satisfied[q][r] = {}
  <2>1. \A q \in Pools : phase[q][r] = "none"
    BY <1>3 DEF OwnersInv
  <2> QED BY <1>3, <2>1 DEF ClaimsInv
<1> QED BY <1>1, <1>2, <1>3

(* A node of a nodeset is claimed by no request but the handler's. *)
LEMMA NodesetClaim ==
    ASSUME TypeOK, NodesetsInv, ClaimsInv, NEW p \in Pools, NEW r \in Requests,
           NEW n \in nodeset[p][r], NEW q \in Requests, Claims(q, n)
    PROVE  q = r
BY DEF NodesetsInv, ClaimsInv, TypeOK

(* A handler that is dropped without fulfilling its request takes the      *)
(* claims of the request with it.                                          *)
LEMMA ClaimsDrop ==
    ASSUME TypeOK, OwnersInv, NodesetsInv, ClaimsInv, NEW p \in Pools, NEW r \in Requests,
           NEW s \in ReqStates, s # "FULFILLED",
           \/ reqState' = reqState
           \/ reqState' = [reqState EXCEPT ![r] = s] /\ ReqExists(r),
           UNCHANGED reqNodes, DropHandler(p, r), phase[p][r] # "none",
           \A n \in Nodes \ nodeset[p][r] :
              nodeState'[n] = nodeState[n] /\ nodeAlloc'[n] = nodeAlloc[n]
    PROVE  ClaimsInv'
<1>1. reqNodes[r] = {}
  BY DEF OwnersInv, ClaimsInv
<1>2. \A q \in Requests : reqState'[q] # "FULFILLED" => reqNodes'[q] = {}
  BY <1>1 DEF ClaimsInv, TypeOK
<1>3. \A q \in Pools, t \in Requests :
         phase'[q][t] \in {"none", "popped"} => satisfied'[q][t] = {}
  BY DEF DropHandler, ClaimsInv, TypeOK
<1>4. ASSUME NEW q \in Requests, NEW n \in Nodes, Claims(q, n)'
      PROVE  q # r /\ Claims(q, n)
  <2>1. Claims(q, n)
    BY <1>4 DEF Claims, ReqExists, DropHandler, TypeOK
  <2>2. CASE q = r
    <3>1. n \in satisfied[p][r]
      BY <2>1, <2>2, OneClaimant
    <3>2. PICK o \in Pools : n \in satisfied'[o][r]
      BY <1>1, <1>4, <2>2 DEF Claims
    <3>3. o # p /\ n \in satisfied[o][r]
      BY <3>2 DEF DropHandler, TypeOK
    <3>4. phase[o][r] # "none"
      BY <3>3 DEF ClaimsInv
    <3> QED BY <3>3, <3>4, HolderDistinct DEF OwnersInv
  <2> QED BY <2>1, <2>2
<1>5. ASSUME NEW q \in Requests, NEW n \in Nodes, Claims(q, n)'
      PROVE  n \notin nodeset[p][r]
  BY <1>4, <1>5, NodesetClaim
<1> QED BY <1>2, <1>3, <1>4, <1>5, ClaimsShrink

(* Reusing, creating, delivering and resetting keep the claims of live     *)
(* requests on nodes disjoint.                                             *)
LEMMA ClaimsStep ==
    TypeOK /\ OwnersInv /\ NodesetsInv /\ CreatingInv /\ ClaimsInv /\ AbsentInv
      /\ [Next]_vars => ClaimsInv'
<1> SUFFICES ASSUME TypeOK, OwnersInv, NodesetsInv, CreatingInv, ClaimsInv,
                    AbsentInv, [Next]_vars
             PROVE  ClaimsInv'
  OBVIOUS
<1> USE DEF zkNode, zkReq, handler, cleanup, bounds
<1>a. ASSUME UNCHANGED <<phase, satisfied, reqState, reqNodes, nodeAlloc, nodeState>>
      PROVE  ClaimsInv'
  BY <1>a DEF ClaimsInv, Claims, ReqExists
<1>b. ASSUME NEW n \in Nodes, UNCHANGED <<phase, satisfied, reqState, reqNodes>>,
             \A m \in Nodes \ {n} :
                nodeState'[m] = nodeState[m] /\ nodeAlloc'[m] = nodeAlloc[m],
             nodeState[n] # "absent",
             nodeAlloc'[n] = nodeAlloc[n] \/ nodeState'[n] = "absent"
      PROVE  ClaimsInv'
  <2>1. \A r \in Requests, m \in Nodes : Claims(r, m)' = Claims(r, m)
    BY <1>b DEF Claims, ReqExists
  <2> QED BY <1>b, <2>1, ClaimsShrink DEF ClaimsInv
<1>1. ASSUME NEW p \in Pools, NEW r \in Requests, PoolWorkerStep(p, r)
      PROVE  ClaimsInv'
  <2>0. ASSUME UNCHANGED <<satisfied, reqNodes, nodeAlloc, nodeState>>,
               \A s \in Requests : reqState'[s] # "FULFILLED"
                  \/ reqState'[s] = reqState[s],
               \A s \in Requests : ReqExists(s)' => ReqExists(s),
               \A s \in Requests : reqState[s] = "FULFILLED" => reqState'[s] = reqState[s],
               \A q \in Pools, s \in Requests :
                  phase'[q][s] \in {"none", "popped"} =>
                     phase[q][s] \in {"none", "popped"}
        PROVE  ClaimsInv'
    <3>1. \A s \in Requests, n \in Nodes : Claims(s, n)' => Claims(s, n)
      BY <2>0 DEF Claims
    <3> QED BY <2>0, <3>1, ClaimsShrink DEF ClaimsInv
  <2>1. CASE AcceptRequest(p, r)
    BY <2>0, <2>1 DEF AcceptRequest, ReqExists, TypeOK
  <2>2. CASE DeclineOnArrival(p, r)
    BY <2>0, <2>2 DEF DeclineOnArrival, DeclinedState, ReqExists, TypeOK
  <2>3. CASE RetryPaused(p, r)
    BY <2>0, <2>3 DEF RetryPaused, ReqExists, TypeOK
  <2>4. ASSUME NEW s \in ReqStates, s # "FULFILLED",
               \/ reqState' = reqState
               \/ reqState' = [reqState EXCEPT ![r] = s] /\ ReqExists(r),
               UNCHANGED reqNodes, DropHandler(p, r), phase[p][r] # "none",
               \A n \in Nodes \ nodeset[p][r] :
                  nodeState'[n] = nodeState[n] /\ nodeAlloc'[n] = nodeAlloc[n]
        PROVE  ClaimsInv'
    BY <2>4, ClaimsDrop
  <2>5. ASSUME NEW s \in ReqStates, s # "FULFILLED", NEW d, phase[p][r] # "none",
               DeclinedHandlerCleanup(p, r, s, d)
        PROVE  ClaimsInv'
    <3>1. \A n \in Nodes \ nodeset[p][r] :
             nodeState'[n] = nodeState[n] /\ nodeAlloc'[n] = nodeAlloc[n]
      BY <2>5 DEF DeclinedHandlerCleanup, UnlockAndClear
    <3>2. \/ reqState' = reqState
          \/ reqState' = [reqState EXCEPT ![r] = s] /\ ReqExists(r)
      BY <2>5 DEF DeclinedHandlerCleanup
    <3> QED BY <2>4, <2>5, <3>1, <3>2 DEF DeclinedHandlerCleanup
  <2>6. DeclinedState(p, r) \in ReqStates /\ DeclinedState(p, r) # "FULFILLED"
    BY DEF DeclinedState, ReqStates
  <2>7. CASE DeclinePaused(p, r)
    BY <2>5, <2>6, <2>7 DEF DeclinePaused, declineRequest
  <2>8. CASE DeclineMinReady(p, r)
    BY <2>5, <2>6, <2>8 DEF DeclineMinReady, AtQuota, Filling, declineRequest
  <2>9. CASE ReleaseAtQuota(p, r)
    <3>1. phase[p][r] # "none" /\ reqState[r] \in ReqStates
      BY <2>9 DEF ReleaseAtQuota, AtQuota, Filling, TypeOK
    <3>2. reqState[r] # "FULFILLED"
      BY <3>1 DEF OwnersInv
    <3> QED BY <2>5, <2>9, <3>1, <3>2 DEF ReleaseAtQuota
  <2>10. ASSUME NEW n \in Nodes, phase[p][r] = "filling",
                satisfied' = [satisfied EXCEPT ![p][r] = @ \cup {n}],
                UNCHANGED <<phase, reqState, reqNodes>>,
                \A m \in Nodes \ {n} :
                   nodeState'[m] = nodeState[m] /\ nodeAlloc'[m] = nodeAlloc[m],
                nodeAlloc'[n] = r, nodeState[n] # "absent",
                nodeAlloc[n] = r \/ nodeAlloc[n] = None
         PROVE  ClaimsInv'
    <3>1. \A q \in Pools, s \in Requests :
             phase'[q][s] \in {"none", "popped"} => satisfied'[q][s] = {}
      BY <2>10 DEF ClaimsInv, TypeOK
    <3>2. ASSUME NEW q \in Requests, NEW m \in Nodes, Claims(q, m)'
          PROVE  Claims(q, m) \/ (q = r /\ m = n)
      BY <2>10, <3>2 DEF Claims, ReqExists, TypeOK
    <3>3. ASSUME NEW q \in Requests, Claims(q, n)
          PROVE  q = r
      BY <2>10, <3>3, ConstantsAssumption DEF ClaimsInv
    <3>4. ASSUME NEW q \in Requests, NEW m \in Nodes, Claims(q, m)'
          PROVE  nodeAlloc'[m] = q \/ nodeState'[m] = "absent"
      <4>1. CASE m = n
        BY <2>10, <3>2, <3>3, <3>4, <4>1
      <4>2. CASE m # n
        BY <2>10, <3>2, <3>4, <4>2 DEF ClaimsInv
      <4> QED BY <4>1, <4>2
    <3>5. ASSUME NEW q \in Requests, NEW s \in Requests, NEW m \in Nodes,
                 Claims(q, m)', Claims(s, m)'
          PROVE  q = s
      <4>1. CASE m = n
        BY <3>2, <3>3, <3>5, <4>1
      <4>2. CASE m # n
        BY <3>2, <3>5, <4>2 DEF ClaimsInv
      <4> QED BY <4>1, <4>2
    <3>6. \A q \in Requests : reqState'[q] # "FULFILLED" => reqNodes'[q] = {}
      BY <2>10 DEF ClaimsInv
    <3> QED BY <3>1, <3>4, <3>5, <3>6 DEF ClaimsInv
  <2>11. ASSUME NEW n \in Nodes, ReuseNode(p, r, n)
         PROVE  ClaimsInv'
    BY <2>10, <2>11 DEF ReuseNode, Filling, TypeOK
  <2>12. ASSUME NEW n \in Nodes, LockNewNode(p, r, n)
         PROVE  ClaimsInv'
    <3>1. nodeAlloc[n] = r /\ nodeState[n] = "INIT"
      BY <2>12, ConstantsAssumption DEF LockNewNode, CreatingInv, OwnersInv, Busy
    <3> QED BY <2>10, <2>12, <3>1 DEF LockNewNode, TypeOK
  <2>13. ASSUME NEW n \in Nodes, CreateNode(p, r, n)
         PROVE  ClaimsInv'
    <3>1. \A q \in Requests : ~Claims(q, n)
      BY <2>13 DEF CreateNode, FreshId, Claims
    <3>2. \A q \in Requests, m \in Nodes : Claims(q, m)' = Claims(q, m)
      BY <2>13 DEF CreateNode, Claims, ReqExists
    <3>3. \A q \in Pools, s \in Requests :
             phase'[q][s] \in {"none", "popped"} => satisfied'[q][s] = {}
      BY <2>13 DEF CreateNode, ClaimsInv, TypeOK
    <3>4. \A m \in Nodes \ {n} :
             nodeState'[m] = nodeState[m] /\ nodeAlloc'[m] = nodeAlloc[m]
      BY <2>13 DEF CreateNode, TypeOK
    <3>5. \A q \in Requests : reqState'[q] # "FULFILLED" => reqNodes'[q] = {}
      BY <2>13 DEF CreateNode, ClaimsInv
    <3> QED BY <3>1, <3>2, <3>3, <3>4, <3>5, ClaimsShrink
  <2>14. CASE GrantQuota(p, r)
    BY <2>0, <2>14 DEF GrantQuota, ReqExists, TypeOK
  <2>15. CASE NodeSetFilled(p, r)
    BY <2>0, <2>15 DEF NodeSetFilled, ReqExists, TypeOK
  <2>16. CASE PauseHandler(p, r)
    <3>1. \A q \in Requests, n \in Nodes : Claims(q, n)' = Claims(q, n)
      BY <2>16 DEF PauseHandler, Claims, ReqExists
    <3>2. \A q \in Pools, s \in Requests :
             phase'[q][s] \in {"none", "popped"} => satisfied'[q][s] = {}
      BY <2>16 DEF PauseHandler, ClaimsInv, TypeOK
    <3>3. \A n \in Nodes : nodeState[n] = "absent" => nodeState'[n] = "absent"
      BY <2>16 DEF PauseHandler, deleteOldestUnusedNode, TypeOK
    <3>4. \A q \in Requests : reqState'[q] # "FULFILLED" => reqNodes'[q] = {}
      BY <2>16 DEF PauseHandler, ClaimsInv
    <3>5. UNCHANGED nodeAlloc
      BY <2>16 DEF PauseHandler
    <3> QED BY <3>1, <3>2, <3>3, <3>4, <3>5, ClaimsShrink
  <2>17. CASE PollRequestGone(p, r)
    <3>1. \A n \in Nodes \ nodeset[p][r] :
             nodeState'[n] = nodeState[n] /\ nodeAlloc'[n] = nodeAlloc[n]
      BY <2>17 DEF PollRequestGone
    <3>2. phase[p][r] # "none" /\ UNCHANGED <<reqState, reqNodes>> /\ DropHandler(p, r)
      BY <2>17 DEF PollRequestGone, LaunchesComplete
    <3>3. "absent" \in ReqStates
      BY DEF ReqStates
    <3> QED BY <2>4, <3>1, <3>2, <3>3
  <2>18. CASE PollDecide(p, r)
    BY <2>0, <2>18 DEF PollDecide, LaunchesComplete, UnlockOnly, ReqExists, TypeOK
  <2>19. ASSUME NEW S, satisfied' = [satisfied EXCEPT ![p][r] = @ \ S],
                UNCHANGED <<reqState, reqNodes, nodeAlloc, nodeState>>,
                \A q \in Pools, s \in Requests : phase'[q][s] \in {"none", "popped"} =>
                   \/ phase[q][s] \in {"none", "popped"}
                   \/ q = p /\ s = r /\ satisfied[p][r] \subseteq S
         PROVE  ClaimsInv'
    <3>1. \A s \in Requests, n \in Nodes : Claims(s, n)' => Claims(s, n)
      BY <2>19 DEF Claims, ReqExists, TypeOK
    <3>2. \A q \in Pools, s \in Requests :
             phase'[q][s] \in {"none", "popped"} => satisfied'[q][s] = {}
      BY <2>19 DEF ClaimsInv, TypeOK
    <3> QED BY <2>19, <3>1, <3>2, ClaimsShrink DEF ClaimsInv
  <2>20. CASE PollAborted(p, r)
    <3>1. phase' = [phase EXCEPT ![p][r] = "paused"]
      BY <2>20 DEF PollAborted
    <3>2. \A q \in Pools, s \in Requests :
             phase'[q][s] \in {"none", "popped"} => phase[q][s] \in {"none", "popped"}
      BY <3>1 DEF TypeOK
    <3> QED BY <2>19, <2>20, <3>2 DEF PollAborted, UnlockOnly
  <2>21. CASE PollStore(p, r)
    <3>1. reqState[r] \in {"PENDING", "removed"} /\ reqNodes[r] = {}
      BY <2>21 DEF PollStore, OwnersInv, ClaimsInv
    <3>2. \/ /\ reqNodes' = [reqNodes EXCEPT ![r] = satisfied[p][r]]
             /\ verdict[p][r] = "FULFILLED"
          \/ reqNodes' = reqNodes
      BY <2>21 DEF PollStore
    <3>3. \A q \in Requests : reqState'[q] # "FULFILLED" => reqNodes'[q] = {}
      BY <2>21, <3>1, <3>2 DEF PollStore, ClaimsInv, TypeOK
    <3>4. \A q \in Pools, s \in Requests :
             phase'[q][s] \in {"none", "popped"} => satisfied'[q][s] = {}
      BY <2>21 DEF PollStore, DropHandler, ClaimsInv, TypeOK
    <3>5. ASSUME NEW q \in Requests, NEW n \in Nodes, Claims(q, n)'
          PROVE  Claims(q, n)
      <4>1. ReqExists(q) /\ (n \in reqNodes'[q] \/ \E o \in Pools : n \in satisfied'[o][q])
        BY <2>21, <3>5 DEF PollStore, Claims, ReqExists, TypeOK
      <4>2. CASE n \in reqNodes'[q]
        <5>1. q # r \/ reqNodes' = reqNodes => n \in reqNodes[q]
          BY <3>2, <4>2 DEF TypeOK
        <5>2. q = r => n \in reqNodes[r] \/ n \in satisfied[p][r]
          BY <3>2, <4>2 DEF TypeOK
        <5> QED BY <4>1, <5>1, <5>2 DEF Claims
      <4>3. CASE \E o \in Pools : n \in satisfied'[o][q]
        BY <2>21, <4>1, <4>3 DEF Claims, PollStore, DropHandler, TypeOK
      <4> QED BY <4>1, <4>2, <4>3
    <3>6. UNCHANGED <<nodeAlloc, nodeState>>
      BY <2>21 DEF PollStore
    <3> QED BY <3>3, <3>4, <3>5, <3>6, ClaimsShrink
  <2>22. CASE PollStoreRaises(p, r)
    <3>1. satisfied' = [satisfied EXCEPT ![p][r] = @ \ satisfied[p][r]]
      BY <2>22 DEF PollStoreRaises
    <3>2. \A q \in Pools, s \in Requests : phase'[q][s] \in {"none", "popped"} =>
             phase[q][s] \in {"none", "popped"} \/ (q = p /\ s = r)
      BY <2>22 DEF PollStoreRaises, TypeOK
    <3>3. UNCHANGED <<reqState, reqNodes, nodeAlloc, nodeState>>
      BY <2>22 DEF PollStoreRaises
    <3> QED BY <2>19, <3>1, <3>2, <3>3
  <2> QED
    BY <1>1, <2>1, <2>2, <2>3, <2>7, <2>8, <2>9, <2>11, <2>12, <2>13, <2>14, <2>15,
       <2>16, <2>17, <2>18, <2>20, <2>21, <2>22 DEF PoolWorkerStep
<1>2. ASSUME NEW r \in Requests, RequestRemoved(r),
             UNCHANGED <<phase, satisfied>>,
             \A n \in Nodes \ reqNodes[r] :
                nodeAlloc'[n] = nodeAlloc[n] /\ nodeState'[n] = nodeState[n],
             reqNodes[r] # {} => ReqExists(r)
      PROVE  ClaimsInv'
  <2>1. ASSUME NEW q \in Requests, NEW n \in Nodes, Claims(q, n)'
        PROVE  q # r /\ Claims(q, n)
    BY <1>2, <2>1 DEF RequestRemoved, Claims, ReqExists, TypeOK
  <2>2. ASSUME NEW q \in Requests, NEW n \in Nodes, Claims(q, n)'
        PROVE  n \notin reqNodes[r]
    BY <1>2, <2>1, <2>2 DEF Claims, ClaimsInv
  <2>3. \A q \in Requests : reqState'[q] # "FULFILLED" => reqNodes'[q] = {}
    BY <1>2 DEF RequestRemoved, ClaimsInv, TypeOK
  <2> QED BY <1>2, <2>1, <2>2, <2>3, ClaimsShrink DEF ClaimsInv
<1>3. ASSUME NEW r \in Requests, reqState[r] = "absent",
             reqState' = [reqState EXCEPT ![r] = "REQUESTED"],
             UNCHANGED <<phase, satisfied, reqNodes, nodeAlloc, nodeState>>
      PROVE  ClaimsInv'
  <2>1. reqNodes[r] = {} /\ \A q \in Pools : satisfied[q][r] = {}
    BY <1>3 DEF OwnersInv, ClaimsInv
  <2>2. \A q \in Requests, n \in Nodes : Claims(q, n)' => Claims(q, n)
    BY <1>3, <2>1 DEF Claims, ReqExists, TypeOK
  <2>3. \A q \in Requests : reqState'[q] # "FULFILLED" => reqNodes'[q] = {}
    BY <1>3, <2>1 DEF ClaimsInv, TypeOK
  <2> QED BY <1>3, <2>2, <2>3, ClaimsShrink DEF ClaimsInv
<1>4. ASSUME NEW p \in Pools, NEW r \in Requests, NodePoolStep(p, r)
      PROVE  ClaimsInv'
  <2>1. CASE createMinReady(p, r)
    BY <1>3, <2>1 DEF createMinReady
  <2>2. CASE removeCompletedRequests(p, r)
    BY <1>2, <2>2 DEF removeCompletedRequests, ReqExists
  <2> QED BY <1>4, <2>1, <2>2 DEF NodePoolStep
<1>5. ASSUME NEW n \in Nodes, LauncherStep(n)
      PROVE  ClaimsInv'
  <2>1. CASE Exists(n)
    BY <1>a, <1>b, <1>5, <2>1 DEF LauncherStep, LaunchReady, LaunchFailed, LaunchAborted,
       Exists, TypeOK
  <2>2. CASE ~Exists(n)
    <3>1. UNCHANGED nodeState
      BY <1>5, <2>2 DEF LauncherStep, LaunchReady, LaunchFailed, LaunchAborted, TypeOK
    <3> QED BY <1>a, <1>5, <3>1 DEF LauncherStep, LaunchReady, LaunchFailed, LaunchAborted
  <2> QED BY <2>1, <2>2
<1>6. ASSUME NEW p \in Pools, CleanupWorkerStep(p)
      PROVE  ClaimsInv'
  <2>1. ASSUME NEW r \in Requests, LockLostRequest(p, r)
        PROVE  ClaimsInv'
    BY <1>a, <2>1 DEF LockLostRequest
  <2>2. ASSUME NEW r \in Requests, ResetLostRequest(p, r)
        PROVE  ClaimsInv'
    <3>1. \A q \in Requests, n \in Nodes : Claims(q, n)' => Claims(q, n)
      BY <2>2 DEF ResetLostRequest, Claims, ReqExists, TypeOK
    <3>2. \A q \in Requests : reqState'[q] # "FULFILLED" => reqNodes'[q] = {}
      BY <2>2 DEF ResetLostRequest, ClaimsInv, TypeOK
    <3>3. UNCHANGED <<phase, satisfied, nodeAlloc, nodeState>>
      BY <2>2 DEF ResetLostRequest
    <3> QED BY <3>1, <3>2, <3>3, ClaimsShrink DEF ClaimsInv
  <2>3. CASE ListAgedNodes(p)
    BY <1>a, <2>3 DEF ListAgedNodes
  <2>4. ASSUME NEW n \in Nodes, DeallocateLost(p, n)
        PROVE  ClaimsInv'
    <3>1. CASE nodeAlloc[n] = resetting[p]
      <4>1. \A q \in Requests, m \in Nodes : Claims(q, m)' = Claims(q, m)
        BY <2>4 DEF DeallocateLost, Claims, ReqExists
      <4>2. \A q \in Requests : Claims(q, n) => nodeState[n] = "absent"
        <5> SUFFICES ASSUME NEW q \in Requests, Claims(q, n), nodeState[n] # "absent"
                     PROVE  FALSE
          OBVIOUS
        <5>1. resetting[p] = q
          BY <3>1 DEF ClaimsInv
        <5> QED BY <5>1, OneClaimant
      <4>3. nodeState[n] = "absent" => nodeAlloc'[n] = nodeAlloc[n]
                                       /\ nodeState'[n] = nodeState[n]
        BY <2>4, <3>1 DEF DeallocateLost, AbsentInv, TypeOK
      <4>4. \A m \in Nodes \ {n} : nodeState'[m] = nodeState[m]
                                   /\ nodeAlloc'[m] = nodeAlloc[m]
        BY <2>4 DEF DeallocateLost, TypeOK
      <4>5. UNCHANGED <<phase, satisfied, reqState, reqNodes>>
        BY <2>4 DEF DeallocateLost
      <4> QED BY <4>1, <4>2, <4>3, <4>4, <4>5, ClaimsShrink DEF ClaimsInv
    <3>2. CASE nodeAlloc[n] # resetting[p]
      BY <1>a, <2>4, <3>2 DEF DeallocateLost
    <3> QED BY <3>1, <3>2
  <2>5. ASSUME NEW n \in Nodes, DeleteAgedNode(p, n)
        PROVE  ClaimsInv'
    <3>1. CASE nodeState[n] = "READY"
      BY <1>b, <2>5, <3>1 DEF DeleteAgedNode, TypeOK
    <3>2. CASE nodeState[n] # "READY"
      BY <1>a, <2>5, <3>2 DEF DeleteAgedNode
    <3> QED BY <3>1, <3>2
  <2>6. ASSUME NEW n \in Nodes, DeleteHeldNode(p, n)
        PROVE  ClaimsInv'
    BY <1>b, <2>6 DEF DeleteHeldNode, TypeOK
  <2> QED BY <1>6, <2>1, <2>2, <2>3, <2>4, <2>5, <2>6 DEF CleanupWorkerStep
<1>7. ASSUME NEW p \in Pools, NEW n \in Nodes, DeletedNodeWorkerStep(p, n)
      PROVE  ClaimsInv'
  <2>1. CASE DeallocateMissing(p, n)
    <3>1. \A q \in Requests, m \in Nodes : Claims(q, m)' = Claims(q, m)
      BY <2>1 DEF DeallocateMissing, Claims, ReqExists
    <3>2. \A q \in Requests : ~Claims(q, n)
      BY <2>1 DEF DeallocateMissing, Claims, ClaimsInv
    <3>3. \A m \in Nodes \ {n} : nodeAlloc'[m] = nodeAlloc[m]
      BY <2>1 DEF DeallocateMissing, TypeOK
    <3>4. UNCHANGED <<phase, satisfied, reqState, reqNodes, nodeState>>
      BY <2>1 DEF DeallocateMissing
    <3> QED BY <3>1, <3>2, <3>3, <3>4, ClaimsShrink DEF ClaimsInv
  <2>2. CASE StartNodeCleanup(p, n)
    BY <1>b, <2>2 DEF StartNodeCleanup, CleanupStates, TypeOK
  <2>3. CASE DeleteNode(p, n)
    <3>1. nodeState[n] # "absent"
      BY <2>3, HolderDistinct DEF DeleteNode, AbsentInv
    <3> QED BY <1>b, <2>3, <3>1 DEF DeleteNode, TypeOK
  <2>4. CASE DeleteFails(p, n)
    BY <1>a, <2>4 DEF DeleteFails
  <2> QED BY <1>7, <2>1, <2>2, <2>3, <2>4 DEF DeletedNodeWorkerStep
<1>8. CASE ZuulStep
  <2>1. ASSUME NEW r \in Requests, ZuulSubmit(r)
        PROVE  ClaimsInv'
    BY <1>3, <2>1 DEF ZuulSubmit
  <2>2. ASSUME NEW r \in Requests, ZuulWithdraw(r)
        PROVE  ClaimsInv'
    BY <1>2, <2>2 DEF ZuulWithdraw
  <2>3. ASSUME NEW r \in Requests, ZuulAccept(r)
        PROVE  ClaimsInv'
    BY <1>2, <2>3 DEF ZuulAccept, ReqExists
  <2>4. ASSUME NEW n \in Nodes, ZuulReturn(n)
        PROVE  ClaimsInv'
    <3>1. nodeState[n] # "absent"
      BY <2>4, ConstantsAssumption DEF ZuulReturn, AbsentInv
    <3> QED BY <1>b, <2>4, <3>1 DEF ZuulReturn, TypeOK
  <2> QED BY <1>8, <2>1, <2>2, <2>3, <2>4 DEF ZuulStep
<1>9. ASSUME NEW p \in Pools, Crash(p)
      PROVE  ClaimsInv'
  <2>1. \A r \in Requests : reqState'[r] # "FULFILLED" => reqNodes'[r] = {}
    BY <1>9 DEF Crash, ClaimsInv, TypeOK
  <2>2. \A q \in Pools, r \in Requests :
           phase'[q][r] \in {"none", "popped"} => satisfied'[q][r] = {}
    BY <1>9 DEF Crash, ClaimsInv, TypeOK
  <2>3. \A r \in Requests, n \in Nodes : Claims(r, n)' => Claims(r, n)
    BY <1>9 DEF Crash, Claims, ReqExists, TypeOK
  <2>4. UNCHANGED <<nodeAlloc, nodeState>>
    BY <1>9 DEF Crash
  <2> QED BY <2>1, <2>2, <2>3, <2>4, ClaimsShrink
<1>10. ASSUME NEW p \in Pools, Restart(p)
       PROVE  ClaimsInv'
  BY <1>a, <1>10 DEF Restart
<1>11. CASE UNCHANGED vars
  BY <1>a, <1>11 DEF vars
<1> QED BY <1>1, <1>4, <1>5, <1>6, <1>7, <1>8, <1>9, <1>10, <1>11 DEF Next
----------------------------------------------------------------------------
(* The invariant the safety properties follow from, whatever the settings *)
SafetyInv ==
    TypeOK /\ OwnersInv /\ NodesetsInv /\ CreatingInv /\ ClaimsInv /\ AbsentInv

(* It holds at first, *)
LEMMA SafetyInit == Init => SafetyInv
BY TypeInit, OwnersInit, NodesetsInit, CreatingInit, ClaimsInit, AbsentInit DEF SafetyInv

(* every step keeps it, *)
LEMMA SafetyStep == SafetyInv /\ [Next]_vars => SafetyInv'
BY TypeStep, OwnersStep, NodesetsStep, CreatingStep, ClaimsStep, AbsentStep DEF SafetyInv

(* and so it is invariant. *)
LEMMA SafetyInvariance == Spec => []SafetyInv
BY SafetyInit, SafetyStep, PTL DEF Spec

(* Requests that list a node claim it, so no two of them list it. *)
LEMMA GivenOnce == SafetyInv => NodeGivenOnce
<1> SUFFICES ASSUME SafetyInv, NEW r \in Requests, NEW q \in Requests, r # q,
                    NEW n \in reqNodes[r] \cap reqNodes[q]
             PROVE  FALSE
  BY DEF NodeGivenOnce
<1>1. reqState[r] = "FULFILLED" /\ reqState[q] = "FULFILLED" /\ n \in Nodes
  BY DEF SafetyInv, ClaimsInv, TypeOK
<1>2. Claims(r, n) /\ Claims(q, n)
  BY <1>1 DEF Claims, ReqExists
<1> QED BY <1>1, <1>2 DEF SafetyInv, ClaimsInv

(* Every variable keeps its type: in particular a znode is never written   *)
(* with the state of a Node object that no launcher or handler has.        *)
THEOREM TypeCorrect == Spec => []TypeOK
<1>1. SafetyInv => TypeOK
  BY DEF SafetyInv
<1> QED BY <1>1, SafetyInvariance, PTL

(* At most one launcher works on a request: each handler holds the lock of *)
(* its request from _assignHandlers until poll() has stored the verdict.   *)
THEOREM RequestExclusive == Spec => []HandlerHoldsRequest
<1>1. SafetyInv => HandlerHoldsRequest
  BY DEF SafetyInv, OwnersInv, HandlerHoldsRequest
<1> QED BY <1>1, SafetyInvariance, PTL

(* A handler's nodes are locked by it and allocated to its request, for    *)
(* any number of launchers, cleanup threads, crashes and withdrawals.      *)
THEOREM NodesetExclusive == Spec => []NodesetHeld
<1>1. SafetyInv => NodesetHeld
  BY DEF SafetyInv, NodesetsInv, NodesetHeld
<1> QED BY <1>1, SafetyInvariance, PTL

(* No node is given to two requests. *)
THEOREM NodeExclusive == Spec => []NodeGivenOnce
BY GivenOnce, SafetyInvariance, PTL
-----------------------------------------------------------------------------
(* What a request gets: it is never left locked by nobody, and without     *)
(* max-ready-age a fulfilled one has as many READY nodes as it asked for.  *)
(*                                                                         *)
(* The second is about the time between the verdict, when poll() unlocks   *)
(* the nodes, and the requestor's answer: nothing but their allocation     *)
(* protects them then.  max-ready-age does not respect it, as the run      *)
(* requests_max_ready_age shows.                                           *)

(* At the start nobody holds a request. *)
LEMMA HeldInit == Init => HeldInv
BY HolderDistinct DEF Init, HeldInv, HeldRequestHandled, ReqExists

(* Whatever leaves locks, and handlers and resets under way, alone, and    *)
(* brings no request back that is gone, keeps HeldInv.                     *)
LEMMA HeldFrame ==
    ASSUME HeldInv, UNCHANGED <<reqLock, resetting>>,
           \A r \in Requests :
              /\ ReqExists(r)' => reqState[r] # "removed"
              /\ reqState'[r] = "absent" => reqState[r] = "absent",
           \A p \in Pools, r \in Requests : phase[p][r] # "none" => phase'[p][r] # "none"
    PROVE  HeldInv'
<1>1. \A p \in Pools, r \in Requests : ReqExists(r)' =>
         /\ reqLock'[r] = Handler(p) => phase'[p][r] # "none"
         /\ reqLock'[r] = Cleaner(p) => resetting'[p] = r
  <2> SUFFICES ASSUME NEW p \in Pools, NEW r \in Requests, ReqExists(r)'
               PROVE  /\ reqLock[r] = Handler(p) => phase'[p][r] # "none"
                      /\ reqLock[r] = Cleaner(p) => resetting[p] = r
    OBVIOUS
  <2>1. CASE reqState[r] = "absent"
    BY <2>1, HolderDistinct DEF HeldInv
  <2>2. CASE reqState[r] # "absent"
    BY <2>2 DEF HeldInv, HeldRequestHandled, ReqExists
  <2> QED BY <2>1, <2>2
<1> QED BY <1>1 DEF HeldInv, HeldRequestHandled, ReqExists

(* No operation leaves a lock behind with nobody to release it.            *)
LEMMA HeldStep == TypeOK /\ OwnersInv /\ HeldInv /\ [Next]_vars => HeldInv'
<1> SUFFICES ASSUME TypeOK, OwnersInv, HeldInv, [Next]_vars PROVE HeldInv'
  OBVIOUS
<1> USE DEF zkNode, zkReq, handler, cleanup, bounds
<1>0. ASSUME UNCHANGED <<reqState, reqLock, resetting>>,
             \A p \in Pools, r \in Requests : phase[p][r] # "none" => phase'[p][r] # "none"
      PROVE  HeldInv'
  BY <1>0, HeldFrame DEF ReqExists
<1>1. ASSUME NEW p \in Pools, NEW r \in Requests, PoolWorkerStep(p, r)
      PROVE  HeldInv'
  <2>1. CASE AcceptRequest(p, r)
    BY <2>1, HolderDistinct DEF AcceptRequest, HeldInv, HeldRequestHandled, ReqExists, TypeOK
  <2>2. CASE DeclineOnArrival(p, r)
    <3>1. reqState' = [reqState EXCEPT ![r] = DeclinedState(p, r)]
          /\ DeclinedState(p, r) \notin {"absent", "removed"} /\ reqState[r] = "REQUESTED"
          /\ UNCHANGED <<reqLock, resetting, phase>>
      BY <2>2 DEF DeclineOnArrival, DeclinedState
    <3> QED BY <3>1, HeldFrame DEF TypeOK, ReqExists
  <2>0. ASSUME NEW s \in Phases \ {"none"}, phase' = [phase EXCEPT ![p][r] = s],
               UNCHANGED <<reqState, reqLock, resetting>>
        PROVE  HeldInv'
    <3>1. \A q \in Pools, t \in Requests :
             phase'[q][t] = IF q = p /\ t = r THEN s ELSE phase[q][t]
      BY <2>0 DEF TypeOK
    <3> QED BY <1>0, <2>0, <3>1
  <2>3. CASE RetryPaused(p, r) \/ GrantQuota(p, r) \/ NodeSetFilled(p, r)
    BY <2>0, <2>3 DEF RetryPaused, GrantQuota, NodeSetFilled, Phases
  <2>4. ASSUME NEW n \in Nodes,
               ReuseNode(p, r, n) \/ CreateNode(p, r, n) \/ LockNewNode(p, r, n)
        PROVE  HeldInv'
    <3>1. CASE ReuseNode(p, r, n) \/ LockNewNode(p, r, n)
      BY <1>0, <3>1 DEF ReuseNode, LockNewNode
    <3>2. CASE CreateNode(p, r, n)
      BY <2>0, <3>2 DEF CreateNode, Phases
    <3> QED BY <2>4, <3>1, <3>2
  <2>5. CASE \/ PauseHandler(p, r) \/ PollDecide(p, r)
             \/ PollAborted(p, r) \/ PollStoreRaises(p, r)
    <3>1. CASE PauseHandler(p, r)
      <4>1. /\ phase' = [phase EXCEPT ![p][r] = "paused"]
               \/ phase' = [phase EXCEPT ![p][r] = "releasing"]
            /\ UNCHANGED <<reqState, reqLock, resetting>>
        BY <3>1 DEF PauseHandler
      <4> QED BY <2>0, <4>1 DEF Phases
    <3>2. CASE PollDecide(p, r) \/ PollAborted(p, r) \/ PollStoreRaises(p, r)
      BY <2>0, <3>2 DEF PollDecide, PollAborted, PollStoreRaises, Phases
    <3> QED BY <2>5, <3>1, <3>2
  <2>6. ASSUME phase[p][r] # "none", phase' = [phase EXCEPT ![p][r] = "none"],
               UNCHANGED resetting,
               \/ ~ReqExists(r) /\ UNCHANGED <<reqState, reqLock>>
               \/ /\ ReleaseRequest(p, r)
                  /\ \E s \in ReqStates \ {"absent"} : reqState' = [reqState EXCEPT ![r] = s]
        PROVE  HeldInv'
    <3>1. reqLock[r] = Handler(p) /\ reqState[r] # "absent"
      BY <2>6 DEF OwnersInv
    <3>2. CASE ~ReqExists(r) /\ UNCHANGED <<reqState, reqLock>>
      BY <2>6, <3>2 DEF HeldInv, HeldRequestHandled, ReqExists, TypeOK
    <3>3. ASSUME NEW s \in ReqStates \ {"absent"}, reqState' = [reqState EXCEPT ![r] = s],
                 ReleaseRequest(p, r)
          PROVE  HeldInv'
      <4>1. reqLock' = [reqLock EXCEPT ![r] = None]
        BY <3>1, <3>3 DEF ReleaseRequest
      <4> QED BY <2>6, <3>3, <4>1, HolderDistinct
              DEF HeldInv, HeldRequestHandled, ReqExists, TypeOK
    <3> QED BY <2>6, <3>2, <3>3
  <2>7. ASSUME NEW s \in ReqStates \ {"absent"}, NEW d, phase[p][r] # "none",
               DeclinedHandlerCleanup(p, r, s, d), UNCHANGED cleanup
        PROVE  HeldInv'
    BY <2>6, <2>7 DEF DeclinedHandlerCleanup, DropHandler
  <2>8. /\ DeclinedState(p, r) \in ReqStates \ {"absent"}
        /\ phase[p][r] # "none" => reqState[r] \in ReqStates \ {"absent"}
    BY DEF DeclinedState, OwnersInv, ReqStates
  <2>9. CASE DeclinePaused(p, r) \/ DeclineMinReady(p, r)
    BY <2>7, <2>8, <2>9 DEF DeclinePaused, DeclineMinReady, AtQuota, Filling, declineRequest
  <2>10. CASE ReleaseAtQuota(p, r)
    BY <2>7, <2>8, <2>10 DEF ReleaseAtQuota
  <2>11. CASE PollRequestGone(p, r)
    <3>1. reqState' = [reqState EXCEPT ![r] = reqState[r]]
      BY <2>11 DEF PollRequestGone, TypeOK
    <3> QED
      BY <2>6, <2>8, <2>11, <3>1 DEF PollRequestGone, LaunchesComplete, DropHandler
  <2>12. CASE PollStore(p, r)
    <3>1. CASE verdict[p][r] # "absent"
      <4>1. verdict[p][r] \in ReqStates \ {"absent"}
        BY <3>1 DEF TypeOK
      <4>2. /\ phase[p][r] # "none" /\ phase' = [phase EXCEPT ![p][r] = "none"]
            /\ ReleaseRequest(p, r) /\ UNCHANGED resetting
            /\ reqState' = [reqState EXCEPT ![r] = verdict[p][r]]
        BY <2>12 DEF PollStore, DropHandler
      <4> QED BY <2>6, <4>1, <4>2
    <3>2. CASE verdict[p][r] = "absent"
      BY <2>12, <3>2, HolderDistinct DEF PollStore, DropHandler, ReleaseRequest, OwnersInv,
         HeldInv, HeldRequestHandled, ReqExists, TypeOK
    <3> QED BY <3>1, <3>2
  <2> QED BY <1>1, <2>1, <2>2, <2>3, <2>4, <2>5, <2>9, <2>10, <2>11, <2>12 DEF PoolWorkerStep
<1>2. ASSUME NEW p \in Pools, NEW r \in Requests, NodePoolStep(p, r)
      PROVE  HeldInv'
  <2>1. /\ UNCHANGED <<reqLock, resetting, phase>>
        /\ \E s \in {"REQUESTED", "removed"} : reqState' = [reqState EXCEPT ![r] = s]
        /\ reqState[r] # "removed"
    BY <1>2 DEF NodePoolStep, createMinReady, removeCompletedRequests, RequestRemoved
  <2> QED BY <2>1, HeldFrame DEF ReqExists, TypeOK
<1>3. ASSUME NEW n \in Nodes, LauncherStep(n)
      PROVE  HeldInv'
  BY <1>0, <1>3 DEF LauncherStep, LaunchReady, LaunchFailed, LaunchAborted
<1>4. ASSUME NEW p \in Pools, CleanupWorkerStep(p)
      PROVE  HeldInv'
  <2>1. ASSUME NEW r \in Requests, LockLostRequest(p, r)
        PROVE  HeldInv'
    BY <2>1, HolderDistinct, ConstantsAssumption
       DEF LockLostRequest, OwnersInv, HeldInv, HeldRequestHandled, ReqExists, TypeOK
  <2>2. ASSUME NEW r \in Requests, ResetLostRequest(p, r)
        PROVE  HeldInv'
    <3>1. r # None /\ reqLock[r] = Cleaner(p) /\ reqState[r] # "absent"
      BY <2>2, ConstantsAssumption DEF ResetLostRequest, OwnersInv
    <3>2. reqLock' = [reqLock EXCEPT ![r] = None]
      BY <2>2, <3>1 DEF ResetLostRequest
    <3> QED BY <2>2, <3>1, <3>2, HolderDistinct
            DEF ResetLostRequest, HeldInv, HeldRequestHandled, ReqExists, TypeOK
  <2>3. CASE ListAgedNodes(p)
    BY <1>0, <2>3 DEF ListAgedNodes
  <2>4. ASSUME NEW n \in Nodes,
               DeallocateLost(p, n) \/ DeleteAgedNode(p, n) \/ DeleteHeldNode(p, n)
        PROVE  HeldInv'
    BY <1>0, <2>4 DEF DeallocateLost, DeleteAgedNode, DeleteHeldNode
  <2> QED BY <1>4, <2>1, <2>2, <2>3, <2>4 DEF CleanupWorkerStep
<1>5. ASSUME NEW p \in Pools, NEW n \in Nodes, DeletedNodeWorkerStep(p, n)
      PROVE  HeldInv'
  BY <1>0, <1>5 DEF DeletedNodeWorkerStep, DeallocateMissing, StartNodeCleanup,
     DeleteNode, DeleteFails
<1>6. CASE ZuulStep
  <2>1. ASSUME NEW r \in Requests, ZuulSubmit(r) \/ ZuulWithdraw(r) \/ ZuulAccept(r)
        PROVE  HeldInv'
    <3>1. /\ UNCHANGED <<reqLock, resetting, phase>>
          /\ \E s \in {"REQUESTED", "removed"} : reqState' = [reqState EXCEPT ![r] = s]
          /\ reqState[r] # "removed"
      BY <2>1 DEF ZuulSubmit, ZuulWithdraw, ZuulAccept, RequestRemoved, ReqExists
    <3> QED BY <3>1, HeldFrame DEF ReqExists, TypeOK
  <2>2. ASSUME NEW n \in Nodes, ZuulReturn(n)
        PROVE  HeldInv'
    BY <1>0, <2>2 DEF ZuulReturn
  <2> QED BY <1>6, <2>1, <2>2 DEF ZuulStep
<1>7. ASSUME NEW p \in Pools, Crash(p)
      PROVE  HeldInv'
  <2>1. \A r \in Requests :
           /\ ReqExists(r)' => ReqExists(r)
           /\ reqState'[r] = "absent" => reqState[r] = "absent"
           /\ reqLock'[r] = IF reqLock[r] \in OwnLocks(p) THEN None ELSE reqLock[r]
    BY <1>7 DEF Crash, ReqExists, TypeOK
  <2>2. \A q \in Pools \ {p}, r \in Requests :
           phase'[q][r] = phase[q][r] /\ resetting'[q] = resetting[q]
    BY <1>7 DEF Crash, TypeOK
  <2> QED BY <2>1, <2>2, HolderDistinct DEF OwnLocks, HeldInv, HeldRequestHandled, ReqExists
<1>8. ASSUME NEW p \in Pools, Restart(p)
      PROVE  HeldInv'
  BY <1>0, <1>8 DEF Restart
<1>9. CASE UNCHANGED vars
  BY <1>0, <1>9 DEF vars
<1> QED BY <1>1, <1>2, <1>3, <1>4, <1>5, <1>6, <1>7, <1>8, <1>9 DEF Next
----------------------------------------------------------------------------
(* Promises *)

(* A promised node is nobody's: no handler has it, and its request is not  *)
(* being reset.                                                            *)
LEMMA PromisedAlone ==
    ASSUME TypeOK, OwnersInv, NodesetsInv, ClaimsInv, PromisesKept,
           NEW r \in Requests, NEW n \in Nodes, Promised(r, n)
    PROVE  /\ LeftAlone(r, n) /\ ReqExists(r) /\ r # None
           /\ \A p \in Pools : resetting[p] # r
           /\ \A p \in Pools, q \in Requests : n \notin nodeset[p][q]
<1>1. LeftAlone(r, n) /\ r # None
  BY ConstantsAssumption DEF PromisesKept
<1>2. ReqExists(r) /\ (reqState[r] = "FULFILLED" \/ \E p \in Pools : reqLock[r] = Handler(p))
  BY DEF Promised, ClaimsInv, OwnersInv, ReqExists
<1>3. ASSUME NEW p \in Pools, resetting[p] = r PROVE FALSE
  BY <1>1, <1>2, <1>3, HolderDistinct DEF OwnersInv, ReqExists
<1>4. ASSUME NEW p \in Pools, NEW q \in Requests, n \in nodeset[p][q] PROVE FALSE
  <2>1. nodeLock[n] = Handler(p)
    BY <1>4 DEF NodesetsInv
  <2> QED BY <1>1, <2>1, HolderDistinct DEF LeftAlone
<1> QED BY <1>1, <1>2, <1>3, <1>4

(* Only a verdict makes new promises. *)
LEMMA NoNewPromise ==
    ASSUME OwnersInv,
           \A r \in Requests : /\ reqNodes'[r] \subseteq reqNodes[r]
                               /\ ReqExists(r)' => reqState[r] # "removed",
           \A p \in Pools, r \in Requests : phase'[p][r] = "storing" =>
              /\ phase[p][r] = "storing" /\ verdict'[p][r] = verdict[p][r]
              /\ satisfied'[p][r] = satisfied[p][r],
           NEW r \in Requests, NEW n \in Nodes, Promised(r, n)'
    PROVE  Promised(r, n)
<1>1. CASE n \in reqNodes'[r]
  BY <1>1 DEF Promised
<1>2. ASSUME ReqExists(r)', NEW p \in Pools, phase'[p][r] = "storing",
             verdict'[p][r] = "FULFILLED", n \in satisfied'[p][r]
      PROVE  Promised(r, n)
  <2>1. phase[p][r] = "storing" /\ reqState[r] = "PENDING"
    BY <1>2 DEF OwnersInv
  <2> QED BY <1>2, <2>1 DEF Promised, ReqExists
<1> QED BY <1>1, <1>2 DEF Promised

(* A handler that moves on, but not to a verdict, makes none.              *)
LEMMA HandlerMoves ==
    ASSUME TypeOK, OwnersInv, NEW p \in Pools, NEW r \in Requests,
           NEW s \in Phases \ {"storing"}, phase' = [phase EXCEPT ![p][r] = s],
           \A q \in Pools, t \in Requests : q # p \/ t # r =>
              verdict'[q][t] = verdict[q][t] /\ satisfied'[q][t] = satisfied[q][t],
           \A t \in Requests : /\ reqNodes'[t] \subseteq reqNodes[t]
                               /\ ReqExists(t)' => reqState[t] # "removed"
    PROVE  \A t \in Requests, n \in Nodes : Promised(t, n)' => Promised(t, n)
<1>1. \A q \in Pools, t \in Requests :
         phase'[q][t] = IF q = p /\ t = r THEN s ELSE phase[q][t]
  BY DEF TypeOK
<1> QED BY <1>1, NoNewPromise

(* Without new promises it is enough to leave the promised nodes alone.    *)
LEMMA PromisesFrame ==
    ASSUME PromisesKept,
           \A r \in Requests, n \in Nodes : Promised(r, n)' => Promised(r, n),
           \A r \in Requests, n \in Nodes : Promised(r, n) => LeftAlone(r, n)'
    PROVE  PromisesKept'
BY DEF PromisesKept

LEMMA PromisesInit == Init => PromisesKept /\ NoAgingInv /\ CountInv
BY FS_EmptySet, ConstantsAssumption DEF Init, PromisesKept, Promised, NoAgingInv,
   CountInv, Counted

(* Unlocking a handler's nodes leaves the promised ones alone. *)
LEMMA UnlockKeeps ==
    ASSUME TypeOK, NEW p \in Pools, NEW S \in SUBSET Nodes, NEW r, NEW n \in Nodes,
           LeftAlone(r, n), n \notin S, UnlockOnly(p, S) \/ UnlockAndClear(p, S)
    PROVE  LeftAlone(r, n)'
BY DEF LeftAlone, UnlockOnly, UnlockAndClear, Unlocked, TypeOK

(* What satisfies a handler joins its nodeset and leaves it together.      *)
LEMMA GatheredStep ==
    TypeOK /\ NodesetsInv /\ ClaimsInv /\ GatheredInv /\ [Next]_vars => GatheredInv'
<1> SUFFICES ASSUME TypeOK, NodesetsInv, ClaimsInv, GatheredInv, [Next]_vars
             PROVE  GatheredInv'
  OBVIOUS
<1> USE DEF zkNode, zkReq, handler, cleanup, bounds
<1>0. ASSUME UNCHANGED <<phase, nodeset, satisfied>> PROVE GatheredInv'
  BY <1>0 DEF GatheredInv
<1>1. ASSUME NEW p \in Pools, NEW r \in Requests, PoolWorkerStep(p, r)
      PROVE  GatheredInv'
  <2>1. ASSUME UNCHANGED <<nodeset, satisfied>>, NEW new \in Phases,
               phase' = [phase EXCEPT ![p][r] = new],
               phase[p][r] \in Gathering \cup {"none"} \/ new \notin Gathering
        PROVE  GatheredInv'
    <3>1. ASSUME NEW q \in Pools, NEW t \in Requests, phase'[q][t] \in Gathering
          PROVE  phase[q][t] \in Gathering \/ phase[q][t] = "none"
      BY <2>1, <3>1 DEF TypeOK
    <3> QED BY <2>1, <3>1 DEF GatheredInv, ClaimsInv
  <2>2. ASSUME DropHandler(p, r)
        PROVE  GatheredInv'
    BY <2>2 DEF DropHandler, GatheredInv, TypeOK
  <2>3. CASE AcceptRequest(p, r) \/ RetryPaused(p, r)
    BY <2>1, <2>3 DEF AcceptRequest, RetryPaused, Gathering, Phases
  <2>4. CASE GrantQuota(p, r) \/ NodeSetFilled(p, r) \/ PauseHandler(p, r)
    BY <2>1, <2>4 DEF GrantQuota, NodeSetFilled, PauseHandler, AtQuota, Filling, Gathering,
       Phases
  <2>5. CASE DeclineOnArrival(p, r)
    BY <1>0, <2>5 DEF DeclineOnArrival
  <2>6. CASE DeclinePaused(p, r) \/ DeclineMinReady(p, r) \/ ReleaseAtQuota(p, r)
    BY <2>2, <2>6 DEF DeclinePaused, DeclineMinReady, ReleaseAtQuota, declineRequest,
       DeclinedHandlerCleanup
  <2>7. CASE PollRequestGone(p, r) \/ PollStore(p, r)
    BY <2>2, <2>7 DEF PollRequestGone, PollStore
  <2>8. ASSUME NEW n \in Nodes, ReuseNode(p, r, n) \/ LockNewNode(p, r, n)
        PROVE  GatheredInv'
    <3>1. /\ nodeset' = [nodeset EXCEPT ![p][r] = @ \cup {n}]
          /\ satisfied' = [satisfied EXCEPT ![p][r] = @ \cup {n}] /\ phase' = phase
      BY <2>8 DEF ReuseNode, LockNewNode
    <3> QED BY <3>1 DEF GatheredInv, TypeOK
  <2>9. ASSUME NEW n \in Nodes, CreateNode(p, r, n)
        PROVE  GatheredInv'
    BY <2>1, <2>9 DEF CreateNode, Gathering, Phases
  <2>10. CASE PollDecide(p, r) \/ PollStoreRaises(p, r)
    <3>1. ASSUME NEW new \in {"storing", "popped"}, phase' = [phase EXCEPT ![p][r] = new],
                 \A q \in Pools, t \in Requests : q # p \/ t # r =>
                    nodeset'[q][t] = nodeset[q][t] /\ satisfied'[q][t] = satisfied[q][t]
          PROVE  GatheredInv'
      BY <3>1 DEF GatheredInv, Gathering, TypeOK
    <3>2. CASE PollDecide(p, r)
      BY <2>10, <3>1, <3>2 DEF PollDecide, TypeOK
    <3>3. CASE PollStoreRaises(p, r)
      BY <2>10, <3>1, <3>3 DEF PollStoreRaises, TypeOK
    <3> QED BY <2>10, <3>2, <3>3
  <2>11. CASE PollAborted(p, r)
    BY <2>11 DEF PollAborted, LaunchesComplete, GatheredInv, Gathering, TypeOK
  <2> QED
    BY <1>1, <2>3, <2>4, <2>5, <2>6, <2>7, <2>8, <2>9, <2>10, <2>11 DEF PoolWorkerStep
<1>2. ASSUME NEW p \in Pools, Crash(p) PROVE GatheredInv'
  BY <1>2 DEF Crash, GatheredInv, Gathering, TypeOK
<1>3. ASSUME NEW n \in Nodes, LauncherStep(n) PROVE GatheredInv'
  BY <1>0, <1>3 DEF LauncherStep, LaunchReady, LaunchFailed, LaunchAborted
<1>4. ASSUME NEW p \in Pools, CleanupWorkerStep(p) PROVE GatheredInv'
  BY <1>0, <1>4 DEF CleanupWorkerStep, LockLostRequest, ResetLostRequest, ListAgedNodes,
     DeallocateLost, DeleteAgedNode, DeleteHeldNode
<1> QED
  BY <1>0, <1>1, <1>2, <1>3, <1>4
  DEF Next, NodePoolStep, createMinReady, removeCompletedRequests, DeletedNodeWorkerStep,
      DeallocateMissing, StartNodeCleanup, DeleteNode, DeleteFails, ZuulStep, ZuulSubmit,
      ZuulWithdraw, ZuulAccept, ZuulReturn, Restart, vars

(* No operation but ageing takes a promised node: what the others take is  *)
(* locked, unallocated, in another state or of a request that is gone.     *)
LEMMA PromisesStep ==
    TypeOK /\ OwnersInv /\ NodesetsInv /\ CreatingInv /\ ClaimsInv /\ GatheredInv
      /\ NoAgingInv /\ PromisesKept /\ [Next]_vars => PromisesKept'
<1> SUFFICES ASSUME TypeOK, OwnersInv, NodesetsInv, CreatingInv, ClaimsInv, GatheredInv,
                    NoAgingInv, PromisesKept, [Next]_vars
             PROVE  PromisesKept'
  OBVIOUS
<1> USE DEF zkNode, zkReq, handler, cleanup, bounds
<1>a. \A r \in Requests, n \in Nodes : Promised(r, n) =>
         /\ LeftAlone(r, n) /\ ReqExists(r) /\ r # None
         /\ \A p \in Pools : resetting[p] # r
         /\ \A p \in Pools, q \in Requests : n \notin nodeset[p][q]
  BY PromisedAlone
<1>b. ASSUME UNCHANGED <<reqState, reqNodes, phase, verdict, satisfied>>,
             \A r \in Requests, n \in Nodes : Promised(r, n) => LeftAlone(r, n)'
      PROVE  PromisesKept'
  <2>1. \A r \in Requests, n \in Nodes : Promised(r, n)' => Promised(r, n)
    BY <1>b DEF Promised, ReqExists
  <2> QED BY <1>b, <2>1, PromisesFrame
<1>c. ASSUME UNCHANGED <<nodeState, nodeAlloc, nodeLock, local>>
      PROVE  \A r \in Requests, n \in Nodes : Promised(r, n) => LeftAlone(r, n)'
  BY <1>a, <1>c DEF LeftAlone
<1>d. ASSUME phase' = phase, verdict' = verdict, satisfied' = satisfied,
             \A t \in Requests : reqNodes'[t] \subseteq reqNodes[t],
             \A t \in Requests : ReqExists(t)' => reqState[t] # "removed"
      PROVE  \A t \in Requests, n \in Nodes : Promised(t, n)' => Promised(t, n)
  BY <1>d, NoNewPromise
<1>1. ASSUME NEW p \in Pools, NEW r \in Requests, PoolWorkerStep(p, r)
      PROVE  PromisesKept'
  <2>0. ASSUME NEW s \in Phases \ {"storing"}, phase' = [phase EXCEPT ![p][r] = s],
               \A q \in Pools, t \in Requests : q # p \/ t # r =>
                  verdict'[q][t] = verdict[q][t] /\ satisfied'[q][t] = satisfied[q][t],
               \A t \in Requests : /\ reqNodes'[t] \subseteq reqNodes[t]
                                   /\ ReqExists(t)' => reqState[t] # "removed",
               \A t \in Requests, n \in Nodes : Promised(t, n) => LeftAlone(t, n)'
        PROVE  PromisesKept'
    BY <2>0, HandlerMoves, PromisesFrame
  <2>1. CASE AcceptRequest(p, r)
    <3>1. /\ phase' = [phase EXCEPT ![p][r] = "filling"]
          /\ reqState' = [reqState EXCEPT ![r] = "PENDING"] /\ reqState[r] = "REQUESTED"
          /\ UNCHANGED <<nodeState, nodeAlloc, nodeLock, local, verdict, satisfied, reqNodes>>
      BY <2>1 DEF AcceptRequest
    <3> QED BY <1>c, <2>0, <3>1 DEF Phases, ReqExists, TypeOK
  <2>2. CASE DeclineOnArrival(p, r)
    <3>1. /\ reqState' = [reqState EXCEPT ![r] = DeclinedState(p, r)]
          /\ reqState[r] = "REQUESTED"
          /\ UNCHANGED <<nodeState, nodeAlloc, nodeLock, local, phase, verdict, satisfied,
                         reqNodes>>
      BY <2>2 DEF DeclineOnArrival
    <3>2. \A t \in Requests, n \in Nodes : Promised(t, n)' => Promised(t, n)
      BY <3>1, NoNewPromise DEF ReqExists, TypeOK
    <3> QED BY <1>c, <3>1, <3>2, PromisesFrame
  <2>3. CASE RetryPaused(p, r) \/ GrantQuota(p, r) \/ NodeSetFilled(p, r)
    <3>1. /\ \E s \in {"filling", "granted", "launching"} :
               phase' = [phase EXCEPT ![p][r] = s]
          /\ UNCHANGED <<nodeState, nodeAlloc, nodeLock, local, verdict, satisfied, reqNodes,
                         reqState>>
      BY <2>3 DEF RetryPaused, GrantQuota, NodeSetFilled
    <3> QED BY <1>c, <2>0, <3>1 DEF Phases, ReqExists
  <2>4. ASSUME NEW n \in Nodes, ReuseNode(p, r, n) \/ LockNewNode(p, r, n)
        PROVE  PromisesKept'
    <3>1. \A t \in Requests, m \in Nodes : Promised(t, m) => LeftAlone(t, m)'
      <4>1. nodeAlloc[n] = None \/ nodeState[n] = "INIT"
        BY <2>4, ConstantsAssumption DEF ReuseNode, LockNewNode, CreatingInv
      <4>2. \A t \in Requests : ~Promised(t, n)
        BY <1>a, <4>1 DEF LeftAlone
      <4>3. \A m \in Nodes \ {n} :
               /\ nodeState'[m] = nodeState[m] /\ nodeAlloc'[m] = nodeAlloc[m]
               /\ nodeLock'[m] = nodeLock[m] /\ local'[m] = local[m]
        BY <2>4 DEF ReuseNode, LockNewNode, TypeOK
      <4> QED BY <1>a, <4>2, <4>3 DEF LeftAlone
    <3>2. /\ phase' = [phase EXCEPT ![p][r] = "filling"]
          /\ satisfied' = [satisfied EXCEPT ![p][r] = @ \cup {n}]
          /\ UNCHANGED <<verdict, reqNodes, reqState>>
      BY <2>4 DEF ReuseNode, LockNewNode, Filling, TypeOK
    <3>3. \A q \in Pools, t \in Requests : q # p \/ t # r =>
             verdict'[q][t] = verdict[q][t] /\ satisfied'[q][t] = satisfied[q][t]
      BY <3>2 DEF TypeOK
    <3> QED BY <2>0, <3>1, <3>2, <3>3 DEF Phases, ReqExists
  <2>5. ASSUME NEW n \in Nodes, CreateNode(p, r, n)
        PROVE  PromisesKept'
    <3>1. \A t \in Requests : ~Promised(t, n)
      BY <1>a, <2>5 DEF CreateNode, FreshId, LeftAlone
    <3>2. \A t \in Requests, m \in Nodes : Promised(t, m) => LeftAlone(t, m)'
      BY <1>a, <2>5, <3>1 DEF CreateNode, LeftAlone, TypeOK
    <3>3. /\ phase' = [phase EXCEPT ![p][r] = "filling"]
          /\ UNCHANGED <<verdict, satisfied, reqNodes, reqState>>
      BY <2>5 DEF CreateNode
    <3> QED BY <2>0, <3>2, <3>3 DEF Phases, ReqExists
  <2>6. CASE PauseHandler(p, r)
    <3>1. \A t \in Requests, n \in Nodes : Promised(t, n) => LeftAlone(t, n)'
      <4>1. CASE UNCHANGED nodeState
        BY <1>c, <2>6, <4>1 DEF PauseHandler
      <4>2. ASSUME NEW m \in Nodes, nodeAlloc[m] = None,
                   nodeState' = [nodeState EXCEPT ![m] = "DELETING"]
            PROVE  \A t \in Requests, n \in Nodes : Promised(t, n) => LeftAlone(t, n)'
        BY <1>a, <2>6, <4>2 DEF PauseHandler, LeftAlone, TypeOK
      <4> QED BY <2>6, <4>1, <4>2 DEF PauseHandler, deleteOldestUnusedNode
    <3>2. /\ phase' = [phase EXCEPT ![p][r] = "paused"]
             \/ phase' = [phase EXCEPT ![p][r] = "releasing"]
          /\ UNCHANGED <<verdict, satisfied, reqNodes, reqState>>
      BY <2>6 DEF PauseHandler
    <3> QED BY <2>0, <3>1, <3>2 DEF Phases, ReqExists
  <2>7. ASSUME NEW s, NEW d, DeclinedHandlerCleanup(p, r, s, d)
        PROVE  PromisesKept'
    <3>1. \A t \in Requests, n \in Nodes : Promised(t, n) => LeftAlone(t, n)'
      <4>1. UnlockAndClear(p, nodeset[p][r]) /\ nodeset[p][r] \in SUBSET Nodes
        BY <2>7 DEF DeclinedHandlerCleanup, TypeOK
      <4> QED BY <1>a, <4>1, UnlockKeeps
    <3>2. /\ phase' = [phase EXCEPT ![p][r] = "none"]
          /\ satisfied' = [satisfied EXCEPT ![p][r] = {}]
          /\ verdict' = [verdict EXCEPT ![p][r] = "absent"]
          /\ UNCHANGED reqNodes
          /\ \/ reqState' = reqState
             \/ reqState[r] # "removed" /\ reqState' = [reqState EXCEPT ![r] = s]
      BY <2>7 DEF DeclinedHandlerCleanup, DropHandler, ReqExists
    <3>3. \A q \in Pools, t \in Requests : q # p \/ t # r =>
             verdict'[q][t] = verdict[q][t] /\ satisfied'[q][t] = satisfied[q][t]
      BY <3>2 DEF TypeOK
    <3>4. \A t \in Requests : /\ reqNodes'[t] \subseteq reqNodes[t]
                              /\ ReqExists(t)' => reqState[t] # "removed"
      BY <3>2 DEF ReqExists, TypeOK
    <3> QED BY <2>0, <3>1, <3>2, <3>3, <3>4 DEF Phases
  <2>8. CASE DeclinePaused(p, r) \/ DeclineMinReady(p, r) \/ ReleaseAtQuota(p, r)
    BY <2>7, <2>8 DEF DeclinePaused, DeclineMinReady, ReleaseAtQuota, declineRequest
  <2>9. CASE PollRequestGone(p, r)
    <3>1. \A t \in Requests, n \in Nodes : Promised(t, n) => LeftAlone(t, n)'
      BY <1>a, <2>9 DEF PollRequestGone, LeftAlone, Unlocked, TypeOK
    <3>2. /\ phase' = [phase EXCEPT ![p][r] = "none"]
          /\ satisfied' = [satisfied EXCEPT ![p][r] = {}]
          /\ verdict' = [verdict EXCEPT ![p][r] = "absent"]
          /\ UNCHANGED <<reqNodes, reqState>>
      BY <2>9 DEF PollRequestGone, DropHandler
    <3>3. \A q \in Pools, t \in Requests : q # p \/ t # r =>
             verdict'[q][t] = verdict[q][t] /\ satisfied'[q][t] = satisfied[q][t]
      BY <3>2 DEF TypeOK
    <3> QED BY <2>0, <3>1, <3>2, <3>3 DEF Phases, ReqExists
  <2>10. CASE PollDecide(p, r)
    <3>1. /\ UnlockOnly(p, nodeset[p][r]) /\ nodeset[p][r] \in SUBSET Nodes
          /\ satisfied[p][r] = nodeset[p][r] /\ ReqExists(r)
          /\ phase' = [phase EXCEPT ![p][r] = "storing"]
          /\ UNCHANGED <<reqState, reqNodes, satisfied>>
      <4>1. phase[p][r] = "launching"
        BY <2>10 DEF PollDecide, LaunchesComplete
      <4>2. satisfied[p][r] = nodeset[p][r]
        <5>1. satisfied[p][r] \subseteq nodeset[p][r]
          BY <4>1 DEF GatheredInv, Gathering
        <5>2. nodeset[p][r] \subseteq satisfied[p][r]
          BY <4>1 DEF NodesetsInv, Gathering
        <5> QED BY <5>1, <5>2
      <4> QED BY <2>10, <4>2 DEF PollDecide, TypeOK
    <3>2. \A q \in Pools, t \in Requests : q # p \/ t # r =>
             phase'[q][t] = phase[q][t] /\ verdict'[q][t] = verdict[q][t]
      BY <2>10 DEF PollDecide, TypeOK
    <3>3. verdict'[p][r] = "FULFILLED" =>
             \A n \in nodeset[p][r] : local[n] = "READY"
      <4>1. verdict'[p][r] = IF WithLocal(p, r, "FAILED") # {}
                             THEN DeclinedState(p, r) ELSE "FULFILLED"
        BY <2>10 DEF PollDecide, TypeOK
      <4>2. verdict'[p][r] = "FULFILLED" =>
               WithLocal(p, r, "FAILED") = {} /\ WithLocal(p, r, "ABORTED") = {}
        BY <2>10, <4>1 DEF PollDecide, DeclinedState
      <4> QED BY <2>10, <4>2 DEF PollDecide, LaunchesComplete, WithLocal, NodesetsInv,
                 LocalStates, TypeOK
    <3>4. ASSUME verdict'[p][r] = "FULFILLED", NEW n \in nodeset[p][r]
          PROVE  LeftAlone(r, n)'
      BY <3>1, <3>3, <3>4 DEF NodesetsInv, UnlockOnly, Unlocked, LeftAlone, TypeOK
    <3>5. ASSUME NEW t \in Requests, NEW n \in Nodes, Promised(t, n)
          PROVE  LeftAlone(t, n)'
      BY <1>a, <3>1, <3>5, UnlockKeeps
    <3>6. ASSUME NEW t \in Requests, NEW n \in Nodes, Promised(t, n)'
          PROVE  \/ Promised(t, n)
                 \/ t = r /\ verdict'[p][r] = "FULFILLED" /\ n \in nodeset[p][r]
      BY <3>1, <3>2, <3>6 DEF Promised, ReqExists
    <3> QED BY <3>4, <3>5, <3>6 DEF PromisesKept
  <2>11. CASE PollAborted(p, r)
    <3>1. /\ phase' = [phase EXCEPT ![p][r] = "paused"]
          /\ UnlockOnly(p, WithLocal(p, r, "ABORTED"))
          /\ satisfied' = [satisfied EXCEPT ![p][r] = @ \ WithLocal(p, r, "ABORTED")]
          /\ UNCHANGED <<verdict, reqNodes, reqState>>
      BY <2>11 DEF PollAborted
    <3>2. \A t \in Requests, n \in Nodes : Promised(t, n) => LeftAlone(t, n)'
      <4>1. WithLocal(p, r, "ABORTED") \subseteq nodeset[p][r]
            /\ WithLocal(p, r, "ABORTED") \in SUBSET Nodes
        BY DEF WithLocal, TypeOK
      <4> QED BY <1>a, <3>1, <4>1, UnlockKeeps
    <3>3. \A q \in Pools, t \in Requests : q # p \/ t # r =>
             verdict'[q][t] = verdict[q][t] /\ satisfied'[q][t] = satisfied[q][t]
      BY <3>1 DEF TypeOK
    <3> QED BY <2>0, <3>1, <3>2, <3>3 DEF Phases, ReqExists
  <2>12. CASE PollStore(p, r)
    <3>1. /\ phase' = [phase EXCEPT ![p][r] = "none"]
          /\ verdict' = [verdict EXCEPT ![p][r] = "absent"]
          /\ satisfied' = [satisfied EXCEPT ![p][r] = {}]
          /\ reqState' = [reqState EXCEPT ![r] = verdict[p][r]]
          /\ phase[p][r] = "storing" /\ ReqExists(r)
          /\ UNCHANGED <<nodeState, nodeAlloc, nodeLock, local>>
      BY <2>12 DEF PollStore, DropHandler
    <3>2. \A t \in Requests :
             \/ reqNodes'[t] \subseteq reqNodes[t]
             \/ t = r /\ verdict[p][r] = "FULFILLED" /\ reqNodes'[t] = satisfied[p][r]
      BY <2>12 DEF PollStore, TypeOK
    <3>3. \A q \in Pools, t \in Requests :
             phase'[q][t] = "storing" =>
                /\ phase[q][t] = "storing" /\ verdict'[q][t] = verdict[q][t]
                /\ satisfied'[q][t] = satisfied[q][t]
      BY <3>1 DEF TypeOK
    <3>4. \A t \in Requests : ReqExists(t)' => t = r \/ ReqExists(t)
      BY <3>1 DEF ReqExists, TypeOK
    <3>5. \A t \in Requests, n \in Nodes : Promised(t, n)' => Promised(t, n)
      BY <3>1, <3>2, <3>3, <3>4 DEF Promised
    <3> QED BY <1>c, <3>1, <3>5, PromisesFrame
  <2>13. CASE PollStoreRaises(p, r)
    <3>1. /\ phase' = [phase EXCEPT ![p][r] = "popped"]
          /\ satisfied' = [satisfied EXCEPT ![p][r] = {}]
          /\ UNCHANGED <<nodeState, nodeAlloc, nodeLock, local, verdict, reqNodes, reqState>>
      BY <2>13 DEF PollStoreRaises
    <3>2. \A q \in Pools, t \in Requests : q # p \/ t # r =>
             verdict'[q][t] = verdict[q][t] /\ satisfied'[q][t] = satisfied[q][t]
      BY <3>1 DEF TypeOK
    <3> QED BY <1>c, <2>0, <3>1, <3>2 DEF Phases, ReqExists
  <2> QED BY <1>1, <2>1, <2>2, <2>3, <2>4, <2>5, <2>6, <2>8, <2>9, <2>10, <2>11, <2>12,
             <2>13 DEF PoolWorkerStep
<1>2. ASSUME NEW p \in Pools, NEW r \in Requests, NodePoolStep(p, r)
      PROVE  PromisesKept'
  <2>1. /\ UNCHANGED <<phase, verdict, satisfied>>
        /\ \A t \in Requests : /\ reqNodes'[t] \subseteq reqNodes[t]
                               /\ ReqExists(t)' => reqState[t] # "removed"
    BY <1>2 DEF NodePoolStep, createMinReady, removeCompletedRequests, RequestRemoved,
       ReqExists, TypeOK
  <2>2. \A t \in Requests, n \in Nodes : Promised(t, n)' => Promised(t, n)
    BY <1>d, <2>1
  <2>3. CASE createMinReady(p, r)
    BY <1>c, <2>2, <2>3, PromisesFrame DEF createMinReady
  <2>4. CASE removeCompletedRequests(p, r)
    <3>1. \A t \in Requests, n \in Nodes : Promised(t, n)' => n \notin reqNodes[r]
      <4> SUFFICES ASSUME NEW t \in Requests, NEW n \in reqNodes[r], n \in Nodes,
                          Promised(t, n)'
                   PROVE  FALSE
        OBVIOUS
      <4>1. Promised(t, n) /\ Promised(r, n)
        BY <2>2 DEF Promised
      <4>2. t = r
        BY <1>a, <4>1 DEF LeftAlone
      <4>3. reqNodes'[r] = {} /\ ~ReqExists(r)'
        BY <2>4 DEF removeCompletedRequests, RequestRemoved, ReqExists, TypeOK
      <4> QED BY <4>2, <4>3 DEF Promised
    <3>2. ASSUME NEW t \in Requests, NEW n \in Nodes, Promised(t, n)'
          PROVE  LeftAlone(t, n)'
      BY <1>a, <2>2, <2>4, <3>1, <3>2 DEF removeCompletedRequests, LeftAlone
    <3> QED BY <3>2 DEF PromisesKept
  <2> QED BY <1>2, <2>3, <2>4 DEF NodePoolStep
<1>3. ASSUME NEW n \in Nodes, LauncherStep(n)
      PROVE  PromisesKept'
  <2>1. local[n] = "BUILDING" /\ UNCHANGED <<reqState, reqNodes, phase, verdict, satisfied>>
    BY <1>3 DEF LauncherStep, LaunchReady, LaunchFailed, LaunchAborted, Launching
  <2>2. \A m \in Nodes \ {n} :
           /\ nodeState'[m] = nodeState[m] /\ nodeAlloc'[m] = nodeAlloc[m]
           /\ nodeLock'[m] = nodeLock[m] /\ local'[m] = local[m]
    BY <1>3 DEF LauncherStep, LaunchReady, LaunchFailed, LaunchAborted, LaunchResult, TypeOK
  <2>3. \A t \in Requests, m \in Nodes : Promised(t, m) => LeftAlone(t, m)'
    BY <1>a, <2>1, <2>2 DEF LeftAlone
  <2> QED BY <1>b, <2>1, <2>3
<1>4. ASSUME NEW p \in Pools, CleanupWorkerStep(p)
      PROVE  PromisesKept'
  <2>1. ASSUME NEW r \in Requests, LockLostRequest(p, r)
        PROVE  PromisesKept'
    BY <1>b, <1>c, <2>1 DEF LockLostRequest
  <2>2. ASSUME NEW r \in Requests, ResetLostRequest(p, r)
        PROVE  PromisesKept'
    <3>1. /\ UNCHANGED <<nodeState, nodeAlloc, nodeLock, local, phase, verdict, satisfied>>
          /\ \A t \in Requests : /\ reqNodes'[t] \subseteq reqNodes[t]
                                 /\ ReqExists(t)' => reqState[t] # "removed"
      BY <2>2 DEF ResetLostRequest, ReqExists, TypeOK
    <3>2. \A t \in Requests, n \in Nodes : Promised(t, n)' => Promised(t, n)
      BY <1>d, <3>1
    <3> QED BY <1>c, <3>1, <3>2, PromisesFrame
  <2>3. CASE ListAgedNodes(p)
    BY <1>b, <1>c, <2>3 DEF ListAgedNodes
  <2>4. ASSUME NEW n \in Nodes, DeallocateLost(p, n)
        PROVE  PromisesKept'
    <3>1. \A t \in Requests : Promised(t, n) => nodeAlloc[n] # resetting[p]
      BY <1>a DEF LeftAlone
    <3>2. \A t \in Requests, m \in Nodes : Promised(t, m) => LeftAlone(t, m)'
      BY <1>a, <2>4, <3>1 DEF DeallocateLost, LeftAlone, TypeOK
    <3> QED BY <1>b, <2>4, <3>2 DEF DeallocateLost
  <2>5. ASSUME NEW n \in Nodes, DeleteAgedNode(p, n)
        PROVE  PromisesKept'
    BY <2>5 DEF DeleteAgedNode, NoAgingInv
  <2>6. ASSUME NEW n \in Nodes, DeleteHeldNode(p, n)
        PROVE  PromisesKept'
    <3>1. \A t \in Requests, m \in Nodes : Promised(t, m) => LeftAlone(t, m)'
      BY <1>a, <2>6 DEF DeleteHeldNode, LeftAlone, TypeOK
    <3> QED BY <1>b, <2>6, <3>1 DEF DeleteHeldNode
  <2> QED BY <1>4, <2>1, <2>2, <2>3, <2>4, <2>5, <2>6 DEF CleanupWorkerStep
<1>5. ASSUME NEW p \in Pools, NEW n \in Nodes, DeletedNodeWorkerStep(p, n)
      PROVE  PromisesKept'
  <2>1. /\ \/ nodeLock[n] = Deleter(p) \/ nodeState[n] \in CleanupStates
           \/ nodeAlloc[n] # None /\ ~ReqExists(nodeAlloc[n])
        /\ UNCHANGED <<reqState, reqNodes, phase, verdict, satisfied>>
    BY <1>5 DEF DeletedNodeWorkerStep, DeallocateMissing, StartNodeCleanup, DeleteNode,
       DeleteFails
  <2>2. \A t \in Requests : ~Promised(t, n)
    BY <1>a, <2>1, HolderDistinct DEF LeftAlone, CleanupStates
  <2>3. \A m \in Nodes \ {n} :
           /\ nodeState'[m] = nodeState[m] /\ nodeAlloc'[m] = nodeAlloc[m]
           /\ nodeLock'[m] = nodeLock[m] /\ local'[m] = local[m]
    BY <1>5 DEF DeletedNodeWorkerStep, DeallocateMissing, StartNodeCleanup, DeleteNode,
       DeleteFails, TypeOK
  <2>4. \A t \in Requests, m \in Nodes : Promised(t, m) => LeftAlone(t, m)'
    BY <1>a, <2>2, <2>3 DEF LeftAlone
  <2> QED BY <1>b, <2>1, <2>4
<1>6. CASE ZuulStep
  <2>1. ASSUME NEW r \in Requests, ZuulSubmit(r) \/ ZuulWithdraw(r)
        PROVE  PromisesKept'
    <3>1. /\ UNCHANGED <<nodeState, nodeAlloc, nodeLock, local, phase, verdict, satisfied>>
          /\ \A t \in Requests : /\ reqNodes'[t] \subseteq reqNodes[t]
                                 /\ ReqExists(t)' => reqState[t] # "removed"
      BY <2>1 DEF ZuulSubmit, ZuulWithdraw, RequestRemoved, ReqExists, TypeOK
    <3>2. \A t \in Requests, n \in Nodes : Promised(t, n)' => Promised(t, n)
      BY <1>d, <3>1
    <3> QED BY <1>c, <3>1, <3>2, PromisesFrame
  <2>2. ASSUME NEW r \in Requests, ZuulAccept(r)
        PROVE  PromisesKept'
    <3>1. /\ UNCHANGED <<phase, verdict, satisfied>>
          /\ reqNodes'[r] = {} /\ ~ReqExists(r)'
          /\ \A t \in Requests : /\ reqNodes'[t] \subseteq reqNodes[t]
                                 /\ ReqExists(t)' => reqState[t] # "removed"
      BY <2>2 DEF ZuulAccept, RequestRemoved, ReqExists, TypeOK
    <3>2. \A t \in Requests, n \in Nodes : Promised(t, n)' => Promised(t, n)
      BY <1>d, <3>1
    <3>3. ASSUME NEW t \in Requests, NEW n \in Nodes, Promised(t, n)'
          PROVE  n \notin reqNodes[r]
      <4>1. t # r
        BY <3>1, <3>3 DEF Promised
      <4>2. n \in reqNodes[r] => nodeAlloc[n] = r
        BY <1>a DEF Promised, LeftAlone
      <4> QED BY <1>a, <3>2, <3>3, <4>1, <4>2 DEF LeftAlone
    <3>4. ASSUME NEW t \in Requests, NEW n \in Nodes, Promised(t, n)'
          PROVE  LeftAlone(t, n)'
      BY <1>a, <2>2, <3>2, <3>3, <3>4 DEF ZuulAccept, LeftAlone
    <3> QED BY <3>4 DEF PromisesKept
  <2>3. ASSUME NEW n \in Nodes, ZuulReturn(n)
        PROVE  PromisesKept'
    <3>1. \A t \in Requests : ~Promised(t, n)
      BY <1>a, <2>3, ConstantsAssumption DEF ZuulReturn, LeftAlone
    <3>2. \A t \in Requests, m \in Nodes : Promised(t, m) => LeftAlone(t, m)'
      BY <1>a, <2>3, <3>1 DEF ZuulReturn, LeftAlone, TypeOK
    <3> QED BY <1>b, <2>3, <3>2 DEF ZuulReturn
  <2> QED BY <1>6, <2>1, <2>2, <2>3 DEF ZuulStep
<1>7. ASSUME NEW p \in Pools, Crash(p)
      PROVE  PromisesKept'
  <2>1. \A t \in Requests : /\ reqNodes'[t] \subseteq reqNodes[t]
                            /\ ReqExists(t)' => reqState[t] # "removed"
    BY <1>7 DEF Crash, ReqExists, TypeOK
  <2>2. \A q \in Pools, t \in Requests : phase'[q][t] = "storing" =>
           /\ phase[q][t] = "storing" /\ verdict'[q][t] = verdict[q][t]
           /\ satisfied'[q][t] = satisfied[q][t]
    BY <1>7 DEF Crash, TypeOK
  <2>3. \A t \in Requests, n \in Nodes : Promised(t, n)' => Promised(t, n)
    BY <2>1, <2>2, NoNewPromise
  <2>4. \A t \in Requests, n \in Nodes : Promised(t, n) => LeftAlone(t, n)'
    BY <1>7, <1>a DEF Crash, LeftAlone
  <2> QED BY <2>3, <2>4, PromisesFrame
<1>8. ASSUME NEW p \in Pools, Restart(p)
      PROVE  PromisesKept'
  BY <1>8, <1>b, <1>c DEF Restart
<1>9. CASE UNCHANGED vars
  BY <1>9, <1>b, <1>c DEF vars
<1> QED BY <1>1, <1>2, <1>3, <1>4, <1>5, <1>6, <1>7, <1>8, <1>9 DEF Next
----------------------------------------------------------------------------
(* Counts *)

(* A handler that has found no nodes counts right, whatever it does. *)
LEMMA NothingFound ==
    ASSUME NEW p \in Pools, NEW r \in Requests, satisfied'[p][r] = {},
           phase'[p][r] \notin {"launching", "storing"}
    PROVE  Counted(p, r)'
<1>1. IsFiniteSet({}) /\ Cardinality({}) = 0 /\ Wants[r] \in Nat \ {0}
  BY FS_EmptySet, ConstantsAssumption
<1> QED BY <1>1 DEF Counted, Needs

(* Where one handler moves, the others still count right. *)
LEMMA CountMoves ==
    ASSUME CountInv, NEW p \in Pools, NEW r \in Requests, Counted(p, r)',
           \A q \in Pools, t \in Requests : q # p \/ t # r =>
              /\ phase'[q][t] = phase[q][t] /\ verdict'[q][t] = verdict[q][t]
              /\ satisfied'[q][t] = satisfied[q][t]
              /\ creating'[q] # None /\ phase[q][t] = "filling" => creating[q] # None,
           \A t \in Requests : reqState'[t] = "FULFILLED" =>
              reqState[t] = "FULFILLED" /\ reqNodes'[t] = reqNodes[t]
    PROVE  CountInv'
<1>1. ASSUME NEW q \in Pools, NEW t \in Requests, q # p \/ t # r
      PROVE  Counted(q, t)'
  BY <1>1 DEF CountInv, Counted, Needs
<1> QED BY <1>1 DEF CountInv

(* Where none does, they all do. *)
LEMMA CountFrame ==
    ASSUME CountInv, UNCHANGED <<phase, verdict, satisfied, creating>>,
           \A t \in Requests : reqState'[t] = "FULFILLED" =>
              reqState[t] = "FULFILLED" /\ reqNodes'[t] = reqNodes[t]
    PROVE  CountInv'
BY DEF CountInv, Counted, Needs

(* A node is added only where one is needed, and the handler goes on only  *)
(* when none is.                                                           *)
LEMMA CountStep ==
    TypeOK /\ OwnersInv /\ CreatingInv /\ ClaimsInv /\ CountInv /\ [Next]_vars => CountInv'
<1> SUFFICES ASSUME TypeOK, OwnersInv, CreatingInv, ClaimsInv, CountInv, [Next]_vars
             PROVE  CountInv'
  OBVIOUS
<1> USE DEF zkNode, zkReq, handler, cleanup, bounds
<1>0. ASSUME UNCHANGED <<phase, verdict, satisfied, creating, reqState, reqNodes>>
      PROVE  CountInv'
  BY <1>0, CountFrame
<1>1. ASSUME NEW p \in Pools, NEW r \in Requests, PoolWorkerStep(p, r)
      PROVE  CountInv'
  <2>0. /\ Counted(p, r) /\ Cardinality(satisfied[p][r]) \in Nat
        /\ Wants[r] \in Nat \ {0}
    BY FS_CardinalityType, ConstantsAssumption DEF CountInv, Counted
  <2>a. Idle(p) => creating[p] = None
    BY DEF Idle, CreatingInv
  \* moves that find or drop no node
  <2>1. ASSUME NEW s \in Phases, phase' = [phase EXCEPT ![p][r] = s],
               UNCHANGED <<verdict, satisfied, creating, reqNodes>>,
               \A t \in Requests : reqState'[t] = "FULFILLED" => reqState[t] = "FULFILLED",
               s = "granted" => Needs(p, r),
               s = "filling" => creating[p] = None,
               s = "launching" => ~Needs(p, r),
               s # "storing"
        PROVE  CountInv'
    <3>1. Counted(p, r)'
      BY <2>0, <2>1 DEF Counted, Needs, TypeOK
    <3>2. \A q \in Pools, t \in Requests : q # p \/ t # r => phase'[q][t] = phase[q][t]
      BY <2>1 DEF TypeOK
    <3> QED BY <2>1, <3>1, <3>2, CountMoves
  <2>2. CASE AcceptRequest(p, r)
    <3>1. \A t \in Requests : reqState'[t] = "FULFILLED" => reqState[t] = "FULFILLED"
      BY <2>2 DEF AcceptRequest, TypeOK
    <3> QED BY <2>1, <2>2, <2>a, <3>1 DEF AcceptRequest, Phases
  <2>3. CASE DeclineOnArrival(p, r)
    BY <2>3, CountFrame DEF DeclineOnArrival, DeclinedState, TypeOK
  <2>4. CASE RetryPaused(p, r)
    BY <2>1, <2>4, <2>a DEF RetryPaused, Phases
  <2>5. CASE GrantQuota(p, r)
    BY <2>1, <2>5 DEF GrantQuota, Phases
  <2>6. CASE NodeSetFilled(p, r)
    BY <2>1, <2>6 DEF NodeSetFilled, Phases
  <2>7. CASE PauseHandler(p, r)
    <3>1. /\ phase' = [phase EXCEPT ![p][r] = "paused"]
             \/ phase' = [phase EXCEPT ![p][r] = "releasing"]
          /\ UNCHANGED <<verdict, satisfied, creating, reqNodes, reqState>>
      BY <2>7 DEF PauseHandler
    <3> QED BY <2>1, <3>1 DEF Phases
  <2>8. ASSUME NEW n \in Nodes, CreateNode(p, r, n)
        PROVE  CountInv'
    <3>1. Counted(p, r)'
      BY <2>0, <2>8 DEF CreateNode, Counted, Needs, TypeOK
    <3>2. \A q \in Pools, t \in Requests : q # p \/ t # r =>
             /\ phase'[q][t] = phase[q][t]
             /\ creating'[q] # None /\ phase[q][t] = "filling" => creating[q] # None
      BY <2>8 DEF CreateNode, OwnersInv, Busy, TypeOK
    <3> QED BY <2>8, <3>1, <3>2, CountMoves DEF CreateNode
  <2>9. ASSUME NEW n \in Nodes, ReuseNode(p, r, n) \/ LockNewNode(p, r, n)
        PROVE  CountInv'
    <3>1. Needs(p, r) /\ creating'[p] = None /\ phase'[p][r] = "filling"
      BY <2>0, <2>9, ConstantsAssumption
         DEF ReuseNode, LockNewNode, Filling, Counted, TypeOK
    <3>2. satisfied'[p][r] = satisfied[p][r] \cup {n}
      BY <2>9 DEF ReuseNode, LockNewNode, TypeOK
    <3>3. /\ IsFiniteSet(satisfied[p][r] \cup {n})
          /\ Cardinality(satisfied[p][r] \cup {n}) <= Cardinality(satisfied[p][r]) + 1
      <4>1. IsFiniteSet(satisfied[p][r])
        BY <2>0 DEF Counted
      <4>2. /\ IsFiniteSet(satisfied[p][r] \cup {n})
            /\ Cardinality(satisfied[p][r] \cup {n}) =
                  IF n \in satisfied[p][r] THEN Cardinality(satisfied[p][r])
                  ELSE Cardinality(satisfied[p][r]) + 1
        BY <4>1, FS_AddElement
      <4> QED BY <2>0, <4>2
    <3>4. Counted(p, r)'
      <4>1. Cardinality(satisfied[p][r] \cup {n}) \in Nat
        BY <3>3, FS_CardinalityType
      <4> QED BY <2>0, <3>1, <3>2, <3>3, <4>1 DEF Counted, Needs
    <3>5. \A q \in Pools, t \in Requests : q # p \/ t # r =>
             /\ satisfied'[q][t] = satisfied[q][t]
             /\ creating'[q] # None => creating[q] # None
      BY <2>9 DEF ReuseNode, LockNewNode, TypeOK
    <3> QED BY <2>9, <3>4, <3>5, CountMoves DEF ReuseNode, LockNewNode
  \* the handler ends, or its request is gone
  <2>10. ASSUME NEW s \in {"none", "popped"}, phase' = [phase EXCEPT ![p][r] = s],
                satisfied' = [satisfied EXCEPT ![p][r] = {}],
                verdict' = [verdict EXCEPT ![p][r] = "absent"] \/ UNCHANGED verdict,
                UNCHANGED creating,
                \A t \in Requests : reqState'[t] = "FULFILLED" =>
                   reqState[t] = "FULFILLED" /\ reqNodes'[t] = reqNodes[t]
         PROVE  CountInv'
    <3>1. Counted(p, r)'
      BY <2>10, NothingFound DEF TypeOK
    <3>2. \A q \in Pools, t \in Requests : q # p \/ t # r =>
             /\ phase'[q][t] = phase[q][t] /\ verdict'[q][t] = verdict[q][t]
             /\ satisfied'[q][t] = satisfied[q][t]
      BY <2>10 DEF TypeOK
    <3> QED BY <2>10, <3>1, <3>2, CountMoves
  <2>11. ASSUME NEW s, s # "FULFILLED", NEW d, DeclinedHandlerCleanup(p, r, s, d),
                UNCHANGED creating
         PROVE  CountInv'
    <3>1. \A t \in Requests : reqState'[t] = "FULFILLED" =>
             reqState[t] = "FULFILLED" /\ reqNodes'[t] = reqNodes[t]
      BY <2>11 DEF DeclinedHandlerCleanup, TypeOK
    <3> QED BY <2>10, <2>11, <3>1 DEF DeclinedHandlerCleanup, DropHandler
  <2>12. CASE DeclinePaused(p, r) \/ DeclineMinReady(p, r)
    <3>1. DeclinedState(p, r) # "FULFILLED"
      BY DEF DeclinedState
    <3> QED BY <2>11, <2>12, <3>1 DEF DeclinePaused, DeclineMinReady, declineRequest
  <2>13. CASE ReleaseAtQuota(p, r)
    <3>1. reqState[r] # "FULFILLED"
      BY <2>13 DEF ReleaseAtQuota, OwnersInv
    <3> QED BY <2>11, <2>13, <3>1 DEF ReleaseAtQuota
  <2>14. CASE PollRequestGone(p, r)
    BY <2>10, <2>14 DEF PollRequestGone, DropHandler
  <2>15. CASE PollStoreRaises(p, r)
    BY <2>10, <2>15 DEF PollStoreRaises
  <2>16. CASE PollDecide(p, r)
    <3>1. Counted(p, r)'
      BY <2>0, <2>16 DEF PollDecide, LaunchesComplete, Counted, Needs, TypeOK
    <3>2. \A q \in Pools, t \in Requests : q # p \/ t # r =>
             phase'[q][t] = phase[q][t] /\ verdict'[q][t] = verdict[q][t]
      BY <2>16 DEF PollDecide, TypeOK
    <3> QED BY <2>16, <3>1, <3>2, CountMoves DEF PollDecide
  <2>17. CASE PollAborted(p, r)
    <3>1. /\ phase'[p][r] = "paused"
          /\ satisfied'[p][r] \in SUBSET satisfied[p][r]
      BY <2>17 DEF PollAborted, TypeOK
    <3>2. /\ IsFiniteSet(satisfied'[p][r])
          /\ Cardinality(satisfied'[p][r]) <= Cardinality(satisfied[p][r])
      BY <2>0, <3>1, FS_Subset DEF Counted
    <3>3. Counted(p, r)'
      <4>1. Cardinality(satisfied'[p][r]) \in Nat
        BY <3>2, FS_CardinalityType
      <4> QED BY <2>0, <3>1, <3>2, <4>1 DEF Counted
    <3>4. \A q \in Pools, t \in Requests : q # p \/ t # r =>
             phase'[q][t] = phase[q][t] /\ satisfied'[q][t] = satisfied[q][t]
      BY <2>17 DEF PollAborted, TypeOK
    <3> QED BY <2>17, <3>3, <3>4, CountMoves DEF PollAborted
  <2>18. CASE PollStore(p, r)
    <3>1. /\ phase' = [phase EXCEPT ![p][r] = "none"]
          /\ satisfied' = [satisfied EXCEPT ![p][r] = {}]
          /\ verdict' = [verdict EXCEPT ![p][r] = "absent"]
          /\ UNCHANGED creating
      BY <2>18 DEF PollStore, DropHandler
    <3>2. Counted(p, r)'
      BY <3>1, NothingFound DEF TypeOK
    <3>3. \A q \in Pools, t \in Requests : q # p \/ t # r => Counted(q, t)'
      <4>1. \A q \in Pools, t \in Requests : q # p \/ t # r =>
               /\ phase'[q][t] = phase[q][t] /\ verdict'[q][t] = verdict[q][t]
               /\ satisfied'[q][t] = satisfied[q][t]
        BY <3>1 DEF TypeOK
      <4> QED BY <3>1, <4>1 DEF CountInv, Counted, Needs
    <3>4. ASSUME NEW t \in Requests, reqState'[t] = "FULFILLED"
          PROVE  Cardinality(reqNodes'[t]) = Wants[t]
      <4>1. CASE t # r
        BY <2>18, <3>4, <4>1 DEF PollStore, CountInv, TypeOK
      <4>2. CASE t = r
        <5>1. verdict[p][r] = "FULFILLED" /\ reqNodes'[r] = satisfied[p][r]
          BY <2>18, <3>4, <4>2 DEF PollStore, TypeOK
        <5>2. ~Needs(p, r)
          BY <2>0, <2>18, <5>1 DEF PollStore, Counted
        <5> QED BY <2>0, <4>2, <5>1, <5>2 DEF Counted, Needs
      <4> QED BY <4>1, <4>2
    <3> QED BY <3>2, <3>3, <3>4 DEF CountInv
  <2> QED BY <1>1, <2>2, <2>3, <2>4, <2>5, <2>6, <2>7, <2>8, <2>9, <2>12, <2>13, <2>14,
             <2>15, <2>16, <2>17, <2>18 DEF PoolWorkerStep
<1>2. ASSUME NEW p \in Pools, NEW r \in Requests, NodePoolStep(p, r)
      PROVE  CountInv'
  BY <1>2, CountFrame DEF NodePoolStep, createMinReady, removeCompletedRequests,
     RequestRemoved, TypeOK
<1>3. ASSUME NEW n \in Nodes, LauncherStep(n)
      PROVE  CountInv'
  BY <1>0, <1>3 DEF LauncherStep, LaunchReady, LaunchFailed, LaunchAborted
<1>4. ASSUME NEW p \in Pools, CleanupWorkerStep(p)
      PROVE  CountInv'
  <2>1. ASSUME NEW r \in Requests, ResetLostRequest(p, r)
        PROVE  CountInv'
    BY <2>1, CountFrame DEF ResetLostRequest, TypeOK
  <2>2. ASSUME NEW r \in Requests, LockLostRequest(p, r)
        PROVE  CountInv'
    BY <1>0, <2>2 DEF LockLostRequest
  <2>3. CASE ListAgedNodes(p)
    BY <1>0, <2>3 DEF ListAgedNodes
  <2>4. ASSUME NEW n \in Nodes,
               DeallocateLost(p, n) \/ DeleteAgedNode(p, n) \/ DeleteHeldNode(p, n)
        PROVE  CountInv'
    BY <1>0, <2>4 DEF DeallocateLost, DeleteAgedNode, DeleteHeldNode
  <2> QED BY <1>4, <2>1, <2>2, <2>3, <2>4 DEF CleanupWorkerStep
<1>5. ASSUME NEW p \in Pools, NEW n \in Nodes, DeletedNodeWorkerStep(p, n)
      PROVE  CountInv'
  BY <1>0, <1>5 DEF DeletedNodeWorkerStep, DeallocateMissing, StartNodeCleanup,
     DeleteNode, DeleteFails
<1>6. CASE ZuulStep
  <2>1. ASSUME NEW r \in Requests, ZuulSubmit(r) \/ ZuulWithdraw(r) \/ ZuulAccept(r)
        PROVE  CountInv'
    BY <2>1, CountFrame DEF ZuulSubmit, ZuulWithdraw, ZuulAccept, RequestRemoved, TypeOK
  <2>2. ASSUME NEW n \in Nodes, ZuulReturn(n)
        PROVE  CountInv'
    BY <1>0, <2>2 DEF ZuulReturn
  <2> QED BY <1>6, <2>1, <2>2 DEF ZuulStep
<1>7. ASSUME NEW p \in Pools, Crash(p)
      PROVE  CountInv'
  <2>1. ASSUME NEW r \in Requests PROVE Counted(p, r)'
    BY <1>7, NothingFound DEF Crash, TypeOK
  <2>2. ASSUME NEW q \in Pools, NEW r \in Requests, q # p PROVE Counted(q, r)'
    BY <1>7, <2>2 DEF Crash, CountInv, Counted, Needs, TypeOK
  <2>3. \A r \in Requests : reqState'[r] = "FULFILLED" =>
           reqState[r] = "FULFILLED" /\ reqNodes'[r] = reqNodes[r]
    BY <1>7 DEF Crash, TypeOK
  <2> QED BY <2>1, <2>2, <2>3 DEF CountInv
<1>8. ASSUME NEW p \in Pools, Restart(p)
      PROVE  CountInv'
  BY <1>0, <1>8 DEF Restart
<1>9. CASE UNCHANGED vars
  BY <1>0, <1>9 DEF vars
<1> QED BY <1>1, <1>2, <1>3, <1>4, <1>5, <1>6, <1>7, <1>8, <1>9 DEF Next
----------------------------------------------------------------------------
(* What the runs check, for any constants *)

(* A request that exists is never left locked by a launcher that has       *)
(* nothing to do with it any more: every way out of a handler or of the    *)
(* cleanup releases the lock or finds the request gone.                    *)
THEOREM RequestsNotForgotten == Spec => []HeldRequestHandled
<1>1. Init => SafetyInv /\ HeldInv
  BY HeldInit, SafetyInit
<1>2. SafetyInv /\ HeldInv /\ [Next]_vars => HeldInv'
  BY HeldStep DEF SafetyInv
<1>3. HeldInv => HeldRequestHandled
  BY DEF HeldInv
<1> QED BY <1>1, <1>2, <1>3, SafetyInvariance, PTL DEF Spec

(* Without max-ready-age no node is aged, promises are kept and nodes are     *)
(* counted right, by induction along with SafetyInv.                       *)
LEMMA DeliveryInvariance ==
    ASSUME MaxReadyAge = FALSE
    PROVE  Spec => [](PromisesKept /\ CountInv)
<1>1. Init => SafetyInv
  BY SafetyInit
<1>2. SafetyInv /\ NoAgingInv /\ [Next]_vars => NoAgingInv'
  <2> SUFFICES ASSUME TypeOK, NoAgingInv, [Next]_vars PROVE NoAgingInv'
    BY DEF SafetyInv
  <2> USE DEF zkNode, zkReq, handler, cleanup, bounds
  <2>1. CASE UNCHANGED aging
    BY <2>1 DEF NoAgingInv
  <2>2. ASSUME NEW p \in Pools, CleanupWorkerStep(p) PROVE NoAgingInv'
    BY <2>1, <2>2 DEF CleanupWorkerStep, LockLostRequest, ResetLostRequest, ListAgedNodes,
       DeallocateLost, DeleteAgedNode, DeleteHeldNode, NoAgingInv
  <2>3. ASSUME NEW p \in Pools, Crash(p) PROVE NoAgingInv'
    BY <2>3 DEF Crash, NoAgingInv, TypeOK
  <2>4. ASSUME NEW p \in Pools, NEW r \in Requests, PoolWorkerStep(p, r) PROVE NoAgingInv'
    BY <2>1, <2>4 DEF PoolWorkerStep, AcceptRequest, DeclineOnArrival, RetryPaused,
       DeclinePaused, ReuseNode, CreateNode, LockNewNode, GrantQuota, NodeSetFilled,
       PauseHandler, DeclineMinReady, ReleaseAtQuota, PollRequestGone, PollDecide,
       PollAborted, PollStore, PollStoreRaises
  <2> QED BY <2>1, <2>2, <2>3, <2>4
       DEF Next, NodePoolStep, createMinReady, removeCompletedRequests, LauncherStep,
       LaunchReady, LaunchFailed, LaunchAborted, DeletedNodeWorkerStep, DeallocateMissing,
       StartNodeCleanup, DeleteNode, DeleteFails, ZuulStep, ZuulSubmit, ZuulWithdraw,
       ZuulAccept, ZuulReturn, Restart, vars
<1>3. SafetyInv /\ GatheredInv /\ NoAgingInv /\ PromisesKept /\ [Next]_vars => PromisesKept'
  BY PromisesStep DEF SafetyInv
<1>4. SafetyInv /\ CountInv /\ [Next]_vars => CountInv'
  BY CountStep DEF SafetyInv
<1>5. SafetyInv /\ GatheredInv /\ [Next]_vars => GatheredInv'
  BY GatheredStep DEF SafetyInv
<1>6. Init => GatheredInv
  BY DEF Init, GatheredInv
<1> QED BY <1>1, <1>2, <1>3, <1>4, <1>5, <1>6, PromisesInit, SafetyInvariance, PTL DEF Spec

(* A fulfilled request has the nodes it asked for, all READY and allocated *)
(* to it, until the requestor answers: poll() unlocks them before it       *)
(* stores the request, and nothing takes them in between or later.         *)
THEOREM FulfilledDelivered ==
    ASSUME MaxReadyAge = FALSE
    PROVE  Spec => []FulfilledNodesReady
<1>1. TypeOK /\ PromisesKept /\ CountInv => FulfilledNodesReady
  <2> SUFFICES ASSUME PromisesKept, CountInv, TypeOK, NEW r \in Requests,
                      reqState[r] = "FULFILLED", NEW n \in reqNodes[r]
               PROVE  nodeState[n] = "READY" /\ nodeAlloc[n] = r
    BY DEF FulfilledNodesReady, CountInv
  <2> QED BY DEF PromisesKept, Promised, LeftAlone, TypeOK
<1> QED BY <1>1, DeliveryInvariance, TypeCorrect, PTL

(* The nodes of a fulfilled min-ready request are unlocked and READY when  *)
(* removeCompletedRequests writes them, so its write without their locks   *)
(* overwrites nobody's.                                                    *)
THEOREM MinReadyWritable ==
    ASSUME MaxReadyAge = FALSE
    PROVE  Spec => []MinReadyNodesUnlocked
<1>1. TypeOK /\ PromisesKept => MinReadyNodesUnlocked
  BY ConstantsAssumption DEF MinReadyNodesUnlocked, PromisesKept, Promised, LeftAlone, TypeOK
<1> QED BY <1>1, DeliveryInvariance, TypeCorrect, PTL
=============================================================================
