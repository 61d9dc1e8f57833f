---------------------------- MODULE LauncherProofs ----------------------------
(***************************************************************************)
(* That a request is never taken twice, and fails only if no pool can      *)
(* serve it, for any pools, requests, configurations and limits; and what  *)
(* TreeCacheProofs shows of the cache, for the behaviours of both that the *)
(* model has.                                                              *)
(*                                                                         *)
(* The first rests on the lock: who works on a request holds it, and the   *)
(* request is pending.  The second on what declined_by says of a pool,     *)
(* which stays true because a pool's configuration does.                   *)
(***************************************************************************)
EXTENDS MCLauncher, FiniteSetTheorems, TLAPS

WorkerHoldsLock ==
    \A r \in Requests, p \in Pools :
        work[r][p] # "none" => state[r] = "pending" /\ holder[r] = p

HeldIsPending == \A r \in Requests : holder[r] # None => state[r] = "pending"

DeclinedCannot == \A r \in Requests, p \in Pools : p \in declined[r] => Declines(p, r)

IInv == RequestsTyped /\ WorkerHoldsLock /\ HeldIsPending /\ DeclinedCannot

(* The invariant holds at first: no request has been submitted.            *)
LEMMA InitIInv == Init => IInv
  BY PoolsAssumption DEF Init, IInv, RequestsTyped, WorkerHoldsLock, HeldIsPending, DeclinedCannot

(* Every step keeps the invariant: the lock is given where the request     *)
(* becomes pending, and taken back where it no longer is.                  *)
LEMMA StepIInv == IInv /\ [Next]_vars => IInv'
<1> SUFFICES ASSUME IInv, [Next]_vars PROVE IInv'
  OBVIOUS
<1> USE PoolsAssumption DEF IInv, RequestsTyped, WorkerHoldsLock, HeldIsPending, DeclinedCannot
<1>1. ASSUME NEW r \in Requests, Submit(r) PROVE IInv'
  BY <1>1 DEF Submit, Declines, Serves
<1>2. ASSUME NEW p \in Pools, BeginLoop(p) PROVE IInv'
  BY <1>2 DEF BeginLoop, Paused, Declines, Serves
<1>3. ASSUME NEW p \in Pools, NEW r \in Requests, PassOver(p, r) \/ Choose(p, r) \/ GiveUp(p, r)
      PROVE IInv'
  BY <1>3 DEF PassOver, Choose, GiveUp, Declines, Serves
<1>4. ASSUME NEW p \in Pools, NEW r \in Requests, Take(p, r) PROVE IInv'
  <2>1. /\ holder[r] = None /\ state' = [state EXCEPT ![r] = "pending"]
        /\ holder' = [holder EXCEPT ![r] = p]
        /\ UNCHANGED <<conf, declined>>
    BY <1>4 DEF Take, StillWanted
  <2>2. PICK s \in {"paused", "launching"} : work' = [work EXCEPT ![r][p] = s]
    BY <1>4 DEF Take
  <2>3. node' \in [Requests -> Pools \cup {None}]
    <3>1. node' = node \/ node' = [node EXCEPT ![r] = p]
      BY <1>4 DEF Take
    <3>2. QED
      BY <3>1
  <2>4. RequestsTyped'
    BY <2>1, <2>2, <2>3
  <2>5. WorkerHoldsLock'
    <3> SUFFICES ASSUME NEW q \in Requests, NEW o \in Pools, work'[q][o] # "none"
                 PROVE  state'[q] = "pending" /\ holder'[q] = o
      OBVIOUS
    <3>1. CASE q = r
      <4>1. work[r][o] = "none"
        BY <2>1
      <4>2. o = p
        BY <3>1, <4>1, <2>2
      <4>3. QED
        BY <3>1, <4>2, <2>1
    <3>2. CASE q # r
      BY <3>2, <2>1, <2>2
    <3>3. QED
      BY <3>1, <3>2
  <2>6. HeldIsPending' /\ DeclinedCannot'
    BY <2>1 DEF Declines, Serves
  <2>7. QED
    BY <2>4, <2>5, <2>6
<1>5. ASSUME NEW p \in Pools, NEW r \in Requests, Decline(p, r) PROVE IInv'
  BY <1>5 DEF Decline, StillWanted, Declines, Serves
<1>6. ASSUME NEW p \in Pools, EndLoop(p) PROVE IInv'
  BY <1>6 DEF EndLoop, Declines, Serves
<1>7. ASSUME NEW p \in Pools, NEW r \in Requests, LaunchComplete(p, r) PROVE IInv'
  BY <1>7 DEF LaunchComplete, Declines, Serves
<1>8. ASSUME NEW r \in Requests, ZuulReturns(r) PROVE IInv'
  BY <1>8 DEF ZuulReturns, Declines, Serves
<1>9. ASSUME NEW p \in Pools, Join(p) PROVE IInv'
  BY <1>9 DEF Join, Declines, Serves
<1>10. ASSUME NEW p \in Pools, Stop(p) PROVE IInv'
  BY <1>10 DEF Stop, Declines, Serves
<1>11. CASE UNCHANGED vars
  BY <1>11 DEF vars, loopVars, Declines, Serves
<1>12. QED
  BY <1>1, <1>2, <1>3, <1>4, <1>5, <1>6, <1>7, <1>8, <1>9, <1>10, <1>11 DEF Next, LoopStep

(* What is concluded stays so in every step from a state of the invariant: *)
(* an action that changes what a request is takes it from another state.   *)
LEMMA StepDone == IInv /\ [Next]_vars => \A r \in Requests : Done(r) => Done(r)'
<1> SUFFICES ASSUME IInv, [Next]_vars, NEW q \in Requests, Done(q) PROVE Done(q)'
  OBVIOUS
<1> USE DEF IInv, RequestsTyped, WorkerHoldsLock, HeldIsPending, Done
<1>1. ASSUME NEW p \in Pools, NEW r \in Requests, Take(p, r) \/ Decline(p, r) PROVE Done(q)'
  BY <1>1 DEF Take, Decline, StillWanted
<1>2. ASSUME NEW p \in Pools, EndLoop(p) PROVE Done(q)'
  BY <1>2 DEF EndLoop
<1>3. ASSUME NEW p \in Pools, Stop(p) PROVE Done(q)'
  <2>1. holder[q] # p
    BY PoolsAssumption
  <2>2. QED
    BY <1>3, <2>1 DEF Stop
<1>4. ASSUME NEW r \in Requests, Submit(r) \/ ZuulReturns(r) PROVE Done(q)'
  BY <1>4 DEF Submit, ZuulReturns
<1>5. ASSUME NEW p \in Pools, BeginLoop(p) \/ Join(p) PROVE Done(q)'
  BY <1>5 DEF BeginLoop, Join
<1>6. ASSUME NEW p \in Pools, NEW r \in Requests,
             PassOver(p, r) \/ Choose(p, r) \/ GiveUp(p, r) \/ LaunchComplete(p, r)
      PROVE Done(q)'
  BY <1>6 DEF PassOver, Choose, GiveUp, LaunchComplete
<1>7. CASE UNCHANGED vars
  BY <1>7 DEF vars
<1>8. QED
  BY <1>1, <1>2, <1>3, <1>4, <1>5, <1>6, <1>7 DEF Next, LoopStep

(* Two pools that work on a request would both be its lock's holder.       *)
LEMMA OneWorker ==
    IInv' => \A r \in Requests : \A p, q \in Pools :
                 work'[r][p] # "none" /\ work'[r][q] # "none" => p = q
  BY DEF IInv, WorkerHoldsLock

(* A request fails in a decline, which sees every pool that is online in   *)
(* declined_by, with itself.                                               *)
LEMMA StepFails ==
    IInv /\ [Next]_vars =>
        \A r \in Requests : state[r] # "failed" /\ state'[r] = "failed" =>
            \A p \in Online : Declines(p, r)
<1> SUFFICES ASSUME IInv, [Next]_vars, NEW q \in Requests, state[q] # "failed", state'[q] = "failed"
             PROVE  \A o \in Online : Declines(o, q)
  OBVIOUS
<1> USE DEF IInv, RequestsTyped
<1>1. PICK p \in Pools : Decline(p, q)
  <2>1. ASSUME NEW p \in Pools, NEW r \in Requests, Take(p, r) PROVE FALSE
    BY <2>1 DEF Take
  <2>2. ASSUME NEW p \in Pools, NEW r \in Requests, Decline(p, r) PROVE r = q
    BY <2>2 DEF Decline
  <2>3. ASSUME NEW p \in Pools, BeginLoop(p) \/ EndLoop(p) \/ Join(p) \/ Stop(p) PROVE FALSE
    BY <2>3 DEF BeginLoop, EndLoop, Join, Stop
  <2>4. ASSUME NEW r \in Requests, Submit(r) \/ ZuulReturns(r) PROVE FALSE
    BY <2>4 DEF Submit, ZuulReturns
  <2>5. ASSUME NEW p \in Pools, NEW r \in Requests,
               PassOver(p, r) \/ Choose(p, r) \/ GiveUp(p, r) \/ LaunchComplete(p, r)
        PROVE FALSE
    BY <2>5 DEF PassOver, Choose, GiveUp, LaunchComplete
  <2>6. CASE UNCHANGED vars
    BY <2>6 DEF vars
  <2>7. QED
    BY <2>1, <2>2, <2>3, <2>4, <2>5, <2>6 DEF Next, LoopStep
<1>2. declined' = [declined EXCEPT ![q] = @ \cup {p}] /\ Online \subseteq declined'[q]
  BY <1>1 DEF Decline, Everybody
<1>3. Declines(p, q)
  BY <1>1 DEF Decline
<1>4. QED
  BY <1>2, <1>3 DEF Online, DeclinedCannot

(* The invariant holds in every state of every behaviour.                  *)
THEOREM AssignmentInvariant == Spec => []IInv
  BY InitIInv, StepIInv, PTL DEF Spec

(* Whatever pools read before they lock a request, none takes or declines  *)
(* one that is concluded, and no two work on one (the checks that follow   *)
(* lockNodeRequest in _assignHandlers).                                    *)
THEOREM RequestTakenOnce == Spec => TakenOnce
<1>1. IInv /\ IInv' /\ [Next]_vars =>
        \A r \in Requests :
            /\ Done(r) => Done(r)'
            /\ \A p, q \in Pools : work'[r][p] # "none" /\ work'[r][q] # "none" => p = q
  BY StepDone, OneWorker
<1>2. QED
  BY <1>1, AssignmentInvariant, PTL DEF Spec, TakenOnce

(* A request fails only if no pool that is there could have served it,     *)
(* however the pools came and went (declineRequest).                       *)
THEOREM RequestFailsOnlyIfNobodyCan == Spec => FailsOnlyIfNobodyCan
<1>1. IInv /\ [Next]_vars =>
        \A r \in Requests : state[r] # "failed" /\ state'[r] = "failed" =>
            \A p \in Online : Declines(p, r)
  BY StepFails
<1>2. QED
  BY <1>1, AssignmentInvariant, PTL DEF Spec, FailsOnlyIfNobodyCan

-----------------------------------------------------------------------------
(* A pool has as many nodes as it may, and no handler more than one that   *)
(* waits: while there is one, no other request is taken that would be      *)
(* accepted (paused_handlers).                                             *)
UsedFits == \A p \in Pools : Used(p) <= Capacity

OneWaits(p) ==
    /\ \A r, q \in Paused(p) : r = q
    /\ at[p] \in Requests => Paused(p) = {} \/ Declines(p, at[p])

OnePaused == \A p \in Pools : OneWaits(p)

TInv == IInv /\ TypeOK /\ UsedFits /\ OnePaused

NodesOf(p) == {r \in Requests : node[r] = p}

(* How the number of a pool's nodes changes with one request               *)
LEMMA UsedChanges ==
    ASSUME NEW p \in Pools, NEW q
    PROVE  /\ Used(p) \in Nat
           /\ NodesOf(p)' \subseteq NodesOf(p) => Used(p)' \in Nat /\ Used(p)' <= Used(p)
           /\ NodesOf(p)' \subseteq NodesOf(p) \cup {q} =>
                  Used(p)' \in Nat /\ Used(p)' <= Used(p) + 1
<1>1. IsFiniteSet(NodesOf(p)) /\ Used(p) = Cardinality(NodesOf(p))
  BY PoolsAssumption, FS_Subset DEF NodesOf, Used
<1>2. Used(p)' = Cardinality(NodesOf(p)')
  BY DEF NodesOf, Used
<1>3. Used(p) \in Nat
  BY <1>1, FS_CardinalityType
<1>4. ASSUME NodesOf(p)' \subseteq NodesOf(p) PROVE Used(p)' \in Nat /\ Used(p)' <= Used(p)
  BY <1>1, <1>2, <1>4, FS_Subset, FS_CardinalityType
<1>5. ASSUME NodesOf(p)' \subseteq NodesOf(p) \cup {q}
      PROVE  Used(p)' \in Nat /\ Used(p)' <= Used(p) + 1
  <2>1. /\ IsFiniteSet(NodesOf(p) \cup {q})
        /\ Cardinality(NodesOf(p) \cup {q}) <= Used(p) + 1
    BY <1>1, <1>3, FS_AddElement
  <2>2. /\ IsFiniteSet(NodesOf(p)')
        /\ Cardinality(NodesOf(p)') <= Cardinality(NodesOf(p) \cup {q})
    BY <1>5, <2>1, FS_Subset
  <2>3. Cardinality(NodesOf(p)') \in Nat /\ Cardinality(NodesOf(p) \cup {q}) \in Nat
    BY <2>1, <2>2, FS_CardinalityType
  <2>4. QED
    BY <1>2, <1>3, <2>1, <2>2, <2>3
<1>6. QED
  BY <1>3, <1>4, <1>5

(* The limits hold at first: nobody has a node, and no handler waits.      *)
LEMMA InitLimits == Init => TypeOK /\ UsedFits /\ OnePaused
<1> SUFFICES ASSUME Init PROVE TypeOK /\ UsedFits /\ OnePaused
  OBVIOUS
<1>1. RequestsTyped
  BY InitIInv DEF IInv
<1>2. TypeOK
  <2>1. /\ status \in [Pools -> {"off", "on", "stopped"}] /\ shown \in [Pools -> BOOLEAN]
        /\ at \in [Pools -> Requests \cup {"idle", "loop"}]
    BY DEF Init
  <2>2. list \in [Pools -> SUBSET Pools] /\ queue \in [Pools -> SUBSET Requests]
    BY DEF Init
  <2>3. quota \in [Pools -> 0 .. Capacity]
    BY PoolsAssumption DEF Init
  <2>4. QED
    BY <1>1, <2>1, <2>2, <2>3 DEF TypeOK
<1>3. UsedFits
  <2> SUFFICES ASSUME NEW p \in Pools PROVE Used(p) <= Capacity
    BY DEF UsedFits
  <2>1. {r \in Requests : node[r] = p} = {}
    BY PoolsAssumption DEF Init
  <2>2. QED
    BY <2>1, FS_EmptySet, PoolsAssumption DEF Used
<1>4. OnePaused
  BY PoolsAssumption DEF Init, OnePaused, OneWaits, Paused
<1>5. QED
  BY <1>2, <1>3, <1>4

(* The configuration stays as it is.                                       *)
LEMMA ConfStays == ASSUME [Next]_vars PROVE UNCHANGED conf
<1>1. ASSUME NEW p \in Pools, LoopStep(p) PROVE UNCHANGED conf
  BY <1>1 DEF LoopStep, BeginLoop, PassOver, Choose, GiveUp, Take, Decline, EndLoop
<1>2. ASSUME NEW p \in Pools, Join(p) \/ Stop(p) PROVE UNCHANGED conf
  BY <1>2 DEF Join, Stop
<1>3. ASSUME NEW r \in Requests,
             Submit(r) \/ ZuulReturns(r) \/ \E p \in Pools : LaunchComplete(p, r)
      PROVE  UNCHANGED conf
  BY <1>3 DEF Submit, ZuulReturns, LaunchComplete
<1>4. CASE UNCHANGED vars
  BY <1>4 DEF vars
<1>5. QED
  BY <1>1, <1>2, <1>3, <1>4 DEF Next

(* A request comes to be waiting only where it is taken, which none is     *)
(* while another one waits.                                                *)
LEMMA StepOnePaused == ASSUME TInv, [Next]_vars PROVE OnePaused'
<1> USE DEF TInv, IInv, TypeOK, RequestsTyped, OnePaused
<1> SUFFICES ASSUME NEW o \in Pools
             PROVE  OneWaits(o)'
  OBVIOUS
<1>1. UNCHANGED conf
  BY ConfStays
<1>2. OneWaits(o)
  OBVIOUS
<1>3. ASSUME Paused(o)' \subseteq Paused(o),
             at'[o] = at[o] \/ at'[o] \notin Requests
      PROVE  OneWaits(o)'
  BY <1>1, <1>2, <1>3 DEF OneWaits, Declines, Serves
<1>4. ASSUME NEW p \in Pools, BeginLoop(p) \/ EndLoop(p) \/ Stop(p)
      PROVE  Paused(o)' \subseteq Paused(o) /\ (at'[o] = at[o] \/ at'[o] \notin Requests)
  <2>1. at'[o] = at[o] \/ at'[o] \in {"idle", "loop"}
    BY <1>4 DEF BeginLoop, EndLoop, Stop
  <2>2. \A r \in Requests : work'[r][o] = work[r][o] \/ work'[r][o] \in {"none", "launching"}
    <3> SUFFICES ASSUME NEW r \in Requests
                 PROVE  work'[r][o] = work[r][o] \/ work'[r][o] \in {"none", "launching"}
      OBVIOUS
    <3>1. work[r] \in [Pools -> {"none", "paused", "launching", "launched"}]
      OBVIOUS
    <3>2. CASE BeginLoop(p)
      <4>1. work'[r] = work[r] \/ work'[r] = [work[r] EXCEPT ![p] = "launching"]
        BY <3>2 DEF BeginLoop
      <4>2. QED
        BY <3>1, <4>1
    <3>3. CASE EndLoop(p) \/ Stop(p)
      <4>1. work'[r] = work[r] \/ work'[r] = [work[r] EXCEPT ![p] = "none"]
        BY <3>3 DEF EndLoop, Stop
      <4>2. QED
        BY <3>1, <4>1
    <3>4. QED
      BY <1>4, <3>2, <3>3
  <2>3. QED
    BY <2>1, <2>2, PoolsAssumption DEF Paused
<1>5. ASSUME NEW p \in Pools, NEW r \in Requests, PassOver(p, r) \/ GiveUp(p, r) \/ Decline(p, r)
      PROVE  Paused(o)' \subseteq Paused(o) /\ (at'[o] = at[o] \/ at'[o] \notin Requests)
  BY <1>5, PoolsAssumption DEF PassOver, GiveUp, Decline, Paused
<1>6. ASSUME NEW r \in Requests,
             Submit(r) \/ ZuulReturns(r) \/ \E p \in Pools : LaunchComplete(p, r)
      PROVE  Paused(o)' \subseteq Paused(o) /\ (at'[o] = at[o] \/ at'[o] \notin Requests)
  <2>1. at' = at
    BY <1>6 DEF Submit, ZuulReturns, LaunchComplete, loopVars
  <2>2. work' = work \/ \E p \in Pools : work' = [work EXCEPT ![r][p] = "launched"]
    BY <1>6 DEF Submit, ZuulReturns, LaunchComplete
  <2>3. \A q \in Requests : work'[q][o] \in {work[q][o], "launched"}
    <3> SUFFICES ASSUME NEW q \in Requests PROVE work'[q][o] \in {work[q][o], "launched"}
      OBVIOUS
    <3>1. work[q] \in [Pools -> {"none", "paused", "launching", "launched"}]
      OBVIOUS
    <3>2. ASSUME NEW p \in Pools, work' = [work EXCEPT ![r][p] = "launched"]
          PROVE  work'[q][o] \in {work[q][o], "launched"}
      <4>1. work'[q] = work[q] \/ work'[q] = [work[q] EXCEPT ![p] = "launched"]
        BY <3>2
      <4>2. QED
        BY <3>1, <4>1
    <3>3. QED
      BY <2>2, <3>2
  <2>4. QED
    BY <2>1, <2>3 DEF Paused
<1>7. ASSUME NEW p \in Pools, Join(p)
      PROVE  Paused(o)' \subseteq Paused(o) /\ (at'[o] = at[o] \/ at'[o] \notin Requests)
  BY <1>7 DEF Join, Paused, loopVars
<1>8. ASSUME NEW p \in Pools, NEW r \in Requests, Choose(p, r)
      PROVE  OneWaits(o)'
  <2>1. Paused(o)' = Paused(o) /\ at' = [at EXCEPT ![p] = r]
    BY <1>8 DEF Choose, Paused
  <2>2. Paused(p) = {} \/ Declines(p, r)
    BY <1>8 DEF Choose, PassesOver, Busy
  <2>3. CASE o = p
    <3>1. Paused(o)' = {} \/ Declines(o, r)
      BY <2>1, <2>2, <2>3
    <3>2. at'[o] = r
      BY <2>1, <2>3
    <3>3. QED
      BY <1>1, <1>2, <2>1, <3>1, <3>2 DEF OneWaits, Declines, Serves
  <2>4. CASE o # p
    <3>1. at'[o] = at[o]
      BY <2>1, <2>4
    <3>2. QED
      BY <1>3, <2>1, <3>1
  <2>5. QED
    BY <2>3, <2>4
<1>9. ASSUME NEW p \in Pools, NEW r \in Requests, Take(p, r)
      PROVE  OneWaits(o)'
  <2>1. at[p] = r /\ ~Declines(p, r) /\ at' = [at EXCEPT ![p] = "loop"]
    BY <1>9 DEF Take
  <2>2. PICK s \in {"paused", "launching"} : work' = [work EXCEPT ![r][p] = s]
    BY <1>9 DEF Take
  <2>3. CASE o = p
    <3>1. Paused(p) = {} /\ at'[p] \notin Requests
      BY <1>2, <2>1, <2>3, PoolsAssumption DEF OneWaits
    <3>2. Paused(p)' \subseteq {r}
      BY <2>2, <3>1 DEF Paused
    <3>3. QED
      BY <2>3, <3>1, <3>2 DEF OneWaits
  <2>4. CASE o # p
    <3>1. Paused(o)' = Paused(o) /\ at'[o] = at[o]
      BY <2>1, <2>2, <2>4 DEF Paused
    <3>2. QED
      BY <1>3, <3>1
  <2>5. QED
    BY <2>3, <2>4
<1>10. CASE UNCHANGED vars
  BY <1>3, <1>10 DEF vars, loopVars, Paused
<1>11. QED
  BY <1>3, <1>4, <1>5, <1>6, <1>7, <1>8, <1>9, <1>10 DEF Next, LoopStep

(* What a loop finds when it begins: of the handler that waits, if there   *)
(* is one, whether it goes on.                                             *)
LEMMA BeginLoopFits ==
    ASSUME TInv, NEW p \in Pools, BeginLoop(p)
    PROVE  /\ quota' \in [Pools -> 0 .. Capacity]
           /\ Used(p)' <= Capacity
           /\ \A o \in Pools \ {p} : NodesOf(o)' \subseteq NodesOf(o)
<1> USE PoolsAssumption
<1> DEFINE goOn == {r \in Paused(p) : HasRoom(p)}
<1>1. /\ node' = [r \in Requests |-> IF r \in goOn THEN p ELSE node[r]]
      /\ quota' = [quota EXCEPT ![p] = Capacity - Used(p) - Cardinality(goOn)]
  BY DEF BeginLoop
<1>2. \A r, q \in goOn : r = q
  BY DEF TInv, OnePaused, OneWaits
<1>3. /\ quota \in [Pools -> 0 .. Capacity] /\ Used(p) \in Nat /\ Used(p) <= Capacity
  BY UsedChanges DEF TInv, TypeOK, UsedFits
<1>4. goOn \subseteq Requests
  BY DEF Paused
<1>5. \A r \in goOn : HasRoom(p)
  OBVIOUS
<1> HIDE DEF goOn
<1>6. \A o \in Pools \ {p} : NodesOf(o)' \subseteq NodesOf(o)
  BY <1>1 DEF NodesOf
<1>7. CASE goOn = {}
  <2>1. NodesOf(p)' \subseteq NodesOf(p)
    BY <1>1, <1>7 DEF NodesOf
  <2>2. Used(p)' \in Nat /\ Used(p)' <= Used(p)
    BY <2>1, UsedChanges
  <2>3. Used(p)' <= Capacity
    BY <1>3, <2>2
  <2>4. Cardinality(goOn) = 0
    BY <1>7, FS_EmptySet
  <2>5. Capacity - Used(p) - Cardinality(goOn) \in 0 .. Capacity
    BY <1>3, <2>4
  <2>6. QED
    BY <1>1, <1>3, <1>6, <2>3, <2>5
<1>8. CASE goOn # {}
  <2>1. PICK q \in goOn : goOn = {q}
    BY <1>2, <1>8
  <2>2. Used(p) < Capacity
    BY <1>5, <2>1 DEF HasRoom
  <2>3. NodesOf(p)' \subseteq NodesOf(p) \cup {q}
    BY <1>1, <2>1 DEF NodesOf
  <2>4. Used(p)' \in Nat /\ Used(p)' <= Used(p) + 1
    BY <2>3, UsedChanges
  <2>5. Used(p)' <= Capacity
    BY <1>3, <2>2, <2>4
  <2>6. Cardinality(goOn) = 1
    BY <2>1, FS_Singleton
  <2>7. Capacity - Used(p) - Cardinality(goOn) \in 0 .. Capacity
    BY <1>3, <2>2, <2>6
  <2>8. QED
    BY <1>1, <1>3, <1>6, <2>5, <2>7
<1>9. QED
  BY <1>7, <1>8

(* A pool gets a node where it has room for one.                           *)
LEMMA StepUsedFits == ASSUME TInv, [Next]_vars PROVE UsedFits'
<1> USE PoolsAssumption
<1> SUFFICES ASSUME NEW o \in Pools PROVE Used(o)' <= Capacity
  BY DEF UsedFits
<1>1. Used(o) \in Nat /\ Used(o) <= Capacity
  BY UsedChanges DEF TInv, UsedFits
<1>2. ASSUME NodesOf(o)' \subseteq NodesOf(o) PROVE Used(o)' <= Capacity
  <2>1. Used(o)' \in Nat /\ Used(o)' <= Used(o)
    BY <1>2, UsedChanges
  <2>2. QED
    BY <1>1, <2>1
<1>3. ASSUME NEW p \in Pools, BeginLoop(p) PROVE Used(o)' <= Capacity
  BY <1>2, <1>3, BeginLoopFits
<1>4. ASSUME NEW p \in Pools, NEW r \in Requests, Take(p, r) PROVE Used(o)' <= Capacity
  <2>1. node' = node \/ (HasRoom(p) /\ node' = [node EXCEPT ![r] = p])
    BY <1>4 DEF Take
  <2>2. CASE HasRoom(p) /\ node' = [node EXCEPT ![r] = p] /\ o = p
    <3>1. NodesOf(o)' \subseteq NodesOf(o) \cup {r}
      BY <2>2 DEF NodesOf
    <3>2. Used(o)' \in Nat /\ Used(o)' <= Used(o) + 1
      BY <3>1, UsedChanges
    <3>3. Used(o) < Capacity
      BY <2>2 DEF HasRoom
    <3>4. QED
      BY <1>1, <3>2, <3>3
  <2>3. CASE node' = node \/ o # p
    <3>1. NodesOf(o)' \subseteq NodesOf(o)
      BY <2>1, <2>3 DEF NodesOf, TInv, IInv, RequestsTyped
    <3>2. QED
      BY <1>2, <3>1
  <2>4. QED
    BY <2>1, <2>2, <2>3
<1>5. ASSUME UNCHANGED node PROVE Used(o)' <= Capacity
  BY <1>2, <1>5 DEF NodesOf
<1>6. ASSUME NEW p \in Pools, NEW r \in Requests,
             \/ PassOver(p, r) \/ Choose(p, r) \/ GiveUp(p, r) \/ Decline(p, r)
             \/ LaunchComplete(p, r) \/ Submit(r) \/ EndLoop(p) \/ Join(p)
      PROVE  UNCHANGED node
  BY <1>6 DEF PassOver, Choose, GiveUp, Decline, LaunchComplete, Submit, EndLoop, Join
<1>7. ASSUME NEW r \in Requests, ZuulReturns(r) PROVE Used(o)' <= Capacity
  <2>1. NodesOf(o)' \subseteq NodesOf(o)
    BY <1>7 DEF ZuulReturns, NodesOf, TInv, IInv, RequestsTyped
  <2>2. QED
    BY <1>2, <2>1
<1>8. ASSUME NEW p \in Pools, Stop(p) PROVE Used(o)' <= Capacity
  <2>1. NodesOf(o)' \subseteq NodesOf(o)
    BY <1>8 DEF Stop, NodesOf
  <2>2. QED
    BY <1>2, <2>1
<1>9. ASSUME NEW r \in Requests, Submit(r) PROVE UNCHANGED node
  BY <1>9 DEF Submit
<1>10. ASSUME NEW p \in Pools, EndLoop(p) \/ Join(p) PROVE UNCHANGED node
  BY <1>10 DEF EndLoop, Join
<1>11. CASE UNCHANGED vars
  BY <1>5, <1>11 DEF vars
<1>12. QED
  BY <1>3, <1>4, <1>5, <1>6, <1>7, <1>8, <1>9, <1>10, <1>11 DEF Next, LoopStep

(* The loops keep to their types: a label quota is not used up twice.      *)
LEMMA StepTypeOK == ASSUME TInv, IInv', [Next]_vars PROVE TypeOK'
<1> USE PoolsAssumption DEF TInv, TypeOK
<1>1. RequestsTyped'
  BY DEF IInv
<1>2. ASSUME NEW p \in Pools, BeginLoop(p) PROVE TypeOK'
  <2>1. quota' \in [Pools -> 0 .. Capacity]
    BY <1>2, BeginLoopFits
  <2>2. /\ status' = status /\ at' = [at EXCEPT ![p] = "loop"]
        /\ shown' \in [Pools -> BOOLEAN]
    <3>1. PICK b \in BOOLEAN : shown' = [shown EXCEPT ![p] = b]
      BY <1>2, Zenon DEF BeginLoop
    <3>2. QED
      BY <1>2, <3>1 DEF BeginLoop
  <2>3. list' = [list EXCEPT ![p] = Online] /\ Online \subseteq Pools
    BY <1>2 DEF BeginLoop, Online
  <2>4. queue' \in [Pools -> SUBSET Requests]
    BY <1>2 DEF BeginLoop
  <2>5. QED
    BY <1>1, <2>1, <2>2, <2>3, <2>4
<1>3. ASSUME NEW p \in Pools, NEW r \in Requests,
             PassOver(p, r) \/ Choose(p, r) \/ GiveUp(p, r) \/ Decline(p, r)
      PROVE  TypeOK'
  <2>1. UNCHANGED <<status, shown, list, quota>>
    BY <1>3 DEF PassOver, Choose, GiveUp, Decline
  <2>2. at' \in [Pools -> Requests \cup {"idle", "loop"}]
    BY <1>3 DEF PassOver, Choose, GiveUp, Decline
  <2>3. queue' \in [Pools -> SUBSET Requests]
    <3>1. queue' = queue \/ queue' = [queue EXCEPT ![p] = @ \ {r}]
      BY <1>3 DEF PassOver, Choose, GiveUp, Decline
    <3>2. QED
      BY <3>1
  <2>4. QED
    BY <1>1, <2>1, <2>2, <2>3
<1>4. ASSUME NEW p \in Pools, NEW r \in Requests, Take(p, r) PROVE TypeOK'
  <2>1. UNCHANGED <<status, shown, list, queue>> /\ at' = [at EXCEPT ![p] = "loop"]
    BY <1>4 DEF Take
  <2>2. quota' = quota \/ quota' = [quota EXCEPT ![p] = IF @ = 0 THEN 0 ELSE @ - 1]
    BY <1>4 DEF Take
  <2>3. quota' \in [Pools -> 0 .. Capacity]
    BY <2>2
  <2>4. QED
    BY <1>1, <2>1, <2>3
<1>5. ASSUME NEW p \in Pools, EndLoop(p) PROVE TypeOK'
  BY <1>1, <1>5 DEF EndLoop
<1>6. ASSUME NEW p \in Pools, Join(p) PROVE TypeOK'
  BY <1>1, <1>6 DEF Join, loopVars
<1>7. ASSUME NEW p \in Pools, Stop(p) PROVE TypeOK'
  <2>1. status' = [status EXCEPT ![p] = "stopped"] /\ shown' = [shown EXCEPT ![p] = FALSE]
    BY <1>7 DEF Stop
  <2>2. /\ at' = [at EXCEPT ![p] = "idle"] /\ queue' = [queue EXCEPT ![p] = {}]
        /\ list' = [list EXCEPT ![p] = {}] /\ quota' = [quota EXCEPT ![p] = 0]
    BY <1>7 DEF Stop
  <2>3. quota' \in [Pools -> 0 .. Capacity]
    BY <2>2
  <2>4. QED
    BY <1>1, <2>1, <2>2, <2>3
<1>8. ASSUME NEW r \in Requests,
             Submit(r) \/ ZuulReturns(r) \/ \E p \in Pools : LaunchComplete(p, r)
      PROVE  TypeOK'
  BY <1>1, <1>8 DEF Submit, ZuulReturns, LaunchComplete, loopVars
<1>9. CASE UNCHANGED vars
  BY <1>1, <1>9 DEF vars, loopVars
<1>10. QED
  BY <1>2, <1>3, <1>4, <1>5, <1>6, <1>7, <1>8, <1>9 DEF Next, LoopStep

(* A pool never has more nodes than it may, whoever waits for room, and    *)
(* the variables of the loops keep to their types                          *)
(* (_process_paused_handlers, _assignHandlers).                            *)
THEOREM AssignmentTypes == Spec => []TInv
<1>1. Init => TInv
  BY InitIInv, InitLimits DEF TInv
<1>2. TInv /\ [Next]_vars => TInv'
  <2>1. TInv /\ [Next]_vars => IInv'
    BY StepIInv DEF TInv
  <2>2. QED
    BY <2>1, StepTypeOK, StepUsedFits, StepOnePaused DEF TInv
<1>3. QED
  BY <1>1, <1>2, PTL DEF Spec

-----------------------------------------------------------------------------
(* The cache of the model, and what is shown of it                         *)
P == INSTANCE TreeCacheProofs WITH state <- znode

(* TreeCacheProofs speaks of the same initial states, steps and views.     *)
LEMMA SameInit == C!Init <=> P!Init
  BY DEF C!Init, P!Init

LEMMA SameNext == C!Next => P!Next
  BY Zenon DEF C!Missing, P!Missing, C!Failed, P!Failed, C!NotFetched, P!NotFetched, C!Blank,
               P!Blank, C!NodePath, P!NodePath, C!LockPath, P!LockPath, C!IsNode, P!IsNode,
               C!Event, P!Event, C!Notify, P!Notify, C!Others, P!Others, C!CreateNode,
               P!CreateNode, C!OtherLocks, P!OtherLocks, C!OtherStores, P!OtherStores,
               C!OtherUnlocks, P!OtherUnlocks, C!DeletesNode, P!DeletesNode, C!Disconnect,
               P!Disconnect, C!Expire, P!Expire, C!Reconnect, P!Reconnect, C!StartCache,
               P!StartCache, C!WalkRoot, P!WalkRoot, C!WalkNode, P!WalkNode, C!Orders,
               P!Orders, C!Cardinality, P!Cardinality, C!WalkEnd, P!WalkEnd, C!Fetched,
               P!Fetched, C!EventWorker, P!EventWorker, C!ObjectLocked, P!ObjectLocked,
               C!PlayContender, P!PlayContender, C!NotNewer, P!NotNewer, C!PlayNode,
               P!PlayNode, C!PlaybackWorker, P!PlaybackWorker, C!Thread, P!Thread, C!TakeLock,
               P!TakeLock, C!SetLock, P!SetLock, C!UpdateNode, P!UpdateNode, C!StoreNode,
               P!StoreNode, C!ReleaseLock, P!ReleaseLock, C!ClearLock, P!ClearLock,
               C!ThreadGoesOn, P!ThreadGoesOn, C!Next, P!Next, C!zkVars, P!zkVars, C!connVars,
               P!connVars, C!startVars, P!startVars, C!cacheVars, P!cacheVars, C!threadVars,
               P!threadVars

LEMMA SameVars == UNCHANGED cvars => UNCHANGED P!vars
  BY DEF cvars, P!vars, P!zkVars, P!connVars, P!startVars, P!cacheVars, P!threadVars

LEMMA SameTypes == P!TypeOK <=> C!TypeOK
  BY DEF P!TypeOK, C!TypeOK, P!cacheVars

LEMMA SameView ==
    /\ P!View!Init <=> C!View!Init
    /\ P!View!Next <=> C!View!Next
    /\ UNCHANGED P!View!vvars => UNCHANGED C!View!vvars
  BY Zenon DEF P!View!Init, C!View!Init, P!View!Next, C!View!Next, P!View!vvars, C!View!vvars,
               P!View!Write, C!View!Write, P!View!Remove, C!View!Remove, P!View!Learn,
               C!View!Learn, P!View!Forget, C!View!Forget, P!View!Forgotten, C!View!Forgotten,
               P!Lives, C!Lives, P!Shown, C!Shown, P!Forgotten, C!Forgotten

(* In a behaviour of the model the cache, like the assignment, takes its   *)
(* own steps or stays as it is.                                            *)
LEMMA PartsStep == BothInit /\ [][BothNext]_allVars => Spec /\ P!Spec
<1>1. BothInit => Init /\ P!Init
  BY SameInit DEF BothInit
<1>2. [BothNext]_allVars => [Next]_vars /\ [P!Next]_(P!vars)
  <2> SUFFICES ASSUME [BothNext]_allVars PROVE [Next]_vars /\ [P!Next]_(P!vars)
    OBVIOUS
  <2>1. CASE Next /\ UNCHANGED cvars
    BY <2>1, SameVars
  <2>2. CASE C!Next /\ UNCHANGED vars
    BY <2>2, SameNext
  <2>3. CASE UNCHANGED allVars
    BY <2>3, SameVars DEF allVars
  <2>4. QED
    BY <2>1, <2>2, <2>3 DEF BothNext
<1>3. QED
  BY <1>1, <1>2, PTL DEF Spec, P!Spec

(* The variables of the pools' loops and of the cache keep to their types, *)
(* whatever the pools, requests and nodes (_assignHandlers,                *)
(* _handlePlayback).                                                       *)
THEOREM LauncherTypes == BothSpec => []TypesOK
<1>1. P!Spec => []P!TypeOK
  BY P!TypeCorrect, CacheAssumption
<1>2. TInv /\ P!TypeOK => TypesOK
  BY SameTypes DEF TInv, TypesOK
<1>3. QED
  BY <1>1, <1>2, PartsStep, AssignmentTypes, PTL DEF BothSpec

(* The cache shows nothing but what was written, keeps what it has shown   *)
(* as long as it exists, and brings nothing back (_handlePlayback): it is  *)
(* an implementation of NodeView.                                          *)
THEOREM CacheView == BothSpec => ViewSpec
<1>1. P!Spec => P!View!Spec
  BY P!CacheImplementsView DEF P!ViewSpec
<1>2. P!View!Init => C!View!Init
  BY SameView
<1>3. [P!View!Next]_(P!View!vvars) => [C!View!Next]_(C!View!vvars)
  BY SameView
<1>4. P!View!Spec => C!View!Spec
  BY <1>2, <1>3, PTL DEF P!View!Spec, C!View!Spec
<1>5. QED
  BY <1>1, <1>4, PartsStep, PTL DEF BothSpec, ViewSpec, C!ViewSpec
=============================================================================
