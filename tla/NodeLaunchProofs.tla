-------------------------- MODULE NodeLaunchProofs ----------------------------
(***************************************************************************)
(* Proofs about NodeLaunch: types, one server for a node, records of what  *)
(* was made, and READY nodes that keep their instance.                     *)
(*                                                                         *)
(* What the theorems need beyond their own statements is mostly who knows  *)
(* an id: a launcher, its handler's Node object, the deleter and the znode *)
(* of one node may name an instance, those of two nodes never the same one *)
(* (NamesInv), so that a delete of one node never takes the instance of    *)
(* another.  The parts under "expiries = 0" depend on a lock's being held  *)
(* by whoever works on the node, which an expired session ends.            *)
(***************************************************************************)
EXTENDS NodeLaunch, TLAPS

(* A node that was not launched has nothing. *)
NewInv(n) ==
    zstate[n] = "new" =>
        /\ zext[n] = None /\ lext[n] = None /\ did[n] = None
        /\ lstate[n] = None /\ lock[n] = None /\ deleter[n] = "none"
        /\ launcher[n] = NoLauncher /\ orphans[n] = 0
        /\ \A i \in Instances : owner[i] # n

(* The handler's lock keeps the deleter away. *)
HeldInv(n) == lock[n] = "handler" => Exists(n) /\ deleter[n] = "none"

(* A launcher belongs to a BUILDING node, each attempt leaves at most one  *)
(* create call behind, and what a restarted launch unwinds is the id that  *)
(* the Node object has.                                                    *)
LauncherInv(n) ==
    LET l == launcher[n] IN
    /\ IF Active(n) THEN lstate[n] = "BUILDING" /\ orphans[n] < l.attempts
                    ELSE l = NoLauncher
    /\ l.id = None <=> l.sm \in {"none", "start", "calling"}
    /\ l.result # None => l.sm = "calling"
    /\ l.scan # "none" => l.sm = "complete"
    /\ Active(n) /\ l.sm \in {"none", "start"} =>
          l.unwind = lext[n] \/ (l.unwind = NoDelete /\ lext[n] = None)
    /\ l.sm = "complete" => lext[n] = l.id

(* Ids are not shared between nodes. *)
NamesInv == \A n \in Nodes, i \in Instances : i \in Names(n) => owner[i] \in {n, None}

(* The instances of a node that somebody was told of *)
Own(n) == {i \in Instances \ stray : owner[i] = n}

(* The one instance that a launcher may have at the moment: that of the    *)
(* attempt before, until the new attempt submits its own create call.      *)
Making(n) ==
    CASE launcher[n].sm = "start" -> launcher[n].unwind
      [] launcher[n].sm = "calling" -> launcher[n].result
      [] OTHER -> launcher[n].id

(* A node has one instance at a time, and its launcher knows which. *)
ServerInv(n) ==
    /\ \A i, j \in Own(n) : i = j
    /\ Active(n) => Own(n) \subseteq {Making(n)}

(* Who works on a node holds its lock, and the Node object at hand says    *)
(* what the znode does.                                                    *)
LockInv(n) ==
    /\ deleter[n] # "none" <=> lock[n] = "deleter"
    /\ lstate[n] # None <=> lock[n] = "handler"
    /\ lock[n] = "deleter" => zstate[n] \in CleanupStates /\ did[n] = zext[n]
    /\ lock[n] = "handler" => lext[n] = zext[n]
    /\ Active(n) => zstate[n] = "BUILDING"
    /\ lstate[n] = "READY" => zstate[n] = "READY"

(* The instance of a node that is not being launched is in its record. *)
RecordInv(n) == ~Active(n) => Own(n) \subseteq {zext[n]}

(* ReadyNodeHasInstance, for one node *)
ReadyInv(n) ==
    zstate[n] = "READY" =>
        zext[n] # None /\ owner[zext[n]] = n /\ zext[n] \notin deleting

(* Of a launch, only what its launcher unwinds is deleted: the instance    *)
(* that a scan succeeds on is there to stay.  Without host key checking    *)
(* nothing connects to it; a complete state machine that is not scanned is *)
(* then one that has timed out.                                            *)
BuildInv(n) ==
    LET l == launcher[n] IN
    /\ l.result # None => l.result \notin deleting /\ l.result \notin {lext[n], l.unwind}
    /\ l.id \in deleting => l.unwind = l.id
    /\ l.scan \in {"pending", "ok"} => l.unwind = NoDelete
    /\ l.scan = "ok" \/ (l.scan = "pending" /\ ~HostKeyChecking) => owner[l.id] = n
    /\ ~HostKeyChecking =>
          l.scan # "failed" /\ (l.sm = "complete" /\ l.scan = "none" => l.late)

(* A node that the cleanup takes for gone twice running is gone: what it   *)
(* has seen once and exists is in the list of nodes of its next pass.      *)
LeaksInv ==
    /\ \A n \in seen \cup possibly : zstate[n] # "new"
    /\ \A n \in possibly : Exists(n) => n \in seen
    /\ pass = "listing" => \A n \in seen : Exists(n) => n \in known

IInv ==
    /\ TypeOK
    /\ \A n \in Nodes : NewInv(n) /\ HeldInv(n) /\ LauncherInv(n) /\ ServerInv(n)
    /\ NamesInv /\ LeaksInv
    /\ expiries = 0 =>
          \A n \in Nodes : LockInv(n) /\ RecordInv(n) /\ ReadyInv(n) /\ BuildInv(n)
-----------------------------------------------------------------------------
(* The parts of a launcher *)
LEMMA LauncherFields ==
    ASSUME TypeOK, NEW n \in Nodes
    PROVE  /\ launcher[n] \in Launchers
           /\ launcher[n].attempts \in 0..Retries
           /\ launcher[n].attempts < Retries => launcher[n].attempts + 1 \in 0..Retries
           /\ launcher[n].id \in Ids /\ launcher[n].result \in Ids
           /\ launcher[n].unwind \in Ids \cup {NoDelete}
           /\ launcher[n].sm \in {"none", "start", "calling", "building", "complete"}
           /\ launcher[n].scan \in {"none", "pending", "ok", "failed"}
           /\ launcher[n].late \in BOOLEAN
<1>1. launcher[n] \in Launchers
  BY DEF TypeOK
<1> QED
  BY <1>1, ConstantsAssumption DEF Launchers

(* An attempt of n has failed. *)
LEMMA TypeFail ==
    ASSUME TypeOK, NEW n \in Nodes, FailAttempt(n), lstate[n] = "BUILDING",
           orphans' \in [Nodes -> 0..Retries], stray' \in SUBSET Instances,
           UNCHANGED <<crashes, expiries>>, faults' \in 0..MaxFaults
    PROVE  TypeOK'
<1> USE ConstantsAssumption
<1>1. IdToDelete(n) \in Ids
  BY DEF IdToDelete, TypeOK, Launchers
<1>2. /\ zstate' \in [Nodes -> Present \cup {"new", "deleted"}]
      /\ zext' \in [Nodes -> Ids] /\ lock' = lock
  <2>1. CASE UNCHANGED zk
    BY <2>1 DEF zk, TypeOK
  <2>2. CASE Store(n, lstate[n], IdToDelete(n))
    BY <1>1, <2>2 DEF Store, TypeOK, Present
  <2> QED BY <2>1, <2>2 DEF FailAttempt
<1>3. launcher' \in [Nodes -> Launchers]
  <2>1. NoLauncher \in Launchers
    BY DEF NoLauncher, Launchers, Ids
  <2>2. launcher[n].attempts < Retries => launcher[n].attempts + 1 \in 0..Retries
    BY LauncherFields
  <2>3. launcher[n].attempts < Retries => Restarted(n) \in Launchers
    BY <1>1, <2>1, <2>2 DEF Restarted, Launchers, Ids
  <2> QED BY <2>1, <2>3, LauncherFields DEF FailAttempt, TypeOK
<1> QED
  BY <1>1, <1>2, <1>3 DEF FailAttempt, TypeOK, leaks

(* So has the attempt to begin anew. *)
LEMMA TypeRetry ==
    ASSUME TypeOK, NEW n \in Nodes, RetryRaises(n), lstate[n] = "BUILDING"
    PROVE  TypeOK'
<1> USE ConstantsAssumption
<1>1. IdToDelete(n) \in Ids
  BY DEF IdToDelete, TypeOK, Launchers
<1>2. /\ zstate' \in [Nodes -> Present \cup {"new", "deleted"}]
      /\ zext' \in [Nodes -> Ids] /\ lock' = lock
  <2>1. CASE UNCHANGED zk
    BY <2>1 DEF zk, TypeOK
  <2>2. CASE Store(n, lstate[n], IdToDelete(n))
    BY <1>1, <2>2 DEF Store, TypeOK, Present
  <2> QED BY <2>1, <2>2 DEF RetryRaises
<1>3. launcher' \in [Nodes -> Launchers]
  <2>1. launcher[n].attempts + 1 \in 0..Retries
    BY LauncherFields DEF RetryRaises
  <2>2. ASSUME NEW l \in Launchers, NEW a \in 0..Retries, NEW i \in Ids
        PROVE  [l EXCEPT !.attempts = a, !.scan = "none", !.unwind = i] \in Launchers
    BY DEF Launchers
  <2>3. launcher' = [launcher EXCEPT ![n] =
           [launcher[n] EXCEPT !.attempts = @ + 1, !.scan = "none", !.unwind = IdToDelete(n)]]
    BY DEF RetryRaises, TypeOK
  <2> QED BY <1>1, <2>1, <2>2, <2>3, LauncherFields DEF TypeOK
<1> QED
  BY <1>1, <1>2, <1>3 DEF RetryRaises, TypeOK, Faulty, cloud, leaks, bounds

(* What a call that nobody waits for any more adds to the orphans.         *)
LEMMA OrphansBounded ==
    ASSUME TypeOK, NEW n \in Nodes, LauncherInv(n), launcher[n].sm = "calling"
    PROVE  orphans[n] + 1 \in 0..Retries
<1>1. launcher[n].sm # NoLauncher.sm
  BY DEF NoLauncher
<1>2. orphans[n] < launcher[n].attempts
  BY <1>1 DEF LauncherInv
<1> QED BY <1>2, LauncherFields, ConstantsAssumption DEF TypeOK

(* A crash keeps the types: a create call of each launcher is counted.     *)
LEMMA TypeCrash ==
    ASSUME TypeOK, \A n \in Nodes : LauncherInv(n), Crash
    PROVE  TypeOK'
<1>1. NoLauncher \in Launchers
  BY ConstantsAssumption DEF NoLauncher, Launchers, Ids
<1>2. \A n \in Nodes : launcher[n].sm = "calling" => orphans[n] + 1 \in 0..Retries
  BY OrphansBounded
<1>3. orphans' \in [Nodes -> 0..Retries]
  BY <1>2 DEF Crash, TypeOK
<1>4. /\ launcher' \in [Nodes -> Launchers]
      /\ lock' \in [Nodes -> {None, "handler", "deleter"}]
      /\ lstate' \in [Nodes -> {None, "BUILDING", "READY", "FAILED", "ABORTED"}]
      /\ lext' \in [Nodes -> Ids] /\ did' \in [Nodes -> Ids]
      /\ deleter' \in [Nodes -> {"none", "start", "deleting"}]
  BY <1>1 DEF Crash, Ids
<1> QED BY <1>3, <1>4, ConstantsAssumption DEF Crash, TypeOK

(* So does a session that expires.                                         *)
LEMMA TypeExpire ==
    ASSUME TypeOK, \A n \in Nodes : LauncherInv(n), ExpireSession
    PROVE  TypeOK'
<1>1. NoLauncher \in Launchers
  BY ConstantsAssumption DEF NoLauncher, Launchers, Ids
<1>2. \A n \in Nodes : launcher[n].sm = "calling" => orphans[n] + 1 \in 0..Retries
  BY OrphansBounded
<1>3. PICK S \in SUBSET {n \in Nodes : Running(n)} :
         /\ lstate' = [n \in Nodes |-> IF n \in S THEN "FAILED" ELSE lstate[n]]
         /\ lext' = [n \in Nodes |-> IF n \in S THEN launcher[n].id ELSE lext[n]]
         /\ launcher' = [n \in Nodes |-> IF n \in S THEN NoLauncher ELSE launcher[n]]
         /\ orphans' = [n \in Nodes |->
                IF n \in S /\ launcher[n].sm = "calling" /\ launcher[n].result = None
                THEN orphans[n] + 1 ELSE orphans[n]]
  BY DEF ExpireSession
<1>4. orphans' \in [Nodes -> 0..Retries]
  BY <1>2, <1>3 DEF TypeOK
<1>5. lext' \in [Nodes -> Ids]
  BY <1>3, LauncherFields DEF TypeOK
<1>6. /\ launcher' \in [Nodes -> Launchers]
      /\ lstate' \in [Nodes -> {None, "BUILDING", "READY", "FAILED", "ABORTED"}]
  BY <1>1, <1>3 DEF TypeOK
<1> QED BY <1>4, <1>5, <1>6, ConstantsAssumption DEF ExpireSession, TypeOK, leaks

(* No operation stores what a variable cannot be. *)
LEMMA TypeStep ==
    TypeOK /\ (\A n \in Nodes : NewInv(n) /\ LauncherInv(n)) /\ [Next]_vars => TypeOK'
<1> SUFFICES ASSUME TypeOK, \A n \in Nodes : NewInv(n) /\ LauncherInv(n), [Next]_vars
             PROVE  TypeOK'
  OBVIOUS
<1> USE ConstantsAssumption DEF zk, cloud, leaks, bounds
<1>1. ASSUME NEW n \in Nodes, Launch(n)
      PROVE  TypeOK'
  <2>1. ASSUME NEW l \in Launchers
        PROVE  [l EXCEPT !.attempts = 1] \in Launchers
    BY DEF Launchers
  <2>2. launcher' \in [Nodes -> Launchers]
    BY <1>1, <2>1 DEF Launch, TypeOK
  <2> QED BY <1>1, <2>2 DEF Launch, TypeOK, Present
<1>2. ASSUME NEW n \in Nodes, 
             StartRaises(n) \/ LaunchTimeout(n) \/ LaunchError(n) \/ ScanFailed(n)
      PROVE  TypeOK'
  <2>1. lstate[n] = "BUILDING" /\ orphans[n] < launcher[n].attempts
    BY <1>2
       DEF StartRaises, LaunchTimeout, LaunchError, ScanFailed, Advancing, Running,
           LauncherInv
  <2>2. CASE RetryRaises(n)
    BY <2>1, <2>2, TypeRetry
  <2>3. CASE FailAttempt(n)
    <3>1. orphans' \in [Nodes -> 0..Retries] /\ stray' \in SUBSET Instances
      <4>1. CASE UNCHANGED <<orphans, stray>>
        BY <4>1 DEF TypeOK
      <4>2. CASE AbandonCall(n)
        <5>1. orphans[n] + 1 \in 0..Retries
          BY <2>1, LauncherFields DEF TypeOK
        <5>2. launcher[n].result # None => launcher[n].result \in Instances
          BY LauncherFields DEF Ids
        <5> QED BY <4>2, <5>1, <5>2 DEF AbandonCall, TypeOK
      <4> QED
        BY <1>2, <2>3, <4>1, <4>2
           DEF StartRaises, LaunchTimeout, LaunchError, ScanFailed, RetryRaises
    <3>2. UNCHANGED <<crashes, expiries>> /\ faults' \in 0..MaxFaults
      BY <1>2, <2>3
         DEF StartRaises, LaunchTimeout, LaunchError, ScanFailed, RetryRaises, Faulty,
             TypeOK
    <3> QED BY <2>1, <2>3, <3>1, <3>2, TypeFail
  <2> QED
    BY <1>2, <2>2, <2>3 DEF StartRaises, LaunchTimeout, LaunchError, ScanFailed
<1>3. ASSUME NEW n \in Nodes,
             \/ startStateMachine(n) \/ LaunchReady(n)
             \/ ReadyStoreRaises(n) \/ LaunchAborted(n)
      PROVE  TypeOK'
  <2>1. /\ NoLauncher \in Launchers
        /\ \A l \in Launchers : [l EXCEPT !.sm = "start"] \in Launchers
    BY DEF NoLauncher, Launchers, Ids
  <2>2. launcher' \in [Nodes -> Launchers]
    BY <1>3, <2>1
       DEF startStateMachine, LaunchReady, ReadyStoreRaises, LaunchAborted, TypeOK
  <2>3. lstate' \in [Nodes -> {None, "BUILDING", "READY", "FAILED", "ABORTED"}]
    BY <1>3 DEF startStateMachine, LaunchReady, ReadyStoreRaises, LaunchAborted, TypeOK
  <2>4. lext' \in [Nodes -> Ids]
    BY <1>3, LauncherFields
       DEF startStateMachine, LaunchReady, ReadyStoreRaises, LaunchAborted, TypeOK
  <2>5. /\ zstate' \in [Nodes -> Present \cup {"new", "deleted"}]
        /\ zext' \in [Nodes -> Ids] /\ lock' = lock
    BY <1>3, LauncherFields
       DEF startStateMachine, LaunchReady, ReadyStoreRaises, LaunchAborted, Store,
           TypeOK, Present
  <2>6. /\ UNCHANGED <<deleter, did, owner, deleting, orphans, leaks, stray, crashes,
                        expiries>>
        /\ faults' \in 0..MaxFaults
    BY <1>3
       DEF startStateMachine, LaunchReady, ReadyStoreRaises, LaunchAborted, Faulty,
           TypeOK
  <2> QED BY <2>2, <2>3, <2>4, <2>5, <2>6 DEF TypeOK
<1>4. ASSUME NEW n \in Nodes, TimePasses(n) \/ SubmitCreate(n) \/ ScanEnds(n)
      PROVE  TypeOK'
  <2>1. ASSUME NEW l \in Launchers, NEW s \in {"ok", "failed"}
        PROVE  /\ [l EXCEPT !.late = TRUE] \in Launchers
               /\ [l EXCEPT !.sm = "calling", !.unwind = NoDelete] \in Launchers
               /\ [l EXCEPT !.scan = s] \in Launchers
    BY DEF Launchers
  <2>2. launcher' \in [Nodes -> Launchers]
    <3>1. CASE TimePasses(n)
      BY <2>1, <3>1 DEF TimePasses, TypeOK
    <3>2. CASE SubmitCreate(n)
      <4>1. launcher' = [launcher EXCEPT ![n] =
               [launcher[n] EXCEPT !.sm = "calling", !.unwind = NoDelete]]
        BY <3>2 DEF SubmitCreate, TypeOK
      <4> QED BY <2>1, <4>1 DEF TypeOK
    <3>3. CASE ScanEnds(n)
      <4>1. PICK s \in {"ok", "failed"} : launcher' = [launcher EXCEPT ![n].scan = s]
        BY <3>3 DEF ScanEnds
      <4> QED BY <2>1, <4>1 DEF TypeOK
    <3> QED BY <1>4, <3>1, <3>2, <3>3
  <2> QED BY <1>4, <2>2 DEF TimePasses, SubmitCreate, ScanEnds, TypeOK
<1>5. ASSUME NEW n \in Nodes, LearnId(n)
      PROVE  TypeOK'
  <2> DEFINE i == launcher[n].result
  <2>1. i \in Ids
    BY LauncherFields
  <2>2. ASSUME NEW l \in Launchers, NEW j \in Ids
        PROVE  [l EXCEPT !.sm = "building", !.id = j, !.result = None,
                        !.unwind = NoDelete] \in Launchers
    BY DEF Launchers, Ids
  <2>3. launcher' = [launcher EXCEPT ![n] =
           [launcher[n] EXCEPT !.sm = "building", !.id = i, !.result = None,
                               !.unwind = NoDelete]]
    BY <1>5 DEF LearnId, TypeOK
  <2>4. launcher' \in [Nodes -> Launchers]
    BY <2>1, <2>2, <2>3 DEF TypeOK
  <2>5. /\ zstate' \in [Nodes -> Present \cup {"new", "deleted"}]
        /\ zext' \in [Nodes -> Ids] /\ lock' = lock
    BY <1>5, <2>1 DEF LearnId, Advancing, Running, Store, TypeOK, Present
  <2> QED BY <1>5, <2>1, <2>4, <2>5 DEF LearnId, TypeOK
<1>6. ASSUME NEW n \in Nodes, InstanceUp(n)
      PROVE  TypeOK'
  <2>1. ASSUME NEW l \in Launchers, NEW s \in {"none", "pending"}
        PROVE  [l EXCEPT !.sm = "complete", !.unwind = NoDelete, !.scan = s] \in Launchers
    BY DEF Launchers
  <2>2. launcher' = [launcher EXCEPT ![n] =
           [launcher[n] EXCEPT !.sm = "complete", !.unwind = NoDelete,
                               !.scan = IF Exists(n) THEN "pending" ELSE "none"]]
    BY <1>6 DEF InstanceUp, TypeOK
  <2>3. launcher' \in [Nodes -> Launchers]
    BY <2>1, <2>2 DEF TypeOK
  <2>4. /\ zstate' \in [Nodes -> Present \cup {"new", "deleted"}]
        /\ zext' \in [Nodes -> Ids] /\ lock' = lock
    BY <1>6, LauncherFields DEF InstanceUp, Advancing, Running, Store, TypeOK, Present
  <2> QED BY <1>6, <2>3, <2>4, LauncherFields DEF InstanceUp, TypeOK
<1>7. ASSUME NEW n \in Nodes, RunDelete(n) \/ StartDelete(n)
      PROVE  TypeOK'
  BY <1>7, LauncherFields DEF RunDelete, StartDelete, InCloud, TypeOK, Present
<1>8. ASSUME NEW n \in Nodes, HandlerUnlocks(n) \/ NodeUsed(n) \/ startNodeCleanup(n)
      PROVE  TypeOK'
  <2>1. /\ zstate' \in [Nodes -> Present \cup {"new", "deleted"}]
        /\ zext' \in [Nodes -> Ids]
    <3>1. CASE HandlerUnlocks(n)
      BY <3>1 DEF HandlerUnlocks, TypeOK, Present
    <3> QED BY <1>8, <3>1 DEF NodeUsed, startNodeCleanup, TypeOK, Present
  <2>2. /\ lock' \in [Nodes -> {None, "handler", "deleter"}]
        /\ lstate' \in [Nodes -> {None, "BUILDING", "READY", "FAILED", "ABORTED"}]
        /\ lext' \in [Nodes -> Ids] /\ did' \in [Nodes -> Ids]
        /\ deleter' \in [Nodes -> {"none", "start", "deleting"}]
    BY <1>8 DEF HandlerUnlocks, NodeUsed, startNodeCleanup, TypeOK, Ids
  <2> QED BY <1>8, <2>1, <2>2 DEF HandlerUnlocks, NodeUsed, startNodeCleanup, TypeOK
<1>9. ASSUME NEW n \in Nodes, DeleteComplete(n) \/ DeleteFails(n)
      PROVE  TypeOK'
  BY <1>9 DEF DeleteComplete, DeleteFails, DeleterEnds, Faulty, TypeOK, Ids
<1>10. CASE CleanupStep
  BY <1>10 DEF CleanupStep, ReadKnown, DeleteLeaked, Unknown, Leaked, TypeOK
<1>11. ASSUME NEW n \in Nodes, CloudCreates(n)
       PROVE  TypeOK'
  <2>1. PICK i \in Fresh : owner' = [owner EXCEPT ![i] = n]
    BY <1>11 DEF CloudCreates
  <2>2. /\ owner' \in [Instances -> Nodes \cup {None}]
        /\ deleting' \in SUBSET {j \in Instances : owner'[j] # None}
    BY <1>11, <2>1 DEF CloudCreates, Fresh, TypeOK
  <2>3. /\ launcher' \in [Nodes -> Launchers]
        /\ orphans' \in [Nodes -> 0..Retries] /\ stray' \in SUBSET Instances
    <3>1. ASSUME NEW l \in Launchers, NEW j \in Instances
          PROVE  [l EXCEPT !.result = j] \in Launchers
      BY DEF Launchers, Ids
    <3>2. PICK j \in Fresh :
             \/ /\ launcher' = [launcher EXCEPT ![n].result = j]
                /\ UNCHANGED <<orphans, stray>>
             \/ /\ orphans[n] > 0 /\ orphans' = [orphans EXCEPT ![n] = @ - 1]
                /\ stray' = stray \cup {j}
                /\ UNCHANGED launcher
      BY <1>11 DEF CloudCreates
    <3> QED BY <3>1, <3>2 DEF Fresh, TypeOK
  <2> QED BY <1>11, <2>2, <2>3 DEF CloudCreates, TypeOK
<1>12. ASSUME NEW i \in Instances, CloudDeletes(i)
       PROVE  TypeOK'
  BY <1>12 DEF CloudDeletes, TypeOK
<1>13. CASE Crash
  BY <1>13, TypeCrash
<1>14. CASE ExpireSession
  BY <1>14, TypeExpire
<1>15. CASE UNCHANGED vars
  BY <1>15 DEF vars, TypeOK
<1> QED
  BY <1>1, <1>2, <1>3, <1>4, <1>5, <1>6, <1>7, <1>8, <1>9, <1>10, <1>11, <1>12, <1>13,
     <1>14, <1>15
     DEF Next, LauncherStep, DeleterStep
-----------------------------------------------------------------------------
(* What is stored for a node, and what its threads have *)
NodeVars(n) == <<zstate[n], zext[n], lock[n], lstate[n], lext[n], launcher[n],
                 deleter[n], did[n], orphans[n]>>

(* An operation of one node *)
NodeStep(n) ==
    \/ Launch(n) \/ LauncherStep(n) \/ HandlerUnlocks(n) \/ NodeUsed(n)
    \/ startNodeCleanup(n) \/ DeleterStep(n) \/ CloudCreates(n)

(* An operation of a node leaves all others alone. *)
LEMMA OthersUntouched ==
    ASSUME TypeOK, NEW n \in Nodes, NEW m \in Nodes \ {n}, NodeStep(n)
    PROVE  UNCHANGED NodeVars(m)
<1> USE DEF TypeOK, NodeVars, zk, cloud, leaks, bounds
<1>1. CASE Launch(n) \/ HandlerUnlocks(n) \/ NodeUsed(n) \/ startNodeCleanup(n)
  BY <1>1 DEF Launch, HandlerUnlocks, NodeUsed, startNodeCleanup
<1>2. CASE DeleterStep(n)
  BY <1>2 DEF DeleterStep, StartDelete, DeleteComplete, DeleteFails, DeleterEnds
<1>3. CASE CloudCreates(n)
  BY <1>3 DEF CloudCreates
<1>4. CASE FailAttempt(n) /\ (AbandonCall(n) \/ UNCHANGED <<orphans, stray>>)
  BY <1>4 DEF FailAttempt, AbandonCall, Store
<1>5. CASE RetryRaises(n)
  BY <1>5 DEF RetryRaises, Store
<1>6. CASE StartRaises(n) \/ LaunchTimeout(n) \/ LaunchError(n) \/ ScanFailed(n)
  BY <1>4, <1>5, <1>6 DEF StartRaises, LaunchTimeout, LaunchError, ScanFailed
<1>7. CASE startStateMachine(n) \/ LaunchReady(n) \/ ReadyStoreRaises(n) \/ LaunchAborted(n)
  BY <1>7 DEF startStateMachine, LaunchReady, ReadyStoreRaises, LaunchAborted, Store
<1>8. CASE TimePasses(n) \/ SubmitCreate(n) \/ ScanEnds(n) \/ RunDelete(n)
  BY <1>8 DEF TimePasses, SubmitCreate, ScanEnds, RunDelete
<1>9. CASE LearnId(n) \/ InstanceUp(n)
  BY <1>9 DEF LearnId, InstanceUp, Store
<1> QED BY <1>1, <1>2, <1>3, <1>6, <1>7, <1>8, <1>9 DEF NodeStep, LauncherStep

(* The steps that are of no node, and leave all of them alone *)
LEMMA CleanupUntouched ==
    ASSUME NEW n \in Nodes,
           \/ CleanupStep
           \/ \E i \in Instances : CloudDeletes(i)
           \/ UNCHANGED vars
    PROVE  UNCHANGED NodeVars(n)
BY DEF CleanupStep, ReadKnown, DeleteLeaked, CloudDeletes, NodeVars, vars, zk, cloud,
       leaks, bounds

(* A step is of one node, of the cleanup or the cloud, or of all nodes. *)
LEMMA NextCases ==
    ASSUME [Next]_vars
    PROVE  \/ \E n \in Nodes : NodeStep(n)
           \/ CleanupStep \/ (\E i \in Instances : CloudDeletes(i)) \/ UNCHANGED vars
           \/ Crash \/ ExpireSession
BY DEF Next, NodeStep

(* What no operation of a launcher touches, and whose launch it is *)
LEMMA LauncherLeaves ==
    ASSUME NEW n \in Nodes, LauncherStep(n)
    PROVE  /\ Active(n) /\ (LauncherInv(n) => lstate[n] = "BUILDING")
           /\ UNCHANGED <<lock, deleter, did, owner, leaks, expiries>>
           /\ stray \subseteq stray'
           /\ UNCHANGED deleting \/ RunDelete(n)
<1> USE DEF zk, cloud, leaks, bounds, Running, Advancing
<1>1. CASE startStateMachine(n) \/ TimePasses(n) \/ SubmitCreate(n) \/ ScanEnds(n)
  BY <1>1 DEF startStateMachine, TimePasses, SubmitCreate, ScanEnds, LauncherInv, Store
<1>2. CASE LearnId(n) \/ InstanceUp(n)
  BY <1>2 DEF LearnId, InstanceUp, Store
<1>3. CASE LaunchAborted(n) \/ LaunchReady(n) \/ ReadyStoreRaises(n)
  BY <1>3 DEF LaunchAborted, LaunchReady, ReadyStoreRaises, Faulty, Store
<1>4. ASSUME RetryRaises(n)
      PROVE  UNCHANGED <<lock, deleter, did, owner, deleting, leaks, expiries, stray>>
  BY <1>4 DEF RetryRaises, Faulty, Store
<1>5. ASSUME FailAttempt(n)
      PROVE  UNCHANGED <<lock, deleter, did, owner, deleting, leaks>>
  BY <1>5 DEF FailAttempt, Store
<1>6. CASE StartRaises(n) \/ LaunchTimeout(n) \/ LaunchError(n) \/ ScanFailed(n)
  BY <1>4, <1>5, <1>6
     DEF StartRaises, LaunchTimeout, LaunchError, ScanFailed, AbandonCall, Faulty,
         LauncherInv
<1>7. CASE RunDelete(n)
  BY <1>7 DEF RunDelete
<1> QED BY <1>1, <1>2, <1>3, <1>6, <1>7 DEF LauncherStep

(* What no operation of a node touches *)
LEMMA NodeStepLeaves ==
    ASSUME NEW n \in Nodes, NodeStep(n)
    PROVE  /\ UNCHANGED <<leaks, expiries>> /\ stray \subseteq stray'
           /\ UNCHANGED owner \/ CloudCreates(n)
           /\ UNCHANGED deleting \/ RunDelete(n) \/ StartDelete(n)
<1> USE DEF zk, cloud, leaks, bounds
<1>1. CASE Launch(n) \/ HandlerUnlocks(n) \/ NodeUsed(n) \/ startNodeCleanup(n)
  BY <1>1 DEF Launch, HandlerUnlocks, NodeUsed, startNodeCleanup
<1>2. CASE DeleterStep(n)
  BY <1>2 DEF DeleterStep, StartDelete, DeleteComplete, DeleteFails, Faulty
<1>3. CASE CloudCreates(n)
  BY <1>3 DEF CloudCreates
<1> QED BY <1>1, <1>2, <1>3, LauncherLeaves DEF NodeStep

(* A create call that succeeds gives an instance an owner. *)
LEMMA NoCreation ==
    ASSUME TypeOK, NEW n \in Nodes, UNCHANGED owner
    PROVE  ~CloudCreates(n)
<1> SUFFICES ASSUME CloudCreates(n)
             PROVE  FALSE
  OBVIOUS
<1>1. PICK i \in Fresh : owner' = [owner EXCEPT ![i] = n]
  BY DEF CloudCreates
<1>2. i \in Instances /\ owner[i] = None
  BY DEF Fresh
<1> QED BY <1>1, <1>2, ConstantsAssumption DEF TypeOK

(* What a step does to the owner of an instance *)
LEMMA OwnersStep ==
    ASSUME TypeOK, [Next]_vars, NEW i \in Instances
    PROVE  \/ owner'[i] = owner[i]
           \/ owner'[i] = None /\ i \in deleting
           \/ \E n \in Nodes : CloudCreates(n) /\ i \in Fresh /\ owner'[i] = n
<1> USE DEF zk, cloud, leaks, bounds
<1>1. ASSUME NEW n \in Nodes, CloudCreates(n)
      PROVE  owner'[i] = owner[i] \/ (i \in Fresh /\ owner'[i] = n)
  <2>1. PICK j \in Fresh : owner' = [owner EXCEPT ![j] = n]
    BY <1>1 DEF CloudCreates
  <2> QED BY <2>1 DEF TypeOK, Fresh
<1>2. CASE CleanupStep \/ Crash \/ ExpireSession \/ UNCHANGED vars
  BY <1>2 DEF CleanupStep, ReadKnown, DeleteLeaked, Crash, ExpireSession, vars
<1>3. ASSUME NEW j \in Instances, CloudDeletes(j)
      PROVE  owner'[i] = owner[i] \/ (owner'[i] = None /\ i \in deleting)
  BY <1>3 DEF CloudDeletes, TypeOK
<1> QED BY <1>1, <1>2, <1>3, NextCases, NodeStepLeaves

(* A node that an operation is done on is not new afterwards. *)
LEMMA NoLongerNew ==
    ASSUME TypeOK, NEW n \in Nodes, NewInv(n), LauncherInv(n), NodeStep(n)
    PROVE  zstate'[n] # "new"
<1> USE ConstantsAssumption DEF zk, cloud, leaks, bounds
<1>1. CASE zstate[n] = "new"
  <2>1. /\ ~Active(n) /\ launcher[n].sm = "none" /\ orphans[n] = 0
        /\ lock[n] = None /\ deleter[n] = "none"
    BY <1>1 DEF NewInv, NoLauncher, Active
  <2>2. ~LauncherStep(n)
    BY <2>1, LauncherLeaves
  <2>3. /\ ~HandlerUnlocks(n) /\ ~NodeUsed(n) /\ ~startNodeCleanup(n)
        /\ ~DeleterStep(n) /\ ~CloudCreates(n)
    BY <1>1, <2>1
       DEF HandlerUnlocks, NodeUsed, startNodeCleanup, CleanupStates, Present,
           DeleterStep, StartDelete, DeleteComplete, DeleteFails, CloudCreates
  <2>4. Launch(n)
    BY <2>2, <2>3 DEF NodeStep
  <2> QED BY <2>4 DEF Launch, TypeOK
<1>2. CASE zstate[n] # "new"
  <2>1. CASE UNCHANGED zstate
    BY <1>2, <2>1
  <2>2. CASE \E s \in Present \cup {"deleted"} : zstate' = [zstate EXCEPT ![n] = s]
    BY <2>2 DEF TypeOK, Present
  <2>3. ASSUME NEW s, NEW i, Store(n, s, i), s \in {lstate[n], "BUILDING", "READY", "ABORTED"},
               lstate[n] = "BUILDING"
        PROVE  zstate'[n] # "new"
    BY <2>3 DEF Store, TypeOK
  <2>4. CASE LauncherStep(n)
    <3>1. lstate[n] = "BUILDING"
      BY <2>4, LauncherLeaves
    <3>2. \/ UNCHANGED zstate
          \/ \E s \in {lstate[n], "BUILDING", "READY", "ABORTED"},
                i \in {lext[n], launcher[n].id, launcher[n].result} : Store(n, s, i)
      BY <2>4
         DEF LauncherStep, startStateMachine, StartRaises, TimePasses, LaunchTimeout,
             RunDelete, SubmitCreate, LearnId, InstanceUp, LaunchError, LaunchAborted,
             ScanEnds, ScanFailed, LaunchReady, ReadyStoreRaises, FailAttempt,
             RetryRaises, IdToDelete
    <3> QED BY <2>1, <2>3, <3>1, <3>2
  <2>5. CASE Launch(n) \/ NodeUsed(n) \/ startNodeCleanup(n) \/ DeleterStep(n) \/ CloudCreates(n)
    BY <1>2, <2>5
       DEF Launch, NodeUsed, startNodeCleanup, DeleterStep, StartDelete, DeleteComplete,
           DeleteFails, CloudCreates, TypeOK
  <2>6. CASE HandlerUnlocks(n)
    BY <1>2, <2>6 DEF HandlerUnlocks, TypeOK
  <2> QED BY <2>4, <2>5, <2>6 DEF NodeStep
<1> QED BY <1>1, <1>2

(* A node that was not launched keeps having nothing. *)
LEMMA NewStep ==
    ASSUME TypeOK, \A n \in Nodes : NewInv(n) /\ LauncherInv(n), [Next]_vars, NEW m \in Nodes
    PROVE  NewInv(m)'
<1> SUFFICES ASSUME zstate'[m] = "new"
             PROVE  NewInv(m)'
  BY DEF NewInv
<1>1. ~NodeStep(m)
  BY NoLongerNew
<1>2. \A i \in Instances : owner'[i] = m => owner[i] = m
  BY <1>1, OwnersStep, ConstantsAssumption DEF NodeStep
<1>3. CASE UNCHANGED NodeVars(m)
  BY <1>2, <1>3 DEF NewInv, NodeVars
<1>4. CASE Crash
  BY <1>2, <1>4 DEF Crash, NewInv, NoLauncher, TypeOK
<1>5. CASE ExpireSession
  <2>1. zstate[m] = "new" /\ ~Running(m)
    BY <1>5 DEF ExpireSession, NewInv, Running, Active, NoLauncher
  <2>2. /\ lstate'[m] = lstate[m] /\ lext'[m] = lext[m] /\ launcher'[m] = launcher[m]
        /\ orphans'[m] = orphans[m] /\ lock'[m] = None
    BY <1>5, <2>1 DEF ExpireSession
  <2> QED BY <1>2, <1>5, <2>1, <2>2 DEF ExpireSession, NewInv
<1> QED
  BY <1>1, <1>3, <1>4, <1>5, NextCases, OthersUntouched, CleanupUntouched

(* What an operation of n does to its launcher *)
LEMMA LauncherOwnStep ==
    ASSUME TypeOK, NEW n \in Nodes, NewInv(n), LauncherInv(n), NodeStep(n)
    PROVE  LauncherInv(n)'
<1> USE ConstantsAssumption DEF zk, cloud, leaks, bounds
<1>0. ASSUME launcher'[n] = launcher[n], lstate'[n] = lstate[n], lext'[n] = lext[n],
             orphans'[n] = orphans[n]
      PROVE  LauncherInv(n)'
  BY <1>0 DEF LauncherInv, Active
<1>1. ASSUME launcher'[n] = NoLauncher
      PROVE  LauncherInv(n)'
  BY <1>1 DEF LauncherInv, Active, NoLauncher
<1>2. CASE Launch(n)
  <2>1. launcher[n] = NoLauncher /\ orphans[n] = 0 /\ lext[n] = None
    BY <1>2 DEF Launch, NewInv
  <2>2. /\ launcher'[n] = [NoLauncher EXCEPT !.attempts = 1]
        /\ orphans'[n] = 0 /\ lstate'[n] = "BUILDING" /\ lext'[n] = None
    BY <1>2, <2>1 DEF Launch, TypeOK
  <2> QED BY <2>1, <2>2 DEF LauncherInv, Active, NoLauncher
<1>3. CASE HandlerUnlocks(n)
  <2>1. launcher[n] = NoLauncher
    BY <1>3 DEF HandlerUnlocks, LauncherInv
  <2> QED BY <1>1, <1>3, <2>1 DEF HandlerUnlocks
<1>4. CASE NodeUsed(n) \/ startNodeCleanup(n) \/ DeleterStep(n) \/ RunDelete(n)
  BY <1>0, <1>4
     DEF NodeUsed, startNodeCleanup, DeleterStep, StartDelete, DeleteComplete,
         DeleteFails, RunDelete
<1>5. CASE LaunchReady(n) \/ ReadyStoreRaises(n) \/ LaunchAborted(n)
  BY <1>1, <1>5 DEF LaunchReady, ReadyStoreRaises, LaunchAborted, TypeOK
<1>6. CASE CloudCreates(n)
  <2>1. PICK i \in Fresh :
           \/ /\ launcher[n].sm = "calling" /\ launcher[n].result = None
              /\ launcher' = [launcher EXCEPT ![n].result = i]
              /\ UNCHANGED orphans
           \/ /\ orphans[n] > 0 /\ orphans' = [orphans EXCEPT ![n] = @ - 1]
              /\ UNCHANGED launcher
    BY <1>6 DEF CloudCreates
  <2>2. UNCHANGED <<lstate, lext>>
    BY <1>6 DEF CloudCreates
  <2>3. CASE /\ launcher' = [launcher EXCEPT ![n].result = i]
             /\ launcher[n].sm = "calling" /\ UNCHANGED orphans
    <3>1. launcher'[n] = [launcher[n] EXCEPT !.result = i]
      BY <2>3 DEF TypeOK
    <3>2. launcher'[n].attempts = launcher[n].attempts /\ launcher'[n].sm = "calling"
          /\ launcher'[n].id = launcher[n].id /\ launcher'[n].scan = launcher[n].scan
      BY <2>3, <3>1, LauncherFields DEF Launchers
    <3>3. Active(n)
      BY <2>3 DEF LauncherInv, NoLauncher
    <3> QED BY <2>2, <2>3, <3>2, <3>3 DEF LauncherInv, Active
  <2>4. CASE orphans[n] > 0 /\ orphans' = [orphans EXCEPT ![n] = @ - 1] /\ UNCHANGED launcher
    BY <2>2, <2>4, LauncherFields DEF LauncherInv, Active, TypeOK
  <2> QED BY <2>1, <2>3, <2>4
<1>7. CASE startStateMachine(n) \/ TimePasses(n) \/ ScanEnds(n)
  <2>1. UNCHANGED <<lstate, lext, orphans>>
    BY <1>7 DEF startStateMachine, TimePasses, ScanEnds
  <2>2. CASE startStateMachine(n)
    <3>1. /\ launcher'[n] = [launcher[n] EXCEPT !.sm = "start"]
          /\ launcher[n].sm = "none" /\ Active(n)
      BY <2>2 DEF startStateMachine, TypeOK
    <3>2. /\ launcher'[n].attempts = launcher[n].attempts /\ launcher'[n].sm = "start"
          /\ launcher'[n].id = launcher[n].id /\ launcher'[n].scan = launcher[n].scan
          /\ launcher'[n].result = launcher[n].result /\ launcher'[n].unwind = launcher[n].unwind
      BY <3>1, LauncherFields DEF Launchers
    <3> QED BY <2>1, <3>1, <3>2 DEF LauncherInv, Active
  <2>3. CASE TimePasses(n) \/ ScanEnds(n)
    <3>1. /\ launcher'[n].attempts = launcher[n].attempts /\ launcher'[n].sm = launcher[n].sm
          /\ launcher'[n].id = launcher[n].id /\ launcher'[n].result = launcher[n].result
          /\ launcher'[n].unwind = launcher[n].unwind
          /\ launcher'[n].scan # "none" => launcher[n].scan # "none"
          /\ Active(n)
      BY <2>3, LauncherFields DEF TimePasses, ScanEnds, Running, Launchers, TypeOK
    <3> QED BY <2>1, <3>1 DEF LauncherInv, Active
  <2> QED BY <1>7, <2>2, <2>3
<1>8. CASE SubmitCreate(n) \/ LearnId(n) \/ InstanceUp(n)
  <2>1. lstate' = lstate /\ orphans' = orphans /\ Active(n)
    BY <1>8 DEF SubmitCreate, LearnId, InstanceUp, Advancing, Running
  <2>2. launcher'[n].attempts = launcher[n].attempts
    BY <1>8, LauncherFields DEF SubmitCreate, LearnId, InstanceUp, Launchers, TypeOK
  <2>3. CASE SubmitCreate(n)
    <3>1. /\ launcher'[n].sm = "calling" /\ launcher'[n].id = launcher[n].id
          /\ launcher'[n].scan = launcher[n].scan /\ launcher[n].sm = "start"
      BY <2>3, LauncherFields DEF SubmitCreate, Launchers, TypeOK
    <3> QED BY <2>1, <2>2, <3>1 DEF LauncherInv, Active
  <2>4. CASE LearnId(n)
    <3>1. /\ launcher'[n].sm = "building" /\ launcher'[n].id = launcher[n].result
          /\ launcher'[n].scan = launcher[n].scan /\ launcher'[n].result = None
          /\ launcher[n].sm = "calling" /\ launcher[n].result # None
      BY <2>4, LauncherFields DEF LearnId, Launchers, TypeOK
    <3> QED BY <2>1, <2>2, <3>1 DEF LauncherInv, Active
  <2>5. CASE InstanceUp(n)
    <3>1. /\ launcher'[n].sm = "complete" /\ launcher'[n].id = launcher[n].id
          /\ launcher'[n].result = launcher[n].result
          /\ launcher[n].sm \in {"building", "complete"} /\ lext'[n] = launcher[n].id
      BY <2>5, LauncherFields DEF InstanceUp, Launchers, TypeOK
    <3> QED BY <2>1, <2>2, <3>1 DEF LauncherInv, Active
  <2> QED BY <1>8, <2>3, <2>4, <2>5
<1>9. CASE RetryRaises(n) /\ Active(n)
  <2>1. /\ launcher'[n].attempts = launcher[n].attempts + 1 /\ launcher'[n].sm = launcher[n].sm
        /\ launcher'[n].id = launcher[n].id /\ launcher'[n].result = launcher[n].result
        /\ launcher'[n].scan = "none" /\ launcher'[n].unwind = IdToDelete(n)
        /\ lext'[n] = IdToDelete(n)
    BY <1>9, LauncherFields DEF RetryRaises, Launchers, TypeOK
  <2>2. orphans' = orphans /\ lstate' = lstate
    BY <1>9 DEF RetryRaises
  <2>3. launcher'[n].attempts > 0 /\ orphans'[n] < launcher'[n].attempts /\ lstate[n] = "BUILDING"
    BY <1>9, <2>1, <2>2, LauncherFields DEF LauncherInv, Active, TypeOK
  <2>4. launcher[n].id # None => IdToDelete(n) = launcher[n].id
    BY DEF IdToDelete
  <2> QED BY <1>9, <2>1, <2>2, <2>3, <2>4 DEF LauncherInv, Active
<1>10. CASE FailAttempt(n) /\ Active(n) /\ (AbandonCall(n) \/ UNCHANGED <<orphans, stray>>)
  <2>1. CASE launcher[n].attempts >= Retries
    BY <1>1, <1>10, <2>1 DEF FailAttempt, TypeOK
  <2>2. CASE launcher[n].attempts < Retries
    <3>1. launcher'[n] = Restarted(n) /\ lext'[n] = IdToDelete(n) /\ lstate'[n] = "BUILDING"
      BY <1>10, <2>2, LauncherFields DEF FailAttempt, LauncherInv, TypeOK
    <3>2. orphans'[n] \in {orphans[n], orphans[n] + 1}
      BY <1>10 DEF AbandonCall, TypeOK
    <3>3. Active(n) /\ orphans[n] < launcher[n].attempts
      BY <1>10 DEF LauncherInv
    <3> QED
      BY <3>1, <3>2, <3>3, LauncherFields
         DEF LauncherInv, Active, Restarted, NoLauncher, TypeOK
  <2> QED BY <2>1, <2>2, LauncherFields
<1>11. CASE StartRaises(n) \/ LaunchTimeout(n) \/ LaunchError(n) \/ ScanFailed(n)
  <2>1. Active(n)
    BY <1>11 DEF StartRaises, LaunchTimeout, LaunchError, ScanFailed, Advancing, Running
  <2> QED
    BY <1>9, <1>10, <1>11, <2>1
       DEF StartRaises, LaunchTimeout, LaunchError, ScanFailed
<1> QED
  BY <1>2, <1>3, <1>4, <1>5, <1>6, <1>7, <1>8, <1>11 DEF NodeStep, LauncherStep

(* The launcher of a node keeps its invariant. *)
LEMMA LaunchersStep ==
    ASSUME TypeOK, \A n \in Nodes : NewInv(n) /\ LauncherInv(n), [Next]_vars, NEW m \in Nodes
    PROVE  LauncherInv(m)'
<1>1. CASE NodeStep(m)
  BY <1>1, LauncherOwnStep
<1>2. CASE UNCHANGED NodeVars(m)
  BY <1>2 DEF LauncherInv, NodeVars, Active
<1>3. CASE Crash
  BY <1>3 DEF Crash, LauncherInv, NoLauncher, Active
<1>4. CASE ExpireSession
  <2>1. \/ launcher'[m] = NoLauncher
        \/ /\ launcher'[m] = launcher[m] /\ lstate'[m] = lstate[m]
           /\ lext'[m] = lext[m] /\ orphans'[m] = orphans[m]
    BY <1>4 DEF ExpireSession
  <2>2. CASE launcher'[m] = NoLauncher
    BY <2>2 DEF LauncherInv, NoLauncher, Active
  <2>3. CASE /\ launcher'[m] = launcher[m] /\ lstate'[m] = lstate[m]
             /\ lext'[m] = lext[m] /\ orphans'[m] = orphans[m]
    BY <2>3 DEF LauncherInv, Active
  <2> QED BY <2>1, <2>2, <2>3
<1> QED
  BY <1>1, <1>2, <1>3, <1>4, NextCases, OthersUntouched, CleanupUntouched
-----------------------------------------------------------------------------
(* An id that a record or a thread gets is one the node has already, or    *)
(* one that no node has.                                                   *)
LEMMA NamesOf ==
    ASSUME TypeOK, NEW n \in Nodes, NodeStep(n), NEW i \in Instances, i \in Names(n)'
    PROVE  i \in Names(n) \/ (CloudCreates(n) /\ owner'[i] = n)
<1> USE ConstantsAssumption DEF zk, cloud, leaks, bounds
<1>1. CASE Launch(n) \/ HandlerUnlocks(n) \/ NodeUsed(n) \/ startNodeCleanup(n)
  <2>1. /\ zext'[n] \in {zext[n], lext[n]} /\ lext'[n] \in {lext[n], None}
        /\ did'[n] \in {did[n], zext[n]}
        /\ launcher'[n].id = launcher[n].id /\ launcher'[n].result = launcher[n].result
        /\ launcher'[n].unwind = launcher[n].unwind
    BY <1>1, LauncherFields
       DEF Launch, HandlerUnlocks, NodeUsed, startNodeCleanup, TypeOK, Launchers
  <2> QED BY <2>1 DEF Names
<1>2. CASE DeleterStep(n)
  BY <1>2
     DEF DeleterStep, StartDelete, DeleteComplete, DeleteFails, DeleterEnds, Names,
         TypeOK
<1>3. CASE CloudCreates(n)
  <2>1. PICK j \in Fresh :
           /\ owner' = [owner EXCEPT ![j] = n]
           /\ \/ launcher' = [launcher EXCEPT ![n].result = j]
              \/ UNCHANGED launcher
    BY <1>3 DEF CloudCreates
  <2>2. /\ UNCHANGED <<zext, lext, did>>
        /\ launcher'[n].id = launcher[n].id /\ launcher'[n].unwind = launcher[n].unwind
        /\ launcher'[n].result \in {launcher[n].result, j}
    BY <1>3, <2>1, LauncherFields DEF CloudCreates, TypeOK, Launchers
  <2> QED BY <1>3, <2>1, <2>2 DEF Names, Fresh, TypeOK
<1>4. ASSUME launcher'[n] = NoLauncher, zext'[n] \in {zext[n], lext[n], launcher[n].id},
             lext'[n] \in {lext[n], launcher[n].id}, did' = did
      PROVE  i \in Names(n)
  BY <1>4 DEF NoLauncher, Names, NoDelete
<1>5. CASE RetryRaises(n)
  <2>1. IdToDelete(n) \in {launcher[n].id, lext[n]}
    BY DEF IdToDelete
  <2>2. /\ launcher'[n].id = launcher[n].id /\ launcher'[n].result = launcher[n].result
        /\ launcher'[n].unwind = IdToDelete(n)
        /\ lext'[n] = IdToDelete(n) /\ zext'[n] \in {zext[n], IdToDelete(n)} /\ did' = did
    BY <1>5, LauncherFields DEF RetryRaises, Store, TypeOK, Launchers
  <2> QED BY <2>1, <2>2 DEF Names
<1>6. CASE FailAttempt(n)
  <2>1. IdToDelete(n) \in {launcher[n].id, lext[n]}
    BY DEF IdToDelete
  <2>2. /\ lext'[n] = IdToDelete(n) /\ zext'[n] \in {zext[n], IdToDelete(n)} /\ did' = did
        /\ launcher'[n] \in {NoLauncher, Restarted(n)}
    BY <1>6 DEF FailAttempt, Store, TypeOK
  <2>3. /\ Restarted(n).id = None /\ Restarted(n).result = None
        /\ Restarted(n).unwind = IdToDelete(n)
    BY DEF Restarted, NoLauncher
  <2> QED BY <2>1, <2>2, <2>3 DEF Names, NoLauncher, NoDelete
<1>7. CASE StartRaises(n) \/ LaunchTimeout(n) \/ LaunchError(n) \/ ScanFailed(n)
  BY <1>5, <1>6, <1>7 DEF StartRaises, LaunchTimeout, LaunchError, ScanFailed
<1>8. CASE LaunchReady(n) \/ ReadyStoreRaises(n) \/ LaunchAborted(n)
  BY <1>4, <1>8 DEF LaunchReady, ReadyStoreRaises, LaunchAborted, Store, TypeOK
<1>9. CASE \/ startStateMachine(n) \/ TimePasses(n) \/ SubmitCreate(n)
           \/ ScanEnds(n) \/ RunDelete(n)
  <2>1. /\ zext'[n] \in {zext[n], lext[n]} /\ lext' = lext /\ did' = did
        /\ launcher'[n].id = launcher[n].id /\ launcher'[n].result = launcher[n].result
        /\ launcher'[n].unwind \in {launcher[n].unwind, NoDelete}
    BY <1>9, LauncherFields
       DEF startStateMachine, TimePasses, SubmitCreate, ScanEnds, RunDelete, Store,
           TypeOK, Launchers
  <2> QED BY <2>1 DEF Names, NoDelete
<1>10. CASE LearnId(n) \/ InstanceUp(n)
  <2>1. /\ zext'[n] \in {zext[n], launcher[n].result, launcher[n].id}
        /\ lext'[n] \in {lext[n], launcher[n].result, launcher[n].id} /\ did' = did
    BY <1>10 DEF LearnId, InstanceUp, Store, TypeOK
  <2>2. /\ launcher'[n].id \in {launcher[n].id, launcher[n].result}
        /\ launcher'[n].result \in {launcher[n].result, None}
        /\ launcher'[n].unwind = NoDelete
    BY <1>10, LauncherFields DEF LearnId, InstanceUp, TypeOK, Launchers
  <2> QED BY <2>1, <2>2 DEF Names, NoDelete
<1> QED
  BY <1>1, <1>2, <1>3, <1>7, <1>8, <1>9, <1>10 DEF NodeStep, LauncherStep

(* No two nodes have the same id. *)
LEMMA NamesStep ==
    ASSUME TypeOK, NamesInv, [Next]_vars
    PROVE  NamesInv'
<1> SUFFICES ASSUME NEW m \in Nodes, NEW i \in Instances, i \in Names(m)'
             PROVE  owner'[i] \in {m, None}
  BY DEF NamesInv
<1>1. CASE NodeStep(m)
  <2>1. CASE i \in Names(m)
    BY <2>1, OwnersStep DEF NamesInv, Fresh
  <2> QED BY <1>1, <2>1, NamesOf
<1>2. CASE i \in Names(m)
  BY <1>2, OwnersStep DEF NamesInv, Fresh
<1>3. CASE UNCHANGED NodeVars(m)
  BY <1>2, <1>3 DEF Names, NodeVars
<1>4. CASE Crash
  BY <1>2, <1>4, ConstantsAssumption DEF Crash, Names, NoLauncher, NoDelete
<1>5. CASE ExpireSession
  <2>1. /\ zext'[m] = zext[m] /\ did'[m] = did[m]
        /\ \/ launcher'[m] = NoLauncher /\ lext'[m] = launcher[m].id
           \/ launcher'[m] = launcher[m] /\ lext'[m] = lext[m]
    BY <1>5 DEF ExpireSession
  <2> QED BY <1>2, <2>1, ConstantsAssumption DEF Names, NoLauncher, NoDelete
<1> QED
  BY <1>1, <1>3, <1>4, <1>5, NextCases, OthersUntouched, CleanupUntouched
-----------------------------------------------------------------------------
(* An instance that is of n after a step was so before, or has been made   *)
(* by the call that the launcher waits for; what was stray stays so.       *)
LEMMA OwnOf ==
    ASSUME TypeOK, [Next]_vars, NEW n \in Nodes, NEW i \in Own(n)'
    PROVE  \/ i \in Own(n)
           \/ /\ CloudCreates(n) /\ launcher[n].sm = "calling" /\ launcher[n].result = None
              /\ launcher'[n].sm = "calling" /\ launcher'[n].result = i
              /\ launcher'[n].attempts = launcher[n].attempts
<1> USE ConstantsAssumption DEF zk, cloud, leaks, bounds
<1>1. i \in Instances /\ i \notin stray' /\ owner'[i] = n
  BY DEF Own
<1>2. CASE owner[i] = n
  <2>1. i \notin stray
    <3>1. CASE \E k \in Nodes : NodeStep(k)
      BY <1>1, <3>1, NodeStepLeaves
    <3>2. CASE CleanupStep \/ UNCHANGED vars
      BY <1>1, <3>2 DEF CleanupStep, ReadKnown, DeleteLeaked, vars
    <3>3. CASE Crash \/ ExpireSession
      BY <1>1, <3>3 DEF Crash, ExpireSession
    <3>4. ASSUME NEW j \in Instances, CloudDeletes(j)
          PROVE  i \in stray => i \in stray'
      BY <1>1, <3>4 DEF CloudDeletes, TypeOK
    <3> QED BY <1>1, <3>1, <3>2, <3>3, <3>4, NextCases
  <2> QED BY <1>1, <1>2, <2>1 DEF Own
<1>3. CASE owner[i] # n
  <2>1. CloudCreates(n) /\ i \in Fresh
    BY <1>1, <1>3, OwnersStep
  <2>2. PICK j \in Fresh :
           /\ owner' = [owner EXCEPT ![j] = n]
           /\ \/ /\ launcher[n].sm = "calling" /\ launcher[n].result = None
                 /\ launcher' = [launcher EXCEPT ![n].result = j]
              \/ stray' = stray \cup {j}
    BY <2>1 DEF CloudCreates
  <2>3. j = i
    BY <1>1, <1>3, <2>2 DEF Fresh, TypeOK
  <2> QED BY <1>1, <2>1, <2>2, <2>3, LauncherFields DEF TypeOK, Launchers
<1> QED BY <1>2, <1>3

(* What an attempt that is given up leaves is what is to be deleted next:  *)
(* what its create call makes is stray.                                    *)
LEMMA FailureLeaves ==
    ASSUME TypeOK, [Next]_vars, NEW n \in Nodes, LauncherInv(n), ServerInv(n), Active(n),
           FailAttempt(n),
           \/ AbandonCall(n)
           \/ launcher[n].sm = "calling" => launcher[n].result = None
    PROVE  Own(n)' \subseteq {IdToDelete(n)}
<1> SUFFICES ASSUME NEW i \in Own(n)'
             PROVE  i = IdToDelete(n)
  OBVIOUS
<1>1. owner' = owner /\ i \in Instances /\ i \notin stray'
  BY DEF FailAttempt, Own
<1>2. i \in Own(n)
  <2>1. ~CloudCreates(n)
    BY <1>1, NoCreation
  <2> QED BY <2>1, OwnOf
<1>3. i = Making(n) /\ i # None /\ i # NoDelete
  BY <1>1, <1>2, ConstantsAssumption DEF ServerInv, NoDelete
<1>4. CASE launcher[n].sm = "calling"
  BY <1>1, <1>3, <1>4 DEF Making, AbandonCall
<1>5. CASE launcher[n].sm \in {"none", "start"}
  BY <1>3, <1>5 DEF Making, LauncherInv, IdToDelete
<1>6. CASE launcher[n].sm \in {"building", "complete"}
  BY <1>3, <1>6 DEF Making, IdToDelete
<1> QED BY <1>4, <1>5, <1>6, LauncherFields

(* The attempts that fail *)
LEMMA FailureCases ==
    ASSUME NEW n \in Nodes, LauncherInv(n),
           StartRaises(n) \/ LaunchTimeout(n) \/ LaunchError(n) \/ ScanFailed(n)
    PROVE  /\ Active(n)
           /\ \/ RetryRaises(n)
              \/ /\ FailAttempt(n)
                 /\ \/ AbandonCall(n)
                    \/ launcher[n].sm = "calling" => launcher[n].result = None
<1>1. CASE StartRaises(n) \/ LaunchTimeout(n)
  BY <1>1 DEF StartRaises, LaunchTimeout, Running
<1>2. CASE LaunchError(n)
  BY <1>2 DEF LaunchError, Advancing, Running
<1>3. CASE ScanFailed(n)
  BY <1>3 DEF ScanFailed, LauncherInv
<1> QED BY <1>1, <1>2, <1>3

(* A node has one instance at a time, and a launcher knows it.             *)
LEMMA ServersStep ==
    ASSUME TypeOK, \A n \in Nodes : NewInv(n) /\ LauncherInv(n) /\ ServerInv(n), [Next]_vars,
           NEW m \in Nodes
    PROVE  ServerInv(m)'
<1> USE ConstantsAssumption DEF zk, cloud, leaks, bounds
<1>0. \A i \in Own(m)' : /\ i \in Instances /\ i # None /\ i # NoDelete /\ owner'[i] = m
                         /\ i \in Own(m) => InCloud(i)
  BY DEF Own, NoDelete, InCloud
<1>1. ASSUME NEW i \in Own(m)', NEW j \in Own(m)'
      PROVE  i = j
  <2>1. CASE i \in Own(m) /\ j \in Own(m)
    BY <2>1 DEF ServerInv
  <2>2. ASSUME launcher[m].sm = "calling", launcher[m].result = None
        PROVE  Own(m) = {}
    <3>1. Active(m)
      BY <2>2 DEF LauncherInv, NoLauncher
    <3> QED BY <2>2, <3>1 DEF ServerInv, Making, Own
  <2>3. CASE i \notin Own(m) /\ j \notin Own(m)
    BY <2>3, OwnOf
  <2> QED BY <2>1, <2>2, <2>3, OwnOf
<1>2. ASSUME Active(m)'
      PROVE  Own(m)' \subseteq {Making(m)'}
  <2>1. CASE CloudCreates(m)
    <3>1. ASSUME NEW i \in Own(m)', i \notin Own(m)
          PROVE  i = Making(m)'
      BY <3>1, OwnOf DEF Making
    <3>2. ASSUME NEW i \in Own(m)', i \in Own(m)
          PROVE  i = Making(m)'
      <4>1. \/ UNCHANGED launcher
            \/ launcher[m].sm = "calling" /\ launcher[m].result = None
        BY <2>1 DEF CloudCreates
      <4>2. CASE UNCHANGED launcher
        BY <1>2, <3>2, <4>2 DEF ServerInv, Making, Active
      <4>3. CASE launcher[m].sm = "calling" /\ launcher[m].result = None
        BY <1>0, <3>2, <4>3 DEF ServerInv, Making, LauncherInv, NoLauncher
      <4> QED BY <4>1, <4>2, <4>3
    <3> QED BY <3>1, <3>2
  <2>2. ASSUME ~CloudCreates(m)
        PROVE  Own(m)' \subseteq Own(m)
    BY <2>2, OwnOf
  <2>3. CASE UNCHANGED launcher /\ ~CloudCreates(m)
    BY <1>2, <2>2, <2>3 DEF ServerInv, Making, Active
  <2>4. CASE launcher'[m] = launcher[m] /\ ~CloudCreates(m)
    BY <1>2, <2>2, <2>4 DEF ServerInv, Making, Active
  <2>5. CASE launcher'[m] = NoLauncher
    BY <1>2, <2>5 DEF Active, NoLauncher
  <2>6. CASE LauncherStep(m)
    <3>0. ~CloudCreates(m) /\ Own(m)' \subseteq Own(m)
      BY <2>2, <2>6, LauncherLeaves, NoCreation
    <3>1. Active(m)
      BY <2>6, LauncherLeaves
    <3>2. Own(m) \subseteq {Making(m)}
      BY <3>1 DEF ServerInv
    <3> USE <2>6, <3>0, <3>1, <3>2, LauncherFields
    <3>3. CASE startStateMachine(m)
      BY <1>0, <3>3 DEF startStateMachine, Making, LauncherInv
    <3>4. CASE SubmitCreate(m)
      <4>1. launcher[m].sm = "start" /\ ~InCloud(launcher[m].unwind)
        BY <3>4 DEF SubmitCreate, Advancing, DeletePending
      <4> QED BY <1>0, <4>1 DEF Making
    <3>5. CASE LearnId(m)
      <4>1. /\ launcher'[m].sm = "building" /\ launcher'[m].id = launcher[m].result
              /\ launcher[m].sm = "calling"
        BY <3>5 DEF LearnId, TypeOK, Launchers
      <4> QED BY <4>1 DEF Making
    <3>6. CASE InstanceUp(m)
      <4>1. /\ launcher'[m].sm = "complete" /\ launcher'[m].id = launcher[m].id
            /\ launcher[m].sm \in {"building", "complete"}
        BY <3>6 DEF InstanceUp, TypeOK, Launchers
      <4> QED BY <4>1 DEF Making
    <3>7. CASE TimePasses(m) \/ ScanEnds(m)
      <4>1. /\ launcher'[m].sm = launcher[m].sm /\ launcher'[m].id = launcher[m].id
            /\ launcher'[m].unwind = launcher[m].unwind /\ launcher'[m].result = launcher[m].result
        BY <3>7 DEF TimePasses, ScanEnds, TypeOK, Launchers
      <4> QED BY <4>1 DEF Making
    <3>8. CASE RunDelete(m) \/ LaunchReady(m) \/ ReadyStoreRaises(m) \/ LaunchAborted(m)
      <4>1. launcher'[m] \in {launcher[m], NoLauncher}
        BY <3>8 DEF RunDelete, LaunchReady, ReadyStoreRaises, LaunchAborted, TypeOK
      <4> QED BY <2>4, <2>5, <4>1
    <3>9. CASE RetryRaises(m)
      <4>1. /\ launcher'[m].sm = launcher[m].sm /\ launcher'[m].id = launcher[m].id
            /\ launcher'[m].unwind = IdToDelete(m) /\ launcher'[m].result = launcher[m].result
        BY <3>9 DEF RetryRaises, TypeOK, Launchers
      <4> QED BY <1>0, <4>1 DEF Making, LauncherInv, IdToDelete
    <3>10. ASSUME FailAttempt(m),
                  \/ AbandonCall(m)
                  \/ launcher[m].sm = "calling" => launcher[m].result = None
           PROVE  Own(m)' \subseteq {Making(m)'}
      <4>1. Own(m)' \subseteq {IdToDelete(m)}
        BY <3>10, FailureLeaves
      <4>2. launcher'[m] = Restarted(m)
        BY <1>2, <2>5, <3>10 DEF FailAttempt, TypeOK, Active, NoLauncher
      <4> QED BY <4>1, <4>2 DEF Making, Restarted, NoLauncher
    <3> QED
      BY <2>6, <3>3, <3>4, <3>5, <3>6, <3>7, <3>8, <3>9, <3>10, FailureCases
         DEF LauncherStep
  <2>7. CASE Launch(m)
    BY <1>0, <2>2, <2>7, ConstantsAssumption
       DEF Launch, NewInv, Own, CloudCreates, Fresh, TypeOK
  <2>8. CASE HandlerUnlocks(m) \/ NodeUsed(m) \/ startNodeCleanup(m) \/ DeleterStep(m)
    BY <2>2, <2>3, <2>8, NoCreation
       DEF HandlerUnlocks, NodeUsed, startNodeCleanup, DeleterStep, StartDelete,
           DeleteComplete, DeleteFails
  <2>9. CASE Crash
    BY <2>5, <2>9 DEF Crash
  <2>10. CASE ExpireSession
    <3>1. launcher'[m] = NoLauncher \/ launcher'[m] = launcher[m]
      BY <2>10 DEF ExpireSession
    <3>2. ~CloudCreates(m)
      BY <2>10, NoCreation DEF ExpireSession
    <3> QED BY <2>4, <2>5, <3>1, <3>2
  <2>11. CASE UNCHANGED NodeVars(m)
    BY <2>1, <2>4, <2>11 DEF NodeVars
  <2> QED
    BY <2>1, <2>6, <2>7, <2>8, <2>9, <2>10, <2>11, NextCases, OthersUntouched,
       CleanupUntouched
       DEF NodeStep
<1> QED BY <1>1, <1>2 DEF ServerInv
-----------------------------------------------------------------------------
(* A launcher stores its Node object: the id it has then is that of the    *)
(* znode.                                                                  *)
LEMMA LauncherStores ==
    ASSUME TypeOK, NEW n \in Nodes, LauncherStep(n)
    PROVE  /\ UNCHANGED <<lock, deleter, did>>
           /\ \/ /\ zstate'[n] = zstate[n] /\ zext'[n] = zext[n]
                 /\ Exists(n) => lext'[n] = lext[n]
              \/ /\ Exists(n) /\ zext'[n] = lext'[n]
                 /\ zstate'[n] \in {lstate[n], "BUILDING", "READY", "ABORTED"}
<1> DEFINE Stored == /\ Exists(n) /\ zext'[n] = lext'[n]
                     /\ zstate'[n] \in {lstate[n], "BUILDING", "READY", "ABORTED"}
           Kept == /\ zstate'[n] = zstate[n] /\ zext'[n] = zext[n]
                   /\ Exists(n) => lext'[n] = lext[n]
<1> USE DEF zk, cloud, leaks, bounds, TypeOK
<1>1. UNCHANGED <<lock, deleter, did>>
  BY LauncherLeaves
<1>2. CASE FailAttempt(n) \/ RetryRaises(n)
  BY <1>2 DEF FailAttempt, RetryRaises, Store, IdToDelete
<1>3. CASE startStateMachine(n) \/ LaunchReady(n) \/ ReadyStoreRaises(n) \/ LaunchAborted(n)
  BY <1>3 DEF startStateMachine, LaunchReady, ReadyStoreRaises, LaunchAborted, Store
<1>4. CASE LearnId(n) \/ InstanceUp(n)
  BY <1>4 DEF LearnId, InstanceUp, Store
<1>5. CASE TimePasses(n) \/ SubmitCreate(n) \/ ScanEnds(n) \/ RunDelete(n)
  BY <1>5 DEF TimePasses, SubmitCreate, ScanEnds, RunDelete
<1> QED
  BY <1>1, <1>2, <1>3, <1>4, <1>5
     DEF LauncherStep, StartRaises, LaunchTimeout, LaunchError, ScanFailed

(* A znode that is gone stays away, and a lock of the handler's is kept    *)
(* until it unlocks the node or the session ends.                          *)
LEMMA HeldStep ==
    ASSUME TypeOK, \A n \in Nodes : NewInv(n) /\ LauncherInv(n) /\ HeldInv(n), [Next]_vars,
           NEW m \in Nodes
    PROVE  /\ HeldInv(m)'
           /\ Exists(m)' => Exists(m) \/ zstate[m] = "new"
           /\ zstate[m] # "new" => zstate'[m] # "new"
<1> DEFINE Goal == /\ HeldInv(m)'
                   /\ Exists(m)' => Exists(m) \/ zstate[m] = "new"
                   /\ zstate[m] # "new" => zstate'[m] # "new"
<1>1. CASE LauncherStep(m)
  <2>1. zstate'[m] # "new" /\ lstate[m] = "BUILDING"
    BY <1>1, NoLongerNew, LauncherLeaves DEF NodeStep
  <2> QED BY <1>1, <2>1, LauncherStores DEF HeldInv, Exists, Present
<1>2. CASE Launch(m)
  BY <1>2 DEF Launch, NewInv, HeldInv, Exists, Present, TypeOK
<1>3. CASE HandlerUnlocks(m)
  <2>1. Exists(m) /\ zstate[m] # "new" /\ lock'[m] # "handler"
    BY <1>3, ConstantsAssumption DEF HandlerUnlocks, HeldInv, Exists, Present, TypeOK
  <2>2. zstate'[m] # "new"
    BY <1>3, NoLongerNew DEF NodeStep
  <2> QED BY <2>1, <2>2 DEF HeldInv
<1>4. CASE NodeUsed(m) \/ startNodeCleanup(m)
  BY <1>4
     DEF NodeUsed, startNodeCleanup, HeldInv, Exists, Present, CleanupStates, TypeOK
<1>5. CASE DeleterStep(m)
  <2>1. deleter[m] # "none" /\ lock[m] # "handler" /\ lock'[m] # "handler"
    BY <1>5, ConstantsAssumption
       DEF DeleterStep, StartDelete, DeleteComplete, DeleteFails, DeleterEnds, HeldInv,
           TypeOK
  <2>2. zstate'[m] # "new"
    BY <1>5, NoLongerNew DEF NodeStep
  <2> QED
    BY <1>5, <2>1, <2>2
       DEF DeleterStep, StartDelete, DeleteComplete, DeleteFails, HeldInv, Exists,
           Present, TypeOK
<1>6. CASE CloudCreates(m)
  BY <1>6 DEF CloudCreates, HeldInv, Exists, zk
<1>7. CASE Crash \/ ExpireSession
  BY <1>7, ConstantsAssumption DEF Crash, ExpireSession, HeldInv, Exists
<1>8. CASE UNCHANGED NodeVars(m)
  BY <1>8 DEF NodeVars, HeldInv, Exists
<1> QED
  BY <1>1, <1>2, <1>3, <1>4, <1>5, <1>6, <1>7, <1>8, NextCases, OthersUntouched,
     CleanupUntouched
     DEF NodeStep

(* Nodes that the cleanup has not seen twice running do not exist.         *)
LEMMA LeaksStep ==
    ASSUME TypeOK, LeaksInv, \A n \in Nodes : NewInv(n) /\ LauncherInv(n) /\ HeldInv(n), [Next]_vars
    PROVE  LeaksInv'
<1> USE ConstantsAssumption DEF zk, cloud, leaks, bounds
<1>1. CASE UNCHANGED leaks
  BY <1>1, HeldStep DEF LeaksInv, TypeOK
<1>2. CASE Crash
  BY <1>2 DEF Crash, LeaksInv
<1>3. CASE ReadKnown
  BY <1>3 DEF ReadKnown, LeaksInv, Exists
<1>4. CASE DeleteLeaked
  <2>1. \A n \in Unknown : zstate[n] # "new"
    BY DEF Unknown, NewInv
  <2>2. Unknown \subseteq Nodes
    BY DEF Unknown
  <2> QED BY <1>4, <2>1, <2>2 DEF DeleteLeaked, LeaksInv, Exists, Present
<1>5. ASSUME ExpireSession \/ (\E i \in Instances : CloudDeletes(i)) \/ UNCHANGED vars
      PROVE  UNCHANGED leaks
  BY <1>5 DEF ExpireSession, CloudDeletes, vars
<1> QED BY <1>1, <1>2, <1>3, <1>4, <1>5, NextCases, NodeStepLeaves DEF CleanupStep

(* The cleanup deletes instances only of nodes that are gone. *)
LEMMA LeakedGone ==
    ASSUME LeaksInv, pass = "listing", NEW n \in Leaked
    PROVE  ~Exists(n)
BY DEF LeaksInv, Leaked, Unknown
-----------------------------------------------------------------------------
(* What becomes of a launch in a step of its launcher *)
LEMMA LauncherOutcome ==
    ASSUME TypeOK, NEW n \in Nodes, LauncherInv(n), LauncherStep(n)
    PROVE  /\ Active(n) /\ lstate[n] = "BUILDING"
           /\ \/ lstate'[n] = "BUILDING" /\ zstate'[n] \in {zstate[n], "BUILDING"}
              \/ /\ launcher'[n] = NoLauncher
                 /\ \/ lstate'[n] = "READY" /\ zstate'[n] = "READY"
                    \/ lstate'[n] \in {"FAILED", "ABORTED"}
<1> USE DEF zk, cloud, leaks, bounds, TypeOK
<1>1. Active(n) /\ lstate[n] = "BUILDING"
  BY LauncherLeaves
<1>2. CASE RetryRaises(n) \/ startStateMachine(n) \/ LearnId(n) \/ InstanceUp(n)
  BY <1>1, <1>2 DEF RetryRaises, startStateMachine, LearnId, InstanceUp, Store
<1>3. CASE FailAttempt(n)
  <2>1. CASE launcher[n].attempts >= Retries
    BY <1>1, <1>3, <2>1 DEF FailAttempt
  <2>2. CASE ~(launcher[n].attempts >= Retries)
    BY <1>1, <1>3, <2>2 DEF FailAttempt, Store
  <2> QED BY <2>1, <2>2
<1>4. CASE LaunchReady(n) \/ ReadyStoreRaises(n) \/ LaunchAborted(n)
  BY <1>1, <1>4 DEF LaunchReady, ReadyStoreRaises, LaunchAborted, Store
<1>5. CASE TimePasses(n) \/ SubmitCreate(n) \/ ScanEnds(n) \/ RunDelete(n)
  BY <1>1, <1>5 DEF TimePasses, SubmitCreate, ScanEnds, RunDelete
<1> QED
  BY <1>1, <1>2, <1>3, <1>4, <1>5
     DEF LauncherStep, StartRaises, LaunchTimeout, LaunchError, ScanFailed

(* While the session lives, who works on a node holds its lock, and the    *)
(* Node object at hand says what the znode does.                           *)
LEMMA LocksStep ==
    ASSUME TypeOK, \A n \in Nodes : NewInv(n) /\ LauncherInv(n) /\ HeldInv(n),
           \A n \in Nodes : LockInv(n), [Next]_vars, ~ExpireSession, NEW m \in Nodes
    PROVE  LockInv(m)'
<1> USE ConstantsAssumption
<1>1. CASE LauncherStep(m)
  <2>1. /\ lock[m] = "handler" /\ deleter[m] = "none"
        /\ lock'[m] = "handler" /\ deleter'[m] = "none"
        /\ zstate[m] = "BUILDING" /\ lext[m] = zext[m] /\ Exists(m)
    BY <1>1, LauncherOutcome, LauncherStores DEF LockInv, HeldInv
  <2>2. lext'[m] = zext'[m]
    BY <1>1, <2>1, LauncherStores
  <2> QED BY <1>1, <2>1, <2>2, LauncherOutcome DEF LockInv, Active, NoLauncher
<1>2. CASE Launch(m)
  BY <1>2 DEF Launch, NewInv, LockInv, TypeOK
<1>3. CASE HandlerUnlocks(m)
  <2>1. ~Active(m) /\ deleter[m] = "none"
    BY <1>3 DEF HandlerUnlocks, LauncherInv, HeldInv
  <2>2. /\ lock'[m] = None /\ lstate'[m] = None /\ launcher' = launcher /\ deleter' = deleter
    BY <1>3 DEF HandlerUnlocks, TypeOK
  <2> QED BY <2>1, <2>2 DEF LockInv, Active
<1>4. CASE NodeUsed(m) \/ startNodeCleanup(m)
  BY <1>4
     DEF NodeUsed, startNodeCleanup, LockInv, LauncherInv, Active, CleanupStates,
         Present, TypeOK
<1>5. CASE StartDelete(m)
  BY <1>5 DEF StartDelete, LockInv, LauncherInv, Active, CleanupStates, Present, TypeOK
<1>6. CASE DeleteComplete(m) \/ DeleteFails(m)
  <2>1. lock[m] = "deleter" /\ lstate[m] = None /\ ~Active(m)
    BY <1>6 DEF DeleteComplete, DeleteFails, LockInv, LauncherInv
  <2>2. lock'[m] = None /\ deleter'[m] = "none" /\ lstate' = lstate /\ launcher' = launcher
    BY <1>6, <2>1 DEF DeleteComplete, DeleteFails, DeleterEnds, TypeOK
  <2> QED BY <2>1, <2>2 DEF LockInv, Active
<1>7. CASE CloudCreates(m)
  <2>1. launcher' = launcher \/ launcher[m].sm = "calling"
    BY <1>7 DEF CloudCreates
  <2>2. Active(m)' => Active(m)
    BY <2>1 DEF Active, LauncherInv, NoLauncher
  <2> QED BY <1>7, <2>2 DEF CloudCreates, LockInv, zk
<1>8. CASE Crash
  BY <1>8 DEF Crash, LockInv, NoLauncher, Active
<1>9. CASE UNCHANGED NodeVars(m)
  BY <1>9 DEF NodeVars, LockInv, Active
<1> QED
  BY <1>1, <1>2, <1>3, <1>4, <1>5, <1>6, <1>7, <1>8, <1>9, NextCases, OthersUntouched,
     CleanupUntouched
     DEF NodeStep, DeleterStep

(* The instance of a node that is not being launched is in its record.     *)
LEMMA RecordsStep ==
    ASSUME TypeOK, \A n \in Nodes : NewInv(n) /\ LauncherInv(n) /\ HeldInv(n) /\ ServerInv(n),
           \A n \in Nodes : LockInv(n) /\ RecordInv(n), [Next]_vars, ~ExpireSession,
           NEW m \in Nodes, LauncherInv(m)', LockInv(m)'
    PROVE  RecordInv(m)'
<1> USE ConstantsAssumption DEF zk
<1> SUFFICES ASSUME ~Active(m)', NEW i \in Own(m)'
             PROVE  i = zext'[m]
  BY DEF RecordInv
<1>1. /\ i \in Instances /\ i \notin stray' /\ owner'[i] = m
      /\ i \in Own(m) => owner[i] = m
  BY DEF Own
<1>2. i \in Own(m)
  BY OwnOf DEF Active, LauncherInv, NoLauncher
<1>3. CASE ~Active(m) /\ zext'[m] = zext[m]
  BY <1>2, <1>3 DEF RecordInv
<1>4. CASE LauncherStep(m)
  <2>1. launcher'[m] = NoLauncher /\ Active(m) /\ lext'[m] = zext'[m]
    <3>1. Active(m) /\ lstate[m] = "BUILDING" /\ lock'[m] = "handler"
      BY <1>4, LauncherOutcome, LauncherStores DEF LockInv
    <3>2. launcher'[m] = NoLauncher
      BY DEF LauncherInv
    <3> QED BY <3>1, <3>2 DEF LockInv
  <2>2. i = Making(m)
    BY <1>2, <2>1 DEF ServerInv
  <2>3. CASE LaunchReady(m) \/ ReadyStoreRaises(m)
    BY <2>1, <2>2, <2>3 DEF LaunchReady, ReadyStoreRaises, Making, LauncherInv
  <2>4. CASE LaunchAborted(m)
    BY <1>1, <2>1, <2>2, <2>4 DEF LaunchAborted, Making, TypeOK
  <2>5. ASSUME FailAttempt(m),
               \/ AbandonCall(m)
               \/ launcher[m].sm = "calling" => launcher[m].result = None
        PROVE  i = zext'[m]
    <3>1. i = IdToDelete(m)
      BY <2>1, <2>5, FailureLeaves
    <3>2. lext'[m] = IdToDelete(m)
      BY <2>5 DEF FailAttempt, TypeOK
    <3> QED BY <2>1, <3>1, <3>2
  <2>6. ASSUME launcher'[m].attempts >= launcher[m].attempts
        PROVE  FALSE
    BY <2>1, <2>6, LauncherFields DEF Active, NoLauncher
  <2>7. CASE RetryRaises(m)
    BY <2>6, <2>7, LauncherFields DEF RetryRaises, TypeOK, Launchers
  <2>8. CASE startStateMachine(m) \/ TimePasses(m) \/ RunDelete(m) \/ SubmitCreate(m) \/ LearnId(m)
             \/ InstanceUp(m) \/ ScanEnds(m)
    <3>1. launcher'[m].attempts = launcher[m].attempts
      BY <2>8, LauncherFields
         DEF startStateMachine, TimePasses, RunDelete, SubmitCreate, LearnId,
             InstanceUp, ScanEnds, TypeOK, Launchers
    <3> QED BY <2>6, <3>1, LauncherFields
  <2> QED BY <1>4, <2>3, <2>4, <2>5, <2>7, <2>8, FailureCases DEF LauncherStep
<1>5. CASE Launch(m)
  BY <1>1, <1>2, <1>5 DEF Launch, NewInv
<1>6. CASE HandlerUnlocks(m)
  <2>1. zext'[m] = zext[m] /\ ~Active(m)
    BY <1>6 DEF HandlerUnlocks, LockInv, LauncherInv, TypeOK
  <2> QED BY <1>3, <2>1
<1>7. CASE NodeUsed(m) \/ startNodeCleanup(m) \/ CloudCreates(m)
  <2>1. zext'[m] = zext[m] /\ ~Active(m)
    <3>1. UNCHANGED launcher \/ launcher'[m].sm = "calling"
      BY <1>7, LauncherFields
         DEF NodeUsed, startNodeCleanup, CloudCreates, TypeOK, Launchers
    <3>2. ~Active(m)
      BY <3>1 DEF Active, LauncherInv, NoLauncher
    <3> QED BY <1>7, <3>2 DEF NodeUsed, startNodeCleanup, CloudCreates
  <2> QED BY <1>3, <2>1
<1>8. CASE StartDelete(m) \/ DeleteFails(m)
  BY <1>3, <1>8 DEF StartDelete, DeleteFails, LockInv, LauncherInv, Active, TypeOK
<1>9. CASE DeleteComplete(m)
  <2>1. i = zext[m] /\ did[m] = zext[m] /\ owner[i] = m
    BY <1>1, <1>2, <1>9 DEF DeleteComplete, LockInv, LauncherInv, RecordInv, Active
  <2> QED BY <1>1, <1>9, <2>1 DEF DeleteComplete, InCloud
<1>10. CASE Crash
  BY <1>1, <1>2, <1>10 DEF Crash
<1>11. CASE UNCHANGED NodeVars(m)
  BY <1>3, <1>11 DEF NodeVars, Active
<1> QED
  BY <1>4, <1>5, <1>6, <1>7, <1>8, <1>9, <1>10, <1>11, NextCases, OthersUntouched,
     CleanupUntouched
     DEF NodeStep, DeleterStep
-----------------------------------------------------------------------------
(* What a step begins to delete *)
LEMMA DeletingStep ==
    ASSUME TypeOK, [Next]_vars, NEW i \in Instances, i \in deleting', i \notin deleting
    PROVE  \/ \E n \in Nodes : RunDelete(n) /\ i = launcher[n].unwind /\ owner[i] # None
           \/ \E n \in Nodes : StartDelete(n) /\ i = did[n] /\ owner[i] # None
           \/ pass = "listing" /\ owner[i] \in Leaked
<1> USE DEF zk, cloud, leaks, bounds
<1>1. ASSUME NEW n \in Nodes, NodeStep(n)
      PROVE  \/ RunDelete(n) /\ i = launcher[n].unwind /\ owner[i] # None
             \/ StartDelete(n) /\ i = did[n] /\ owner[i] # None
  BY <1>1, NodeStepLeaves DEF RunDelete, StartDelete, InCloud
<1>2. CASE CleanupStep
  BY <1>2 DEF CleanupStep, ReadKnown, DeleteLeaked
<1>3. CASE Crash \/ ExpireSession \/ UNCHANGED vars
  BY <1>3 DEF Crash, ExpireSession, vars
<1>4. ASSUME NEW j \in Instances, CloudDeletes(j)
      PROVE  FALSE
  BY <1>4 DEF CloudDeletes
<1> QED BY <1>1, <1>2, <1>3, <1>4, NextCases

(* Nobody but its own launcher deletes an instance of a node that exists   *)
(* and that no deleter has.                                                *)
LEMMA OnlyUnwound ==
    ASSUME TypeOK, NamesInv, LeaksInv, [Next]_vars, NEW m \in Nodes, Exists(m),
           deleter[m] = "none",
           NEW i \in Instances, i \in Names(m), i \in deleting', i \notin deleting
    PROVE  RunDelete(m) /\ i = launcher[m].unwind
<1>1. owner[i] \in {m, None}
  BY DEF NamesInv
<1>2. ASSUME NEW n \in Nodes, i \in Names(n), owner[i] # None
      PROVE  n = m
  BY <1>1, <1>2 DEF NamesInv
<1>3. \A n \in Nodes : launcher[n].unwind \in Names(n) /\ did[n] \in Names(n)
  BY DEF Names
<1>4. ~(pass = "listing" /\ owner[i] \in Leaked)
  BY <1>1, LeakedGone, ConstantsAssumption DEF Leaked, Unknown
<1>5. ~StartDelete(m)
  BY DEF StartDelete
<1> QED BY <1>2, <1>3, <1>4, <1>5, DeletingStep

(* A READY node is not touched. *)
LEMMA ReadyKept ==
    ASSUME TypeOK, NamesInv, LeaksInv, [Next]_vars, NEW m \in Nodes, LauncherInv(m),
           LockInv(m), ReadyInv(m), zstate[m] = "READY"
    PROVE  /\ owner'[zext[m]] = m
           /\ zext[m] \notin deleting'
<1>1. /\ zext[m] \in Instances /\ owner[zext[m]] = m /\ zext[m] \notin deleting
      /\ Exists(m) /\ deleter[m] = "none" /\ ~Active(m) /\ zext[m] \in Names(m)
  BY DEF ReadyInv, LockInv, Exists, Present, CleanupStates, TypeOK, Ids, Names
<1>2. ~RunDelete(m)
  BY <1>1 DEF RunDelete, Running
<1>3. zext[m] \notin deleting'
  BY <1>1, <1>2, OnlyUnwound
<1>4. owner'[zext[m]] = m
  BY <1>1, OwnersStep, ConstantsAssumption DEF Fresh
<1> QED BY <1>3, <1>4

(* The same holds of the instance that is scanned, and of one that the     *)
(* launcher has not heard of yet.                                          *)
LEMMA LaunchedKept ==
    ASSUME TypeOK, NamesInv, LeaksInv, [Next]_vars, NEW m \in Nodes,
           LauncherInv(m), HeldInv(m), LockInv(m), Active(m), 
           NEW i \in {launcher[m].id, launcher[m].result} \cap Instances, i \notin deleting
    PROVE  /\ i \in deleting' => RunDelete(m) /\ i = launcher[m].unwind
           /\ owner[i] = m => owner'[i] = m
<1>1. Exists(m) /\ deleter[m] = "none" /\ i \in Names(m)
  BY ConstantsAssumption DEF LockInv, LauncherInv, HeldInv, Names
<1>2. owner[i] = m => owner'[i] = m
  BY OwnersStep, ConstantsAssumption DEF Fresh
<1> QED BY <1>1, <1>2, OnlyUnwound

(* The instance that a node becomes READY with is there, and stays: what   *)
(* the scan has found is not what the launcher unwinds.                    *)
LEMMA ReadyStep ==
    ASSUME TypeOK, NamesInv, LeaksInv, [Next]_vars, ~ExpireSession,
           NEW m \in Nodes, LauncherInv(m), LockInv(m), BuildInv(m), ReadyInv(m)
    PROVE  ReadyInv(m)'
<1> USE ConstantsAssumption DEF zk, cloud, leaks, bounds
<1> SUFFICES ASSUME zstate'[m] = "READY"
             PROVE  /\ zext'[m] # None /\ owner'[zext'[m]] = m /\ zext'[m] \notin deleting'
  BY DEF ReadyInv
<1>1. CASE zstate[m] = "READY" /\ zext'[m] = zext[m]
  BY <1>1, ReadyKept DEF ReadyInv
<1>2. CASE LaunchReady(m) \/ ReadyStoreRaises(m)
  <2>1. /\ launcher[m].scan = "ok" /\ zext'[m] = lext[m] /\ UNCHANGED <<owner, deleting>>
    BY <1>2 DEF LaunchReady, ReadyStoreRaises, Store, TypeOK
  <2>2. /\ lext[m] = launcher[m].id /\ launcher[m].id # None
    BY <2>1 DEF LauncherInv
  <2>3. owner[launcher[m].id] = m /\ launcher[m].unwind = NoDelete
    BY <2>1 DEF BuildInv
  <2>4. launcher[m].id \notin deleting
    BY <2>2, <2>3, LauncherFields DEF BuildInv, NoDelete, Ids
  <2> QED BY <2>1, <2>2, <2>3, <2>4
<1>3. CASE LauncherStep(m)
  <2>1. zstate[m] = "BUILDING" /\ lstate[m] = "BUILDING"
    BY <1>3, LauncherOutcome DEF LockInv
  <2>2. ~FailAttempt(m) /\ ~LaunchAborted(m)
    BY <2>1 DEF FailAttempt, LaunchAborted, Store, TypeOK
  <2>3. LaunchReady(m) \/ ReadyStoreRaises(m)
    <3>1. ~RetryRaises(m) /\ ~startStateMachine(m) /\ ~LearnId(m) /\ ~InstanceUp(m)
      BY <2>1 DEF RetryRaises, startStateMachine, LearnId, InstanceUp, Store, TypeOK
    <3>2. ~TimePasses(m) /\ ~SubmitCreate(m) /\ ~ScanEnds(m) /\ ~RunDelete(m)
      BY <2>1 DEF TimePasses, SubmitCreate, ScanEnds, RunDelete
    <3> QED
      BY <1>3, <2>2, <3>1, <3>2
         DEF LauncherStep, StartRaises, LaunchTimeout, LaunchError, ScanFailed
  <2> QED BY <1>2, <2>3
<1>4. CASE HandlerUnlocks(m)
  BY <1>1, <1>4 DEF HandlerUnlocks, LockInv, TypeOK
<1>5. CASE Launch(m) \/ NodeUsed(m) \/ startNodeCleanup(m) \/ CloudCreates(m)
  BY <1>1, <1>5 DEF Launch, NodeUsed, startNodeCleanup, CloudCreates, TypeOK
<1>6. CASE DeleterStep(m)
  BY <1>1, <1>6 DEF DeleterStep, StartDelete, DeleteComplete, DeleteFails, TypeOK
<1>7. CASE Crash \/ UNCHANGED NodeVars(m)
  BY <1>1, <1>7 DEF Crash, NodeVars
<1> QED
  BY <1>3, <1>4, <1>5, <1>6, <1>7, NextCases, OthersUntouched, CleanupUntouched
     DEF NodeStep

(* What a launcher makes is deleted only by itself. *)
LEMMA BuildStep ==
    ASSUME TypeOK, TypeOK', NamesInv, LeaksInv, [Next]_vars, ~ExpireSession,
           NEW m \in Nodes, NewInv(m), LauncherInv(m), HeldInv(m), LockInv(m), BuildInv(m)
    PROVE  BuildInv(m)'
<1> DEFINE l == launcher[m]
           u == launcher'[m]
<1> USE ConstantsAssumption DEF zk, cloud, leaks, bounds
<1>1. /\ l.result # None => l.result \notin deleting'
      /\ l.id \in deleting' => l.id = l.unwind
      /\ l.id # None /\ l.unwind = NoDelete /\ owner[l.id] = m => owner'[l.id] = m
  <2>1. None \notin deleting'
    BY DEF TypeOK
  <2>2. CASE ~Active(m)
    BY <2>1, <2>2 DEF LauncherInv, NoLauncher
  <2>3. CASE Active(m)
    <3>1. /\ l.result # None => l.result \in Instances
          /\ l.id # None => l.id \in Instances
      BY LauncherFields DEF Ids
    <3>2. l.result # None => l.result \notin deleting'
      BY <2>3, <3>1, LaunchedKept DEF BuildInv
    <3>3. l.id \in deleting' => l.id = l.unwind
      BY <2>1, <2>3, <3>1, LaunchedKept DEF BuildInv
    <3>4. ASSUME l.id # None, l.unwind = NoDelete, owner[l.id] = m
          PROVE  owner'[l.id] = m
      <4>1. l.id \in Instances /\ l.id \notin deleting
        BY <3>1, <3>4 DEF BuildInv, NoDelete
      <4> QED BY <3>4, <4>1, OwnersStep DEF Fresh
    <3> QED BY <3>2, <3>3, <3>4
  <2> QED BY <2>2, <2>3
<1>2. ASSUME \/ u = NoLauncher
             \/ u.id = None /\ u.result = None /\ u.scan = "none" /\ u.sm # "complete"
      PROVE  BuildInv(m)'
  <2>1. None \notin deleting'
    BY DEF TypeOK
  <2> QED BY <1>2, <2>1 DEF BuildInv, NoLauncher
<1>3. ASSUME u = l, lext'[m] = lext[m]
      PROVE  BuildInv(m)'
  BY <1>1, <1>3 DEF BuildInv, LauncherInv
<1>4. CASE startStateMachine(m) \/ SubmitCreate(m)
  <2>1. u.id = l.id /\ u.result = l.result /\ u.scan = l.scan /\ u.sm \in {"start", "calling"}
        /\ l.sm \in {"none", "start"}
    BY <1>4, LauncherFields DEF startStateMachine, SubmitCreate, TypeOK, Launchers
  <2> QED BY <1>2, <2>1 DEF LauncherInv
<1>5. CASE TimePasses(m)
  <2>1. /\ u.id = l.id /\ u.result = l.result /\ u.scan = l.scan /\ u.sm = l.sm /\ u.unwind = l.unwind
        /\ u.late /\ lext' = lext
    BY <1>5, LauncherFields DEF TimePasses, TypeOK, Launchers
  <2> QED BY <1>1, <2>1 DEF BuildInv, LauncherInv
<1>6. CASE ScanEnds(m)
  <2>1. /\ u.id = l.id /\ u.result = l.result /\ u.sm = l.sm /\ u.unwind = l.unwind
        /\ u.scan \in {"ok", "failed"} /\ l.scan = "pending" /\ lext' = lext
        /\ u.scan = "ok" => ~HostKeyChecking \/ owner[l.id] = m
        /\ u.scan = "failed" => HostKeyChecking
    BY <1>6, LauncherFields DEF ScanEnds, TypeOK, Launchers
  <2>2. l.id # None
    BY <2>1 DEF LauncherInv
  <2> QED BY <1>1, <2>1, <2>2 DEF BuildInv
<1>7. CASE LearnId(m)
  <2>1. /\ u.id = l.result /\ u.result = None /\ u.scan = l.scan /\ u.sm = "building" /\ l.result # None
        /\ l.sm = "calling"
    BY <1>7, LauncherFields DEF LearnId, TypeOK, Launchers
  <2> QED BY <1>1, <2>1 DEF BuildInv, LauncherInv
<1>8. CASE InstanceUp(m)
  <2>1. /\ u.id = l.id /\ u.result = l.result /\ u.sm = "complete" /\ u.unwind = NoDelete
        /\ l.sm \in {"building", "complete"} /\ l.scan = "none" /\ ~l.late
        /\ l.sm = "building" => owner[l.id] = m
        /\ ~InCloud(l.unwind) /\ UNCHANGED <<owner, deleting>>
        /\ Exists(m) => u.scan = "pending"
    BY <1>8, LauncherFields DEF InstanceUp, Advancing, DeletePending, TypeOK, Launchers
  <2>2. Exists(m)
    BY <1>8 DEF InstanceUp, Advancing, Running, LockInv, HeldInv
  <2>3. l.id \notin deleting
    BY <2>1 DEF BuildInv, InCloud, TypeOK
  <2>4. l.result = None /\ l.id # None
    BY <2>1 DEF LauncherInv
  <2>5. ~HostKeyChecking => l.sm = "building"
    BY <2>1 DEF BuildInv
  <2>6. u.result = None /\ u.id \notin deleting' /\ u.scan = "pending" /\ u.unwind = NoDelete
    BY <2>1, <2>2, <2>3, <2>4
  <2>7. ~HostKeyChecking => owner'[u.id] = m
    BY <2>1, <2>5
  <2> QED BY <2>6, <2>7 DEF BuildInv
<1>9. ASSUME RetryRaises(m), ~HostKeyChecking /\ l.sm = "complete" => l.late
      PROVE  BuildInv(m)'
  <2>1. /\ u.id = l.id /\ u.result = l.result /\ u.sm = l.sm /\ u.unwind = IdToDelete(m)
        /\ u.scan = "none" /\ u.late = l.late /\ lext'[m] = IdToDelete(m)
    BY <1>9, LauncherFields DEF RetryRaises, TypeOK, Launchers
  <2>2. l.result # None => IdToDelete(m) = lext[m]
    BY DEF LauncherInv, IdToDelete
  <2>3. l.id # None => IdToDelete(m) = l.id
    BY DEF IdToDelete
  <2>4. None \notin deleting'
    BY DEF TypeOK
  <2> QED BY <1>1, <1>9, <2>1, <2>2, <2>3, <2>4 DEF BuildInv
<1>10. CASE FailAttempt(m)
  <2>1. u \in {NoLauncher, Restarted(m)}
    BY <1>10 DEF FailAttempt, TypeOK
  <2> QED BY <1>2, <2>1 DEF Restarted, NoLauncher
<1>11. CASE StartRaises(m) \/ LaunchTimeout(m) \/ LaunchError(m) \/ ScanFailed(m)
  <2>1. ~HostKeyChecking /\ l.sm = "complete" => l.late
    BY <1>11 DEF StartRaises, LaunchTimeout, LaunchError, ScanFailed, BuildInv
  <2> QED BY <1>9, <1>10, <1>11, <2>1, FailureCases
<1>12. CASE CloudCreates(m)
  <2>1. CASE UNCHANGED launcher
    BY <1>3, <1>12, <2>1 DEF CloudCreates
  <2>2. CASE ~UNCHANGED launcher
    <3>1. PICK i \in Fresh : launcher' = [launcher EXCEPT ![m].result = i]
      BY <1>12, <2>2 DEF CloudCreates
    <3>2. /\ u.id = l.id /\ u.result = i /\ u.sm = l.sm /\ u.unwind = l.unwind
          /\ u.scan = l.scan /\ u.late = l.late /\ lext' = lext /\ deleting' = deleting
      BY <1>12, <3>1, LauncherFields DEF CloudCreates, TypeOK, Launchers
    <3>3. i \notin deleting /\ i \notin {lext[m], l.unwind}
      BY <3>1 DEF Fresh, Names, TypeOK
    <3> QED BY <1>1, <3>2, <3>3 DEF BuildInv, LauncherInv
  <2> QED BY <2>1, <2>2
<1>13. CASE RunDelete(m) \/ LaunchReady(m) \/ ReadyStoreRaises(m) \/ LaunchAborted(m)
  BY <1>2, <1>3, <1>13
     DEF RunDelete, LaunchReady, ReadyStoreRaises, LaunchAborted, TypeOK
<1>14. CASE Launch(m)
  <2>1. u = [NoLauncher EXCEPT !.attempts = 1]
    BY <1>14 DEF Launch, NewInv, TypeOK
  <2> QED BY <1>2, <2>1 DEF NoLauncher
<1>15. CASE HandlerUnlocks(m)
  BY <1>2, <1>15 DEF HandlerUnlocks, LauncherInv
<1>16. CASE NodeUsed(m) \/ startNodeCleanup(m) \/ DeleterStep(m)
  BY <1>3, <1>16
     DEF NodeUsed, startNodeCleanup, DeleterStep, StartDelete, DeleteComplete,
         DeleteFails
<1>17. CASE Crash
  BY <1>2, <1>17 DEF Crash
<1>18. CASE UNCHANGED NodeVars(m)
  BY <1>3, <1>18 DEF NodeVars
<1> QED
  BY <1>4, <1>5, <1>6, <1>7, <1>8, <1>11, <1>12, <1>13, <1>14, <1>15, <1>16, <1>17,
     <1>18, NextCases, OthersUntouched, CleanupUntouched
     DEF NodeStep, LauncherStep
-----------------------------------------------------------------------------
(* Expired sessions are counted. *)
LEMMA ExpiriesStep ==
    ASSUME TypeOK, [Next]_vars, expiries' = 0
    PROVE  ~ExpireSession /\ expiries = 0
<1> USE DEF zk, cloud, leaks, bounds
<1>1. ~ExpireSession
  BY ConstantsAssumption DEF ExpireSession, TypeOK
<1>2. ASSUME Crash \/ CleanupStep \/ (\E i \in Instances : CloudDeletes(i)) \/ UNCHANGED vars
      PROVE  expiries' = expiries
  BY <1>2 DEF Crash, CleanupStep, ReadKnown, DeleteLeaked, CloudDeletes, vars
<1> QED BY <1>1, <1>2, NextCases, NodeStepLeaves

(* Nothing has been launched at first. *)
LEMMA IInvInit == Init => IInv
<1> SUFFICES ASSUME Init PROVE IInv
  OBVIOUS
<1> USE ConstantsAssumption DEF Init
<1>1. NoLauncher \in Launchers
  BY DEF NoLauncher, Launchers, Ids
<1>2. TypeOK
  BY <1>1 DEF TypeOK, Present, Ids
<1>3. \A n \in Nodes : /\ ~Active(n) /\ launcher[n] = NoLauncher
                         /\ Own(n) = {} /\ Names(n) \cap Instances = {}
  BY DEF Active, NoLauncher, Own, Names, NoDelete
<1>4. \A n \in Nodes : NewInv(n) /\ HeldInv(n) /\ LauncherInv(n) /\ ServerInv(n)
  BY <1>3 DEF NewInv, HeldInv, LauncherInv, ServerInv, NoLauncher
<1>5. NamesInv /\ LeaksInv
  BY <1>3 DEF NamesInv, LeaksInv
<1>6. \A n \in Nodes : LockInv(n) /\ RecordInv(n) /\ ReadyInv(n) /\ BuildInv(n)
  BY <1>3 DEF LockInv, RecordInv, ReadyInv, BuildInv, NoLauncher
<1> QED BY <1>2, <1>4, <1>5, <1>6 DEF IInv

(* Every step keeps the invariant. *)
LEMMA IInvStep == IInv /\ [Next]_vars => IInv'
<1> SUFFICES ASSUME IInv, [Next]_vars PROVE IInv'
  OBVIOUS
<1>1. /\ TypeOK /\ NamesInv /\ LeaksInv
      /\ \A n \in Nodes : NewInv(n) /\ HeldInv(n) /\ LauncherInv(n) /\ ServerInv(n)
  BY DEF IInv
<1>2. TypeOK'
  BY <1>1, TypeStep
<1>3. NamesInv' /\ LeaksInv'
  BY <1>1, NamesStep, LeaksStep
<1>4. \A n \in Nodes : NewInv(n)' /\ HeldInv(n)' /\ LauncherInv(n)' /\ ServerInv(n)'
  BY <1>1, NewStep, HeldStep, LaunchersStep, ServersStep
<1>5. ASSUME expiries' = 0
      PROVE  \A n \in Nodes : LockInv(n)' /\ RecordInv(n)' /\ ReadyInv(n)' /\ BuildInv(n)'
  <2>1. ~ExpireSession /\ expiries = 0
    BY <1>5, ExpiriesStep, <1>1
  <2>2. \A n \in Nodes : LockInv(n) /\ RecordInv(n) /\ ReadyInv(n) /\ BuildInv(n)
    BY <2>1 DEF IInv
  <2>3. \A n \in Nodes : LockInv(n)'
    BY <1>1, <2>1, <2>2, LocksStep
  <2>4. \A n \in Nodes : RecordInv(n)'
    BY <1>1, <1>4, <2>1, <2>2, <2>3, RecordsStep
  <2>5. \A n \in Nodes : ReadyInv(n)' /\ BuildInv(n)'
    BY <1>1, <1>2, <2>1, <2>2, ReadyStep, BuildStep
  <2> QED BY <2>3, <2>4, <2>5
<1> QED BY <1>2, <1>3, <1>4, <1>5 DEF IInv

-----------------------------------------------------------------------------
(* The invariant of the launch, the deletion and the cleanup, for every    *)
(* number of nodes, instances, retries, crashes, faults and expiries.      *)
THEOREM LaunchInvariant == Spec => []IInv
<1>1. IInv /\ UNCHANGED vars => IInv'
  BY IInvStep
<1> QED BY IInvInit, IInvStep, PTL DEF Spec

(* Every variable stays within its type; that of orphans bounds the create *)
(* calls nobody waits for by the number of attempts.                       *)
THEOREM TypeCorrect == Spec => []TypeOK
<1>1. IInv => TypeOK
  BY DEF IInv
<1> QED BY <1>1, LaunchInvariant, PTL

(* StateMachineNodeLauncher never has two servers for a node, as far as it *)
(* was told of them, in any run of failures, crashes and expired sessions. *)
THEOREM OneServer == Spec => []OneServerPerNode
<1>1. IInv => OneServerPerNode
  BY ConstantsAssumption DEF IInv, OneServerPerNode, ServerInv, Own, TypeOK
<1> QED BY <1>1, LaunchInvariant, PTL

(* What a launch has made and nobody works on is in the znode: storeNode   *)
(* comes before the unlock on every path out of the launcher.              *)
THEOREM RecordKept == Spec => []InstanceRecorded
<1>1. IInv => InstanceRecorded
  <2> SUFFICES ASSUME IInv, expiries = 0, NEW i \in Instances \ stray, owner[i] # None,
                      lock[owner[i]] = None
               PROVE  zext[owner[i]] = i
    BY DEF InstanceRecorded
  <2>1. owner[i] \in Nodes /\ i \in Own(owner[i])
    BY DEF IInv, TypeOK, Own
  <2>2. ~Active(owner[i])
    BY <2>1, ConstantsAssumption DEF IInv, LockInv, LauncherInv
  <2> QED BY <2>1, <2>2 DEF IInv, RecordInv
<1> QED BY <1>1, LaunchInvariant, PTL

(* Neither the unwinding of failed attempts, nor the deleter, nor          *)
(* cleanupLeakedResources with its outdated list takes the instance of a   *)
(* READY node.                                                             *)
THEOREM ReadyHasInstance == Spec => []ReadyNodeHasInstance
<1>1. IInv => ReadyNodeHasInstance
  BY DEF IInv, ReadyInv, ReadyNodeHasInstance
<1> QED BY <1>1, LaunchInvariant, PTL
=============================================================================
