----------------------------- MODULE NodeLaunch -----------------------------
(***************************************************************************)
(* What the state machine driver does between a handler's launch(node) and *)
(* the deletion of the node: attempts and retries of the launch, external  *)
(* ids, the delete state machine that unwinds a failed attempt, the        *)
(* deleter, and the two-pass cleanup of leaked resources.                  *)
(*                                                                         *)
(* One provider in one launcher process.  A node is used once: its id is a *)
(* ZooKeeper sequence number.  What the cloud does is nondeterministic:    *)
(* a create call may succeed after its caller has given up.                *)
(***************************************************************************)
EXTENDS Naturals, FiniteSets

CONSTANTS
    Nodes,
    Instances,      \* external ids; one is used again once nothing has it
    Retries,        \* launch_retries: how often a launch is attempted
    HostKeyChecking,\* label.host_key_checking
    MaxCrashes,     \* bound: crashes of the process, which is started again
    MaxFaults,      \* bound: operations that raise although nothing is wrong
    MaxExpiries,    \* bound: ZooKeeper sessions that expire
    None

ASSUME ConstantsAssumption ==
    /\ None \notin Nodes \cup Instances
    /\ None \notin {"handler", "deleter", "BUILDING", "READY", "FAILED", "ABORTED"}
    /\ "nothing" \notin Instances \cup {None}
    /\ Retries \in Nat \ {0}
    /\ HostKeyChecking \in BOOLEAN
    /\ MaxCrashes \in Nat /\ MaxFaults \in Nat /\ MaxExpiries \in Nat

VARIABLES
    zstate, zext, lock,     \* a node's znode: state, external_id, who holds its lock
    lstate, lext,           \* the Node object of its handler and its launcher
    launcher,               \* StateMachineNodeLauncher, by node
    deleter, did,           \* StateMachineNodeDeleter, by node: where it is, whose id
    owner, deleting,        \* the cloud: nodepool_node_id by instance; being deleted
    orphans,                \* create calls that nobody waits for, by node
    pass, known, seen, possibly, \* cleanupLeakedResources
    stray,                  \* history: instances whose id nobody was told, or lost
    crashes, faults, expiries

zk == <<zstate, zext, lock>>
cloud == <<owner, deleting, orphans>>
leaks == <<pass, known, seen, possibly>>
bounds == <<crashes, faults, expiries>>
vars == <<zk, lstate, lext, launcher, deleter, did, cloud, leaks, stray, bounds>>

Present == {"BUILDING", "READY", "USED", "FAILED", "ABORTED", "DELETING"}
CleanupStates == Present \ {"READY"}
Ids == Instances \cup {None}

\* No delete state machine.  (One for no id is done as soon as it runs.)
NoDelete == "nothing"

Launchers ==
    [attempts: 0..Retries,
     sm: {"none", "start", "calling", "building", "complete"},
     id: Ids,               \* state_machine.external_id
     result: Ids,           \* what the create call has returned
     unwind: Ids \cup {NoDelete},  \* delete_state_machine.external_id
     scan: {"none", "pending", "ok", "failed"},
     late: BOOLEAN]         \* state_machine.start_time is past launch_timeout

NoLauncher == [attempts |-> 0, sm |-> "none", id |-> None, result |-> None,
               unwind |-> NoDelete, scan |-> "none", late |-> FALSE]

TypeOK ==
    /\ zstate \in [Nodes -> Present \cup {"new", "deleted"}]
    /\ zext \in [Nodes -> Ids]
    /\ lock \in [Nodes -> {None, "handler", "deleter"}]
    /\ lstate \in [Nodes -> {None, "BUILDING", "READY", "FAILED", "ABORTED"}]
    /\ lext \in [Nodes -> Ids]
    /\ launcher \in [Nodes -> Launchers]
    /\ deleter \in [Nodes -> {"none", "start", "deleting"}]
    /\ did \in [Nodes -> Ids]
    /\ owner \in [Instances -> Nodes \cup {None}]
    /\ deleting \in SUBSET {i \in Instances : owner[i] # None}
    /\ orphans \in [Nodes -> 0..Retries]
    /\ pass \in {"idle", "listing"}
    /\ known \in SUBSET Nodes /\ seen \in SUBSET Nodes /\ possibly \in SUBSET Nodes
    /\ stray \in SUBSET Instances
    /\ crashes \in 0..MaxCrashes /\ faults \in 0..MaxFaults
    /\ expiries \in 0..MaxExpiries

Init ==
    /\ zstate = [n \in Nodes |-> "new"] /\ zext = [n \in Nodes |-> None]
    /\ lock = [n \in Nodes |-> None]
    /\ lstate = [n \in Nodes |-> None] /\ lext = [n \in Nodes |-> None]
    /\ launcher = [n \in Nodes |-> NoLauncher]
    /\ deleter = [n \in Nodes |-> "none"] /\ did = [n \in Nodes |-> None]
    /\ owner = [i \in Instances |-> None] /\ deleting = {}
    /\ orphans = [n \in Nodes |-> 0]
    /\ pass = "idle" /\ known = {} /\ seen = {} /\ possibly = {}
    /\ stray = {}
    /\ crashes = 0 /\ faults = 0 /\ expiries = 0

Exists(n) == zstate[n] \in Present
Active(n) == launcher[n].attempts > 0

(* Bound: a behaviour in which the session expires has no other mishap. *)
Faulty ==
    /\ expiries = 0 /\ faults < MaxFaults /\ faults' = faults + 1
    /\ UNCHANGED <<crashes, expiries>>
----------------------------------------------------------------------------
(* The launch *)

(* launch() for the first time, from the handler that has stored and       *)
(* locked the node: the state machine is started by another thread.        *)
Launch(n) ==
    /\ zstate[n] = "new"
    /\ zstate' = [zstate EXCEPT ![n] = "BUILDING"]
    /\ lock' = [lock EXCEPT ![n] = "handler"]
    /\ lstate' = [lstate EXCEPT ![n] = "BUILDING"]
    /\ launcher' = [launcher EXCEPT ![n].attempts = 1]
    /\ UNCHANGED <<zext, lext, deleter, did, cloud, leaks, stray, bounds>>

(* storeNode(node): the whole Node object is written *)
Store(n, state, id) ==
    /\ Exists(n)
    /\ zstate' = [zstate EXCEPT ![n] = state]
    /\ zext' = [zext EXCEPT ![n] = id]
    /\ UNCHANGED lock

startStateMachine(n) ==
    /\ Active(n) /\ launcher[n].attempts = 1 /\ launcher[n].sm = "none"
    /\ lstate[n] = "BUILDING"
    /\ Store(n, "BUILDING", lext[n])
    /\ launcher' = [launcher EXCEPT ![n].sm = "start"]
    /\ UNCHANGED <<lstate, lext, deleter, did, cloud, leaks, stray, bounds>>

(* A create call whose state machine is given up goes on: what it has      *)
(* made, or will make, is known to nobody.                                 *)
AbandonCall(n) ==
    IF launcher[n].sm # "calling" THEN UNCHANGED <<orphans, stray>>
    ELSE IF launcher[n].result = None
         THEN orphans' = [orphans EXCEPT ![n] = @ + 1] /\ UNCHANGED stray
         ELSE stray' = stray \cup {launcher[n].result} /\ UNCHANGED orphans

(* The id of what the failed attempt leaves: its own, or the one before *)
IdToDelete(n) == IF launcher[n].id = None THEN lext[n] ELSE launcher[n].id

(* launch() after a failed attempt: a delete state machine for the old     *)
(* instance and a create state machine for the new one.                    *)
Restarted(n) ==
    [NoLauncher EXCEPT !.attempts = launcher[n].attempts + 1, !.sm = "start",
                       !.unwind = IdToDelete(n)]

(* An exception ends the attempt.  The external id is stored; unless this  *)
(* was the last attempt the launch begins anew, which stores the node once *)
(* more.  The state of a failed node is not stored.                        *)
FailAttempt(n) ==
    LET last == launcher[n].attempts >= Retries IN
    /\ lext' = [lext EXCEPT ![n] = IdToDelete(n)]
    /\ IF launcher[n].id # None \/ ~last
       THEN Store(n, lstate[n], IdToDelete(n)) ELSE UNCHANGED zk
    /\ lstate' = IF last THEN [lstate EXCEPT ![n] = "FAILED"] ELSE lstate
    /\ launcher' = [launcher EXCEPT ![n] = IF last THEN NoLauncher ELSE Restarted(n)]
    /\ UNCHANGED <<deleter, did, owner, deleting, leaks>>

(* startStateMachine raises in a retry, out of the handler of the first    *)
(* exception: the attempt is counted and the old state machine stays.      *)
RetryRaises(n) ==
    /\ launcher[n].attempts < Retries
    /\ IF Exists(n) THEN Faulty ELSE launcher[n].id = None /\ UNCHANGED bounds
    /\ lext' = [lext EXCEPT ![n] = IdToDelete(n)]
    /\ IF launcher[n].id # None THEN Store(n, lstate[n], IdToDelete(n)) ELSE UNCHANGED zk
    /\ launcher' = [launcher EXCEPT ![n].attempts = @ + 1, ![n].scan = "none",
                                    ![n].unwind = IdToDelete(n)]
    /\ UNCHANGED <<lstate, deleter, did, cloud, leaks, stray>>

(* Starting the first state machine raises: no image, or a failing store.  *)
StartRaises(n) ==
    /\ Active(n) /\ launcher[n].sm = "none" /\ lstate[n] = "BUILDING"
    /\ \/ FailAttempt(n) /\ Faulty /\ UNCHANGED <<orphans, stray>>
       \/ RetryRaises(n)

(* runStateMachine gets past the check for a finished scan *)
Running(n) ==
    /\ Active(n) /\ launcher[n].sm # "none" /\ lstate[n] = "BUILDING"
    /\ launcher[n].scan \in {"none", "pending"}

(* From now on the attempt is older than launch_timeout. *)
TimePasses(n) ==
    /\ Running(n) /\ ~launcher[n].late
    /\ launcher' = [launcher EXCEPT ![n].late = TRUE]
    /\ UNCHANGED <<zk, lstate, lext, deleter, did, cloud, leaks, stray, bounds>>

LaunchTimeout(n) ==
    /\ Running(n) /\ launcher[n].late
    /\ \/ FailAttempt(n) /\ AbandonCall(n) /\ UNCHANGED bounds
       \/ RetryRaises(n)

InCloud(i) == i \in Instances /\ owner[i] # None

\* Mutant: the next attempt goes ahead beside the delete.
DeletePending_Ignored(n) == FALSE

(* runDeleteStateMachine does not return True: what is to be deleted is    *)
(* still there.                                                            *)
DeletePending(n) == InCloud(launcher[n].unwind)

(* runDeleteStateMachine advances.  An exception makes a new delete state  *)
(* machine for the same id.                                                *)
RunDelete(n) ==
    /\ Running(n) /\ ~launcher[n].late /\ InCloud(launcher[n].unwind)
    /\ launcher[n].unwind \notin deleting
    /\ deleting' = deleting \cup {launcher[n].unwind}
    /\ UNCHANGED <<zk, lstate, lext, launcher, deleter, did, owner, orphans, leaks,
                   stray, bounds>>

(* The attempt's own state machine may advance. *)
Advancing(n) == Running(n) /\ ~launcher[n].late /\ ~DeletePending(n)

SubmitCreate(n) ==
    /\ Advancing(n) /\ launcher[n].sm = "start"
    /\ launcher' = [launcher EXCEPT ![n].sm = "calling", ![n].unwind = NoDelete]
    /\ UNCHANGED <<zk, lstate, lext, deleter, did, cloud, leaks, stray, bounds>>

(* The create call has returned an id, which is stored only if the node    *)
(* has none: in a retry it still has that of the attempt before.           *)
LearnId(n) ==
    LET i == launcher[n].result
        new == lext[n] = None IN
    /\ Advancing(n) /\ launcher[n].sm = "calling" /\ i # None
    /\ launcher' = [launcher EXCEPT ![n].sm = "building", ![n].id = i,
                                    ![n].result = None, ![n].unwind = NoDelete]
    /\ lext' = IF new THEN [lext EXCEPT ![n] = i] ELSE lext
    /\ IF new /\ Exists(n) THEN Store(n, lstate[n], i) ELSE UNCHANGED zk
    /\ UNCHANGED <<lstate, deleter, did, cloud, leaks, stray, bounds>>

(* The instance is up (a state machine that is complete says so again).    *)
(* updateNodeFromInstance stores the node, and a scan is requested.  When  *)
(* the znode is gone the store raises, and so does the one in the handler. *)
InstanceUp(n) ==
    /\ Advancing(n) /\ launcher[n].scan = "none"
    /\ \/ launcher[n].sm = "building" /\ owner[launcher[n].id] = n
       \/ launcher[n].sm = "complete"
    /\ lext' = [lext EXCEPT ![n] = launcher[n].id]
    /\ IF Exists(n) THEN Store(n, lstate[n], launcher[n].id) ELSE UNCHANGED zk
    /\ launcher' = [launcher EXCEPT ![n].sm = "complete", ![n].unwind = NoDelete,
                        ![n].scan = IF Exists(n) THEN "pending" ELSE "none"]
    /\ UNCHANGED <<lstate, deleter, did, cloud, leaks, stray, bounds>>

(* The create call fails, or the instance is in error or gone. *)
LaunchError(n) ==
    /\ Advancing(n)
    /\ \/ launcher[n].sm = "calling" /\ launcher[n].result = None
       \/ launcher[n].sm = "building"
    /\ \/ FailAttempt(n) /\ UNCHANGED <<orphans, stray, bounds>>
       \/ RetryRaises(n)

\* Mutant: ABORTED is stored without the id.
LaunchAborted_NoId(n) ==
    /\ Advancing(n)
    /\ \/ launcher[n].sm = "calling" /\ launcher[n].result = None
       \/ launcher[n].sm = "building"
    /\ lstate' = [lstate EXCEPT ![n] = "ABORTED"]
    /\ Store(n, "ABORTED", lext[n])
    /\ launcher' = [launcher EXCEPT ![n] = NoLauncher]
    /\ UNCHANGED <<lext, deleter, did, cloud, leaks, stray, bounds>>

(* QuotaException: the launch is not retried, and what it has made is left *)
(* to the deleter.                                                         *)
LaunchAborted(n) ==
    /\ Advancing(n)
    /\ \/ launcher[n].sm = "calling" /\ launcher[n].result = None
       \/ launcher[n].sm = "building"
    /\ lstate' = [lstate EXCEPT ![n] = "ABORTED"]
    /\ lext' = [lext EXCEPT ![n] = launcher[n].id]
    /\ Store(n, "ABORTED", launcher[n].id)
    /\ launcher' = [launcher EXCEPT ![n] = NoLauncher]
    /\ UNCHANGED <<deleter, did, cloud, leaks, stray, bounds>>

(* The NodescanWorker is done: without host key checking at once, else by  *)
(* connecting to the instance.                                             *)
ScanEnds(n) ==
    /\ Active(n) /\ launcher[n].scan = "pending"
    /\ \E result \in {"ok", "failed"} :
          /\ result = "ok" => ~HostKeyChecking \/ owner[launcher[n].id] = n
          /\ result = "failed" => HostKeyChecking
          /\ launcher' = [launcher EXCEPT ![n].scan = result]
    /\ UNCHANGED <<zk, lstate, lext, deleter, did, cloud, leaks, stray, bounds>>

ScanFailed(n) ==
    /\ Active(n) /\ launcher[n].scan = "failed"
    /\ \/ FailAttempt(n) /\ UNCHANGED <<orphans, stray, bounds>>
       \/ RetryRaises(n)

LaunchReady(n) ==
    /\ Active(n) /\ launcher[n].scan = "ok" /\ lstate[n] = "BUILDING"
    /\ lstate' = [lstate EXCEPT ![n] = "READY"]
    /\ Store(n, "READY", lext[n])
    /\ launcher' = [launcher EXCEPT ![n] = NoLauncher]
    /\ UNCHANGED <<lext, deleter, did, cloud, leaks, stray, bounds>>

(* The store of a READY node raises, and the handler of that stores it:    *)
(* READY is in the Node object already.  In the last attempt the object    *)
(* becomes FAILED; in another one a retry is prepared, but the launcher is *)
(* complete, because the node is not BUILDING, and never runs again.       *)
ReadyStoreRaises(n) ==
    /\ Active(n) /\ launcher[n].scan = "ok" /\ lstate[n] = "BUILDING" /\ Faulty
    /\ lstate' = [lstate EXCEPT ![n] = IF launcher[n].attempts >= Retries
                                       THEN "FAILED" ELSE "READY"]
    /\ Store(n, "READY", lext[n])
    /\ launcher' = [launcher EXCEPT ![n] = NoLauncher]
    /\ UNCHANGED <<lext, deleter, did, cloud, leaks, stray>>

(* The handler is done with the node: poll() or a decline unlocks it, and  *)
(* stores it first if its allocation is cleared.                           *)
HandlerUnlocks(n) ==
    /\ lock[n] = "handler" /\ lstate[n] \in {"READY", "FAILED", "ABORTED"}
    /\ \/ UNCHANGED <<zstate, zext>>
       \/ /\ zstate' = [zstate EXCEPT ![n] = lstate[n]]
          /\ zext' = [zext EXCEPT ![n] = lext[n]]
    /\ lock' = [lock EXCEPT ![n] = None]
    /\ lstate' = [lstate EXCEPT ![n] = None]
    /\ lext' = [lext EXCEPT ![n] = None]
    /\ UNCHANGED <<launcher, deleter, did, cloud, leaks, stray, bounds>>
----------------------------------------------------------------------------
(* The deletion *)

(* Zuul has used the node and unlocked it. *)
NodeUsed(n) ==
    /\ zstate[n] = "READY" /\ lock[n] = None
    /\ zstate' = [zstate EXCEPT ![n] = "USED"]
    /\ UNCHANGED <<zext, lock, lstate, lext, launcher, deleter, did, cloud, leaks,
                   stray, bounds>>

(* DeletedNodeWorker: an unlocked node to clean up is locked and given to  *)
(* a deleter, whose Node object has what is stored now.                    *)
startNodeCleanup(n) ==
    /\ zstate[n] \in CleanupStates /\ lock[n] = None /\ deleter[n] = "none"
    /\ lock' = [lock EXCEPT ![n] = "deleter"]
    /\ deleter' = [deleter EXCEPT ![n] = "start"]
    /\ did' = [did EXCEPT ![n] = zext[n]]
    /\ UNCHANGED <<zstate, zext, lstate, lext, launcher, cloud, leaks, stray, bounds>>

DeleterEnds(n) ==
    /\ deleter' = [deleter EXCEPT ![n] = "none"]
    /\ did' = [did EXCEPT ![n] = None]
    /\ lock' = [lock EXCEPT ![n] = IF @ = "deleter" THEN None ELSE @]

\* Mutant: a delete is started for a node without an id.
StartDelete_NoId(n) ==
    /\ deleter[n] = "start" /\ Exists(n)
    /\ zstate' = [zstate EXCEPT ![n] = "DELETING"]
    /\ zext' = [zext EXCEPT ![n] = did[n]]
    /\ deleter' = [deleter EXCEPT ![n] = "deleting"]
    /\ deleting' = deleting \cup {did[n]}
    /\ UNCHANGED <<lock, lstate, lext, launcher, did, owner, orphans, leaks, stray,
                   bounds>>

(* DELETING is stored and the delete state machine is started *)
StartDelete(n) ==
    /\ deleter[n] = "start" /\ Exists(n)
    /\ zstate' = [zstate EXCEPT ![n] = "DELETING"]
    /\ zext' = [zext EXCEPT ![n] = did[n]]
    /\ deleter' = [deleter EXCEPT ![n] = "deleting"]
    /\ deleting' = IF InCloud(did[n]) THEN deleting \cup {did[n]} ELSE deleting
    /\ UNCHANGED <<lock, lstate, lext, launcher, did, owner, orphans, leaks, stray,
                   bounds>>

(* The instance is gone, or there never was an id: the znode is deleted,   *)
(* and the lock with it.                                                   *)
DeleteComplete(n) ==
    /\ deleter[n] = "deleting" /\ ~InCloud(did[n])
    /\ zstate' = [zstate EXCEPT ![n] = "deleted"]
    /\ zext' = [zext EXCEPT ![n] = None]
    /\ DeleterEnds(n)
    /\ UNCHANGED <<lstate, lext, launcher, cloud, leaks, stray, bounds>>

(* An exception or DELETE_TIMEOUT: the node is unlocked and kept. *)
DeleteFails(n) ==
    /\ deleter[n] # "none" /\ Faulty
    /\ DeleterEnds(n)
    /\ UNCHANGED <<zstate, zext, lstate, lext, launcher, cloud, leaks, stray>>

(* cleanupLeakedResources reads the ids of all nodes from a cache, which   *)
(* may lag by all that happened since the last pass ended, ...             *)
ReadKnown ==
    /\ pass = "idle"
    /\ \E S \in SUBSET {n \in Nodes : Exists(n)} :
          {n \in seen : Exists(n)} \subseteq S /\ known' = S
    /\ pass' = "listing"
    /\ UNCHANGED <<zk, lstate, lext, launcher, deleter, did, cloud, seen, possibly,
                   stray, bounds>>

Unknown == {n \in Nodes \ known : \E i \in Instances : owner[i] = n}

\* Mutant: what is not known is deleted the first time it is seen.
Leaked_Once == Unknown

(* Seen by two passes in a row *)
Leaked == Unknown \cap possibly

\* Mutant: the nodes of the last pass are not kept for the next one.
DeleteLeaked_Forgets ==
    /\ pass = "listing"
    /\ deleting' = deleting \cup {i \in Instances : owner[i] \in Leaked}
    /\ possibly' = {}
    /\ pass' = "idle" /\ known' = {} /\ seen' = {n \in Nodes : Exists(n)}
    /\ UNCHANGED <<zk, lstate, lext, launcher, deleter, did, owner, orphans, stray,
                   bounds>>

(* ... and deletes the resources that had an unknown node twice running.   *)
DeleteLeaked ==
    /\ pass = "listing"
    /\ deleting' = deleting \cup {i \in Instances : owner[i] \in Leaked}
    /\ possibly' = Unknown
    /\ pass' = "idle" /\ known' = {} /\ seen' = {n \in Nodes : Exists(n)}
    /\ UNCHANGED <<zk, lstate, lext, launcher, deleter, did, owner, orphans, stray,
                   bounds>>
----------------------------------------------------------------------------
(* The cloud, and the process *)

(* The ids that the record of a node and the threads working on it have *)
Names(n) == {zext[n], lext[n], did[n], launcher[n].id, launcher[n].result,
             launcher[n].unwind}

Fresh == {i \in Instances : owner[i] = None /\ \A n \in Nodes : i \notin Names(n)}

(* The create call of a node has made an instance: it returns the id, or   *)
(* nobody waits for it any more.                                           *)
CloudCreates(n) ==
    \E i \in Fresh :
       /\ owner' = [owner EXCEPT ![i] = n]
       /\ \/ /\ launcher[n].sm = "calling" /\ launcher[n].result = None
             /\ launcher' = [launcher EXCEPT ![n].result = i]
             /\ UNCHANGED <<orphans, stray>>
          \/ /\ orphans[n] > 0
             /\ orphans' = [orphans EXCEPT ![n] = @ - 1]
             /\ stray' = stray \cup {i}
             /\ UNCHANGED launcher
       /\ UNCHANGED <<zk, lstate, lext, deleter, did, deleting, leaks, bounds>>

CloudDeletes(i) ==
    /\ i \in deleting
    /\ owner' = [owner EXCEPT ![i] = None]
    /\ deleting' = deleting \ {i} /\ stray' = stray \ {i}
    /\ UNCHANGED <<zk, lstate, lext, launcher, deleter, did, orphans, leaks, bounds>>

(* The process dies and is started again.  Its locks go with its session;  *)
(* an id that only its memory had is lost.                                 *)
Crash ==
    /\ expiries = 0 /\ crashes < MaxCrashes /\ crashes' = crashes + 1
    /\ lock' = [n \in Nodes |-> None]
    /\ lstate' = [n \in Nodes |-> None] /\ lext' = [n \in Nodes |-> None]
    /\ launcher' = [n \in Nodes |-> NoLauncher]
    /\ deleter' = [n \in Nodes |-> "none"] /\ did' = [n \in Nodes |-> None]
    /\ orphans' = [n \in Nodes |-> IF launcher[n].sm = "calling" /\ launcher[n].result = None
                                   THEN orphans[n] + 1 ELSE orphans[n]]
    /\ stray' = stray \cup {i \in Instances : owner[i] # None /\ zext[owner[i]] # i}
    /\ pass' = "idle" /\ known' = {} /\ seen' = {} /\ possibly' = {}
    /\ UNCHANGED <<zstate, zext, owner, deleting, faults, expiries>>

(* The session expires and another is opened.  A launcher that is in the   *)
(* middle of an operation ends with SessionExpiredError, the others go on. *)
ExpireSession ==
    /\ crashes + faults = 0 /\ expiries < MaxExpiries /\ expiries' = expiries + 1
    /\ lock' = [n \in Nodes |-> None]
    /\ \E S \in SUBSET {n \in Nodes : Running(n)} :
          /\ lstate' = [n \in Nodes |-> IF n \in S THEN "FAILED" ELSE lstate[n]]
          /\ lext' = [n \in Nodes |-> IF n \in S THEN launcher[n].id ELSE lext[n]]
          /\ launcher' = [n \in Nodes |-> IF n \in S THEN NoLauncher ELSE launcher[n]]
          /\ orphans' = [n \in Nodes |->
                 IF n \in S /\ launcher[n].sm = "calling" /\ launcher[n].result = None
                 THEN orphans[n] + 1 ELSE orphans[n]]
    /\ stray' = stray \cup {i \in Instances : owner[i] # None /\ zext[owner[i]] # i}
    /\ UNCHANGED <<zstate, zext, deleter, did, owner, deleting, leaks, crashes, faults>>

LauncherStep(n) ==
    \/ startStateMachine(n) \/ StartRaises(n)
    \/ TimePasses(n) \/ LaunchTimeout(n)
    \/ RunDelete(n) \/ SubmitCreate(n) \/ LearnId(n) \/ InstanceUp(n)
    \/ LaunchError(n) \/ LaunchAborted(n)
    \/ ScanEnds(n) \/ ScanFailed(n) \/ LaunchReady(n) \/ ReadyStoreRaises(n)

DeleterStep(n) ==
    StartDelete(n) \/ DeleteComplete(n) \/ DeleteFails(n)

CleanupStep == ReadKnown \/ DeleteLeaked

Next ==
    \/ \E n \in Nodes : Launch(n) \/ LauncherStep(n) \/ HandlerUnlocks(n) \/ NodeUsed(n)
    \/ \E n \in Nodes : startNodeCleanup(n) \/ DeleterStep(n)
    \/ CleanupStep
    \/ (\E n \in Nodes : CloudCreates(n)) \/ (\E i \in Instances : CloudDeletes(i))
    \/ Crash \/ ExpireSession

Spec == Init /\ [][Next]_vars

(* The threads of the provider and of the launcher loop over all they have *)
(* to do; an attempt that does not succeed times out.                      *)
Fairness ==
    /\ \A n \in Nodes :
          /\ WF_vars(LauncherStep(n)) /\ WF_vars(HandlerUnlocks(n))
          /\ WF_vars(startNodeCleanup(n)) /\ WF_vars(DeleterStep(n))
    /\ WF_vars(CleanupStep)
    /\ \A i \in Instances : WF_vars(CloudDeletes(i))

LiveSpec == Spec /\ Fairness
----------------------------------------------------------------------------
(* Safety *)

(* A READY node has its instance: neither the delete that unwinds an       *)
(* earlier attempt, nor a deleter, nor the cleanup of leaked resources     *)
(* takes it, although the cleanup's list of nodes may be out of date.      *)
(* (A launcher that has lost its locks shares the node with a deleter.)    *)
ReadyNodeHasInstance ==
    expiries = 0 => \A n \in Nodes : zstate[n] = "READY" =>
        zext[n] # None /\ owner[zext[n]] = n /\ zext[n] \notin deleting

(* "in order to avoid having two servers for the same node id": an attempt *)
(* makes its instance when that of the one before is gone.  What a call    *)
(* makes that was given up is beyond the driver's knowledge.               *)
OneServerPerNode ==
    \A i, j \in Instances \ stray :
        i # j /\ owner[i] # None => owner[i] # owner[j]

(* An instance whose node nobody works on is in the node's record, or was  *)
(* never reported: what failed, aborted or timed out can be deleted by id, *)
(* and a node goes only after its instance.                                *)
InstanceRecorded ==
    expiries = 0 => \A i \in Instances \ stray :
        owner[i] # None /\ lock[owner[i]] = None => zext[owner[i]] = i
----------------------------------------------------------------------------
(* Liveness *)

(* Every instance comes to be that of a READY node or goes, also one that  *)
(* a crash or an abandoned call has left without a record.                 *)
InstancesReclaimed ==
    \A i \in Instances, n \in Nodes :
        owner[i] = n /\ zstate[n] # "READY" ~> owner[i] # n \/ zstate[n] = "READY"
=============================================================================
