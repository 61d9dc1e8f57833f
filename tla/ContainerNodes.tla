--------------------------- MODULE ContainerNodes ---------------------------
(***************************************************************************)
(* One node of the drivers that launch in a thread of their own: a         *)
(* Kubernetes namespace, an OpenShift project, or a pod in a project, with *)
(* the thread that launches it, the thread that deletes it and the look    *)
(* for leaks, which the OpenShift drivers do not have.                     *)
(***************************************************************************)
EXTENDS Naturals

CONSTANTS
    LaunchRetries,  \* launch-retries of the provider
    MaxFaults,      \* bound: calls that fail, waits that are given up
    MaxMishaps,     \* bound: sessions that expire, crashes of the launcher
    Nobody

VARIABLES
    driver,     \* whose node it is
    wantsPod,   \* the label's type is pod
    node,       \* state in the znode, or "gone"
    ext,        \* the znode has an external_id
    held,       \* who has the node's lock
    step,       \* of the launch thread
    attempts,
    mem, memExt,       \* the thread's copy of the node
    deleter,    \* step of the deleter
    place,      \* what there is at the cluster
    lost,       \* history: what is there has no record in ZooKeeper any more
    spoiled,    \* history: the node was written without its lock, or a write raised
    faults, mishaps

vars == <<driver, wantsPod, node, ext, held, step, attempts, mem, memExt, deleter,
          place, lost, spoiled, faults, mishaps>>

Unfinished == {"building", "failed", "aborted", "used", "deleting"}

TypeOK ==
    /\ driver \in {"kubernetes", "openshift", "openshiftpods"}
    /\ wantsPod \in BOOLEAN /\ (driver = "openshiftpods" => wantsPod)
    /\ node \in Unfinished \cup {"ready", "gone"}
    /\ mem \in {"building", "ready", "failed", "aborted"}
    /\ {ext, memExt, lost, spoiled} \subseteq BOOLEAN
    /\ held \in {"launcher", "deleter", Nobody}
    /\ step \in {"create", "store", "prepare", "pod", "ready", "cleanup", "wait",
                 "clear", "retry", "raise", "done", "dead"}
    /\ attempts \in 1..LaunchRetries
    /\ deleter \in {"rest", "delete", "wait", "remove"}
    /\ place \in {"none", "empty", "prepared", "whole", "terminating"}
    /\ faults \in 0..MaxFaults /\ mishaps \in 0..MaxMishaps

(* A handler has stored a BUILDING node, locked it, and started a thread. *)
Init ==
    /\ driver \in {"kubernetes", "openshift", "openshiftpods"}
    /\ wantsPod \in IF driver = "openshiftpods" THEN {TRUE} ELSE BOOLEAN
    /\ node = "building" /\ held = "launcher"
    /\ step = "create" /\ attempts = 1 /\ mem = "building"
    /\ ext = FALSE /\ memExt = FALSE
    /\ deleter = "rest" /\ place = "none"
    /\ lost = FALSE /\ spoiled = FALSE
    /\ faults = 0 /\ mishaps = 0

unchanged == <<driver, wantsPod, mishaps>>
deleting == <<deleter, lost, spoiled>>
Fault == faults < MaxFaults /\ faults' = faults + 1
OpenShift == driver # "kubernetes"

(* The session of the thread's launcher has expired; the thread is told at *)
(* its next operation, unless the client has connected again by then.      *)
Unlocked == held # "launcher"

\* storeNode: the znode is there, and is overwritten whoever has its lock.
Write(state, e) ==
    /\ node # "gone" /\ node' = state /\ ext' = e
    /\ spoiled' = (spoiled \/ Unlocked)
----------------------------------------------------------------------------
(* The launch thread *)

(* The call that makes something with a name made from the node's id.  It  *)
(* may raise for something that has been made.                             *)
Created(what, next) ==
    /\ step = "create"
    /\ \/ /\ place = "none" /\ place' = what
          /\ memExt' = TRUE /\ step' = next
          /\ UNCHANGED <<lost, faults>>
       \/ /\ place # "none" /\ step' = "retry" /\ UNCHANGED <<place, memExt, lost, faults>>
       \/ /\ Fault /\ step' = "retry" /\ UNCHANGED memExt
          /\ \/ UNCHANGED <<place, lost>>
             \/ place = "none" /\ place' = what /\ lost' = TRUE
    /\ UNCHANGED <<unchanged, node, ext, held, attempts, mem, deleter, spoiled>>

CreateNamespace == driver = "kubernetes" /\ Created("empty", "prepare")
CreateProject == driver = "openshift" /\ Created("empty", "store")
CreatePod == driver = "openshiftpods" /\ Created("prepared", "store")

(* The OpenShift drivers store the external_id. *)
StoreExternalId ==
    /\ step = "store"
    /\ \/ /\ Write(mem, TRUE)
          /\ step' = (IF driver = "openshiftpods" THEN "pod" ELSE "prepare")
          /\ UNCHANGED faults
       \/ node = "gone" /\ step' = "cleanup" /\ UNCHANGED <<node, ext, spoiled, faults>>
       \/ Fault /\ step' = "cleanup" /\ spoiled' = TRUE /\ UNCHANGED <<node, ext>>
    /\ UNCHANGED <<unchanged, held, attempts, mem, memExt, deleter, place, lost>>

(* The service account, its token, the role and its binding *)
Prepared ==
    /\ step = "prepare"
    /\ \/ /\ place = "empty" /\ place' = (IF wantsPod THEN "prepared" ELSE "whole")
          /\ step' = (IF wantsPod THEN "pod" ELSE "ready")
          /\ UNCHANGED faults
       \/ place # "empty" /\ step' = "cleanup" /\ UNCHANGED <<place, faults>>
       \/ Fault /\ step' = "cleanup" /\ UNCHANGED place
    /\ UNCHANGED <<unchanged, node, ext, held, attempts, mem, memExt, deleting>>

\* Mutant: a pod that does not start in time is taken for one that runs.
PodRuns_NoTimeout ==
    /\ step = "pod"
    /\ \/ place \in {"prepared", "whole"} /\ place' = "whole" /\ step' = "ready" /\ UNCHANGED faults
       \/ place \in {"none", "terminating"} /\ step' = "cleanup" /\ UNCHANGED <<place, faults>>
       \/ Fault /\ step' = "ready" /\ UNCHANGED place
    /\ UNCHANGED <<unchanged, node, ext, held, attempts, mem, memExt, deleting>>

(* createPod and the wait until it runs *)
PodRuns ==
    /\ step = "pod"
    /\ \/ place \in {"prepared", "whole"} /\ place' = "whole" /\ step' = "ready" /\ UNCHANGED faults
       \/ place \in {"none", "terminating"} /\ step' = "cleanup" /\ UNCHANGED <<place, faults>>
       \/ Fault /\ step' = "cleanup" /\ UNCHANGED place
    /\ UNCHANGED <<unchanged, node, ext, held, attempts, mem, memExt, deleting>>

PrepareNamespace == driver = "kubernetes" /\ Prepared
PrepareProject == OpenShift /\ Prepared
KubernetesPod == driver = "kubernetes" /\ PodRuns
OpenShiftPod == OpenShift /\ PodRuns

(* The node is READY in memory before it is stored. *)
StoreReady ==
    /\ step = "ready" /\ mem' = "ready"
    /\ \/ Write("ready", TRUE) /\ step' = "done" /\ UNCHANGED faults
       \/ node = "gone" /\ step' = "cleanup" /\ UNCHANGED <<node, ext, spoiled, faults>>
       \/ /\ Fault /\ step' = "cleanup" /\ spoiled' = TRUE
          /\ \/ UNCHANGED <<node, ext>>
             \/ node # "gone" /\ node' = "ready" /\ ext' = TRUE
    /\ held' = IF step' = "done" /\ held = "launcher" THEN Nobody ELSE held
    /\ UNCHANGED <<unchanged, attempts, memExt, deleter, place, lost>>

\* cleanupNode: what the call raises is logged, whether it has had an effect or not.
Removed ==
    \/ place' = (IF place = "none" THEN "none" ELSE "terminating") /\ UNCHANGED faults
    \/ Fault /\ place' \in {place, IF place = "none" THEN "none" ELSE "terminating"}

(* waitForNodeCleanup ends when it is gone, but also when it cannot be     *)
(* read, and after five minutes.                                           *)
CleanupAttempt ==
    /\ step = "cleanup"
    /\ IF memExt THEN Removed /\ step' = "wait" ELSE step' = "retry" /\ UNCHANGED <<place, faults>>
    /\ UNCHANGED <<unchanged, node, ext, held, attempts, mem, memExt, deleting>>

AwaitCleanup ==
    /\ step = "wait" /\ step' = "clear"
    /\ lost' = (lost \/ place \notin {"none", "terminating"})
    /\ UNCHANGED <<unchanged, node, ext, held, attempts, mem, memExt, deleter, place, spoiled, faults>>

(* external_id is None again; the state in memory is stored with that, and *)
(* an exception here ends the thread's loop.                               *)
ClearExternalId ==
    /\ step = "clear" /\ memExt' = FALSE
    /\ \/ Write(mem, FALSE) /\ step' = "retry"
       \/ node = "gone" /\ step' = "raise" /\ UNCHANGED <<node, ext, spoiled>>
    /\ UNCHANGED <<unchanged, held, attempts, mem, deleter, place, lost, faults>>

\* Mutant: the retries count from zero.
Retry_OneMore ==
    /\ step = "retry"
    /\ IF attempts > LaunchRetries
       THEN step' = "raise" /\ mem' = "failed" /\ UNCHANGED attempts
       ELSE step' = "create" /\ attempts' = attempts + 1 /\ UNCHANGED mem
    /\ UNCHANGED <<unchanged, node, ext, held, memExt, deleting, place, faults>>

(* The next attempt; or the last one has failed, or the OpenShift cluster  *)
(* has said that a quota is exceeded.                                      *)
Retry ==
    /\ step = "retry"
    /\ IF attempts = LaunchRetries
       THEN step' = "raise" /\ mem' = "failed" /\ UNCHANGED attempts
       ELSE step' = "create" /\ attempts' = attempts + 1 /\ UNCHANGED mem
    /\ UNCHANGED <<unchanged, node, ext, held, memExt, deleting, place, faults>>

QuotaExceeded ==
    /\ step = "retry" /\ OpenShift /\ faults > 0
    /\ step' = "raise" /\ mem' = "aborted"
    /\ UNCHANGED <<unchanged, node, ext, held, attempts, memExt, deleting, place, faults>>

(* NodeLauncher.run stores FAILED or ABORTED, and the handler unlocks the  *)
(* node.  An expired session is not stored.                                *)
LaunchFailed ==
    /\ step = "raise" /\ step' = "done"
    /\ mem' = (IF mem = "aborted" THEN mem ELSE "failed")
    /\ \/ Write(mem', memExt)
       \/ node = "gone" /\ UNCHANGED <<node, ext, spoiled>>
    /\ held' = IF held = "launcher" THEN Nobody ELSE held
    /\ UNCHANGED <<unchanged, attempts, memExt, deleter, place, lost, faults>>

(* Any operation of the thread after its session has expired *)
SessionExpired ==
    /\ step \in {"store", "ready", "clear", "raise"} /\ held # "launcher"
    /\ step' = "done" /\ mem' = "failed"
    /\ lost' = (lost \/ (~ext /\ place \notin {"none", "terminating"}))
    /\ UNCHANGED <<unchanged, node, ext, held, attempts, memExt, deleter, place,
                   spoiled, faults>>

LaunchStep ==
    \/ CreateNamespace \/ CreateProject \/ CreatePod \/ StoreExternalId
    \/ PrepareNamespace \/ PrepareProject \/ KubernetesPod \/ OpenShiftPod \/ StoreReady
    \/ CleanupAttempt \/ AwaitCleanup \/ ClearExternalId \/ Retry \/ QuotaExceeded
    \/ LaunchFailed \/ SessionExpired
----------------------------------------------------------------------------
(* Everybody else *)

launching == <<step, attempts, mem, memExt>>

ZuulUses ==
    /\ node = "ready" /\ held = Nobody
    /\ node' = "used"
    /\ UNCHANGED <<unchanged, ext, held, launching, deleting, place, faults>>

(* A launcher finds the node unlocked, locks it and starts a NodeDeleter. *)
StartDelete ==
    /\ node \in Unfinished /\ held = Nobody
    /\ held' = "deleter" /\ node' = "deleting"
    /\ deleter' = (IF ext THEN "delete" ELSE "remove")
    /\ UNCHANGED <<unchanged, ext, launching, lost, spoiled, place, faults>>

CleanupNode ==
    /\ deleter = "delete" /\ Removed /\ deleter' = "wait"
    /\ UNCHANGED <<unchanged, node, ext, held, launching, lost, spoiled>>

AwaitDeletion ==
    /\ deleter = "wait" /\ deleter' = "remove"
    /\ UNCHANGED <<unchanged, node, ext, held, launching, lost, spoiled, place, faults>>

(* deleteNode; whatever is left at the cluster has no record any more. *)
DeleteNode ==
    /\ deleter = "remove" /\ deleter' = "rest"
    /\ node' = "gone" /\ ext' = FALSE /\ held' = Nobody
    /\ lost' = (lost \/ place \notin {"none", "terminating"})
    /\ UNCHANGED <<unchanged, launching, spoiled, place, faults>>

\* Mutant: nothing is looked for.
CleanupLeaked_Never == FALSE

(* cleanupLeakedResources of the Kubernetes driver: a namespace whose node *)
(* is not in ZooKeeper.                                                    *)
CleanupLeaked ==
    /\ driver = "kubernetes" /\ node = "gone" /\ place # "none"
    /\ Removed
    /\ UNCHANGED <<unchanged, node, ext, held, launching, deleting>>

(* The cluster finishes a deletion. *)
Terminated ==
    /\ place = "terminating" /\ place' = "none"
    /\ UNCHANGED <<unchanged, node, ext, held, launching, deleting, faults>>

(* The launcher's session expires: its locks are gone. *)
SessionExpires ==
    /\ held # Nobody /\ step # "done" /\ mishaps < MaxMishaps /\ mishaps' = mishaps + 1
    /\ held' = Nobody
    /\ UNCHANGED <<driver, wantsPod, node, ext, launching, deleting, place, faults>>

(* The launcher dies; another takes over. *)
Crash ==
    /\ mishaps < MaxMishaps /\ mishaps' = mishaps + 1
    /\ held' = Nobody /\ deleter' = "rest"
    /\ step' = (IF step = "done" THEN step ELSE "dead")
    /\ lost' = (lost \/ (~ext /\ place \notin {"none", "terminating"}))
    /\ UNCHANGED <<driver, wantsPod, node, ext, attempts, mem, memExt, spoiled, place, faults>>

Next ==
    \/ LaunchStep \/ ZuulUses \/ StartDelete \/ CleanupNode \/ AwaitDeletion \/ DeleteNode
    \/ CleanupLeaked \/ Terminated \/ SessionExpires \/ Crash

Spec == Init /\ [][Next]_vars

(* Threads go on, the cleanups are periodic, and a cluster ends what it began. *)
Fairness ==
    /\ WF_vars(LaunchStep) /\ WF_vars(StartDelete)
    /\ WF_vars(CleanupNode \/ AwaitDeletion \/ DeleteNode)
    /\ WF_vars(CleanupLeaked /\ place' # place) /\ WF_vars(Terminated)
----------------------------------------------------------------------------
(* A READY node that can be given to a request has all that its label asks *)
(* for: no deletion, of this attempt or of an earlier one, is under way.   *)
(* Excepted is a node that was written by a thread without its lock, or by *)
(* a write that raised.                                                    *)
ReadyNodeUsable ==
    node = "ready" /\ held = Nobody /\ ~spoiled => place = "whole"

(* In the end there is a READY node, or nothing: no znode, and nothing at  *)
(* the cluster, unless an OpenShift driver has lost it.                    *)
NothingLeft ==
    <>[](node = "ready" \/ (node = "gone" /\ (place = "none" \/ (lost /\ OpenShift))))
=============================================================================
