--------------------------- MODULE CloudInstances ---------------------------
(***************************************************************************)
(* The create and delete state machines of the cloud adapters, for one     *)
(* node: AWS with and without a dedicated host, Azure, GCE, IBM VPC and    *)
(* OpenStack.  Each is advanced by the provider's thread, looks at the     *)
(* cloud through lists that are cached, and acts by calls.  A call may     *)
(* raise although it has taken effect; one handed to an executor goes on   *)
(* when its state machine is given up.                                     *)
(***************************************************************************)
EXTENDS Naturals, FiniteSets

CONSTANTS
    Kinds,      \* adapters to consider
    MaxFaults,  \* bound: calls that raise, launches given up
    MaxCrashes  \* bound: crashes of the launcher

ASSUME BoundsAssumption == MaxFaults \in Nat /\ MaxCrashes \in Nat

VARIABLES
    kind,       \* the adapter, fixed
    phase,      \* of the node: a create or a delete state machine runs, or none
    sm,         \* the state of that state machine
    ext, zext,  \* external_id: the parts it names, in memory and in ZooKeeper
    cloud,      \* the node's resources
    listed,     \* ... as the cached lists have them
    calls, results,  \* creates handed to an executor; those that have returned
    queued,     \* AWS: deletions handed to the delete thread
    possibly,   \* the node is in possibly_leaked_nodes
    unlisted,   \* history: what no list had when its deletion looked for it
    orphan,     \* history: a create call outlived its state machine
    faults, crashes

vars == <<kind, phase, sm, ext, zext, cloud, listed, calls, results, queued,
          possibly, unlisted, orphan, faults, crashes>>

Types == {"host", "instance", "fip"}

AllKinds == {"aws", "awshost", "azure", "gce", "ibmvpc", "openstack"}

States == {"none", "pending", "up", "attached", "failed", "deleting"}

TypeOK ==
    /\ kind \in Kinds
    /\ phase \in {"create", "ready", "idle", "delete", "gone"}
    /\ sm \in {"start", "submitted", "submitted host", "host", "instance", "fip",
               "attaching", "query", "complete", "none"}
    /\ ext \in SUBSET Types /\ zext \in SUBSET ext
    /\ cloud \in [Types -> States] /\ listed \in [Types -> States]
    /\ calls \in SUBSET Types /\ results \in SUBSET Types /\ calls \cap results = {}
    /\ queued \in SUBSET Types
    /\ possibly \in BOOLEAN /\ orphan \in BOOLEAN
    /\ unlisted \in SUBSET Types
    /\ faults \in 0..MaxFaults /\ crashes \in 0..MaxCrashes

Init ==
    /\ kind \in Kinds
    /\ phase = "create" /\ sm = "start" /\ ext = {} /\ zext = {}
    /\ cloud = [t \in Types |-> "none"] /\ listed = cloud
    /\ calls = {} /\ results = {} /\ queued = {}
    /\ possibly = FALSE /\ unlisted = {} /\ orphan = FALSE
    /\ faults = 0 /\ crashes = 0

rest == <<kind, listed, queued, possibly, unlisted, orphan, faults, crashes>>
----------------------------------------------------------------------------
(* Launching: the provider advances the create state machine *)

Creating(k, s) == phase = "create" /\ kind \in k /\ sm = s

(* The external id is known, and stored unless the node has one already.   *)
(* (AWS: a dict that the state machine and the node share.)                *)
Learn(t) ==
    /\ ext' = ext \cup {t}
    /\ zext' = IF ext = {} THEN {t} ELSE zext

Goto(s) == sm' = s /\ UNCHANGED phase

\* A call by the provider's own thread that succeeds.
Make(t) == cloud' = [cloud EXCEPT ![t] = "pending"]

(* _submitAllocateHost, _submitCreateInstance; OpenStack _submitApi *)
Submit(t, s) ==
    /\ calls' = calls \cup {t} /\ Goto(s)
    /\ UNCHANGED <<ext, zext, cloud, results, rest>>

(* _completeAllocateHost and so on: the call has returned the new id *)
Complete(t, s) ==
    /\ t \in results /\ results' = results \ {t}
    /\ Learn(t) /\ Goto(s)
    /\ UNCHANGED <<cloud, calls, rest>>

(* The list shows what a step waits for. *)
Seen(t, state, s) ==
    /\ listed[t] = state /\ Goto(s)
    /\ UNCHANGED <<ext, zext, cloud, calls, results, rest>>

AwsCreateAdvance ==
    \/ Creating({"awshost"}, "start") /\ Submit("host", "submitted host")
    \/ Creating({"awshost"}, "submitted host") /\ Complete("host", "host")
    \/ Creating({"awshost"}, "host") /\ listed["host"] = "up"
       /\ Submit("instance", "submitted")
    \/ Creating({"aws"}, "start") /\ Submit("instance", "submitted")
    \/ Creating({"aws", "awshost"}, "submitted") /\ Complete("instance", "instance")
    \/ Creating({"aws", "awshost"}, "instance") /\ Seen("instance", "up", "complete")

(* The name of the instance is its id, and is known before the call. *)
MakeNamed(t, s) ==
    /\ Learn("instance") /\ Make(t) /\ Goto(s)
    /\ UNCHANGED <<calls, results, rest>>

AzureCreateAdvance ==
    \/ Creating({"azure"}, "start") /\ MakeNamed("instance", "instance")
    \/ Creating({"azure"}, "instance") /\ Seen("instance", "up", "query")
    \/ Creating({"azure"}, "query") /\ Seen("instance", "up", "complete")

GceCreateAdvance ==
    \/ Creating({"gce"}, "start") /\ MakeNamed("instance", "instance")
    \/ Creating({"gce"}, "instance") /\ Seen("instance", "up", "complete")

(* A floating IP is made first, and attached when the instance runs. *)
IbmCreateAdvance ==
    \/ Creating({"ibmvpc"}, "start") /\ MakeNamed("fip", "fip")
    \/ Creating({"ibmvpc"}, "fip") /\ listed["fip"] = "up" /\ MakeNamed("instance", "instance")
    \/ /\ Creating({"ibmvpc"}, "instance") /\ listed["instance"] = "up"
       /\ cloud["fip"] = "up" /\ cloud' = [cloud EXCEPT !["fip"] = "attached"]
       /\ Goto("attaching")
       /\ UNCHANGED <<ext, zext, calls, results, rest>>
    \/ Creating({"ibmvpc"}, "attaching") /\ Seen("fip", "attached", "complete")

\* Mutant: done as soon as the attach call has returned.
OpenStackCreateAdvance_NoWait ==
    \/ Creating({"openstack"}, "start") /\ Submit("instance", "submitted")
    \/ Creating({"openstack"}, "submitted") /\ Complete("instance", "instance")
    \/ /\ Creating({"openstack"}, "instance") /\ listed["instance"] = "up"
       /\ Make("fip") /\ Goto("fip")
       /\ UNCHANGED <<ext, zext, calls, results, rest>>
    \/ Creating({"openstack"}, "fip") /\ Goto("complete")
       /\ UNCHANGED <<ext, zext, cloud, calls, results, rest>>

(* An ACTIVE server is given a floating IP, whose address has to show up   *)
(* in the list of servers.                                                 *)
OpenStackCreateAdvance ==
    \/ Creating({"openstack"}, "start") /\ Submit("instance", "submitted")
    \/ Creating({"openstack"}, "submitted") /\ Complete("instance", "instance")
    \/ /\ Creating({"openstack"}, "instance") /\ listed["instance"] = "up"
       /\ Make("fip") /\ Goto("fip")
       /\ UNCHANGED <<ext, zext, calls, results, rest>>
    \/ /\ Creating({"openstack"}, "fip") /\ cloud["fip"] \in {"pending", "up"}
       /\ cloud' = [cloud EXCEPT !["fip"] = "attached"] /\ Goto("attaching")
       /\ UNCHANGED <<ext, zext, calls, results, rest>>
    \/ Creating({"openstack"}, "attaching") /\ Seen("fip", "attached", "complete")

(* The node is READY: the whole external id is stored. *)
CreateComplete ==
    /\ phase = "create" /\ sm = "complete"
    /\ phase' = "ready" /\ sm' = "none" /\ zext' = ext
    /\ UNCHANGED <<ext, cloud, calls, results, rest>>

(* The state machine raises or is given up: the last attempt, say.  What   *)
(* it knows is stored.                                                     *)
GiveUp ==
    /\ phase' = "idle" /\ sm' = "none" /\ zext' = ext
    /\ orphan' = (orphan \/ calls \cup results # {})
    /\ results' = {}
    /\ UNCHANGED <<kind, ext, listed, calls, queued, possibly, unlisted, crashes>>

CreateError ==
    /\ phase = "create"
    /\ \/ sm \in {"host", "instance", "fip"} /\ listed[sm] = "failed"
       \/ sm = "instance" /\ cloud["fip"] \in {"none", "deleting"} /\ kind = "ibmvpc"
       \/ sm = "fip" /\ kind = "openstack" /\ cloud["fip"] \notin {"pending", "up"}
    /\ GiveUp /\ UNCHANGED <<cloud, faults>>

(* launch_timeout, or a call that raises. *)
LaunchFails ==
    /\ phase = "create" /\ faults < MaxFaults /\ faults' = faults + 1
    /\ GiveUp /\ UNCHANGED cloud

(* What the provider's thread is about to make by a call of its own *)
AboutToMake ==
    {t \in Types :
        \/ sm = "start" /\ kind \in {"azure", "gce"} /\ t = "instance"
        \/ sm = "start" /\ kind = "ibmvpc" /\ t = "fip"
        \/ sm = "fip" /\ kind = "ibmvpc" /\ t = "instance"
        \/ sm = "instance" /\ kind = "openstack" /\ t = "fip"}

(* The call raises although it has had its effect. *)
CallRaises ==
    /\ phase = "create" /\ faults < MaxFaults /\ faults' = faults + 1
    /\ \E t \in AboutToMake : Make(t)
    /\ phase' = "idle" /\ sm' = "none"
    /\ ext' = ext \cup {"instance"} /\ zext' = ext'
    /\ UNCHANGED <<kind, listed, calls, results, queued, possibly, unlisted, orphan, crashes>>

NodeUsed ==
    /\ phase = "ready" /\ phase' = "idle"
    /\ UNCHANGED <<sm, ext, zext, cloud, calls, results, rest>>
----------------------------------------------------------------------------
(* Deleting *)

Deleting(k, s) == phase = "delete" /\ kind \in k /\ sm = s

StartDelete ==
    /\ phase = "idle" /\ phase' = "delete" /\ sm' = "start" /\ ext' = zext
    /\ UNCHANGED <<zext, cloud, calls, results, rest>>

\* A host is not released as long as it has an instance.
Refused(t) == t = "host" /\ cloud["instance"] # "none"

Requested(T) ==
    [t \in Types |-> IF t \in T /\ cloud[t] # "none" /\ ~Refused(t)
                     THEN "deleting" ELSE cloud[t]]

(* Looks t up in the list and asks for its deletion if it is there; if     *)
(* not, the wait that follows is over at once.                             *)
FindAndDelete(t, found, missing) ==
    IF listed[t] # "none"
    THEN /\ cloud' = Requested({t}) /\ Goto(found) /\ UNCHANGED <<queued, unlisted>>
    ELSE /\ Goto(missing) /\ unlisted' = unlisted \cup {t} /\ UNCHANGED <<cloud, queued>>

FindAndQueue(t, found, missing) ==
    IF listed[t] # "none"
    THEN queued' = queued \cup {t} /\ Goto(found) /\ UNCHANGED <<cloud, unlisted>>
    ELSE Goto(missing) /\ unlisted' = unlisted \cup {t} /\ UNCHANGED <<cloud, queued>>

GoneFromList(t, s) ==
    listed[t] = "none" /\ Goto(s) /\ UNCHANGED <<cloud, queued, unlisted>>

delrest == <<kind, ext, zext, listed, calls, results, possibly, orphan, faults, crashes>>

(* First the instance, then the host if there is one *)
AwsDeleteAdvance ==
    LET next == IF "host" \in ext THEN "submitted host" ELSE "complete" IN
    /\ Deleting({"aws", "awshost"}, sm) /\ UNCHANGED delrest
    /\ \/ sm = "start" /\ "instance" \in ext /\ FindAndQueue("instance", "instance", next)
       \/ sm = "instance" /\ GoneFromList("instance", next)
       \/ /\ \/ sm = "submitted host"
             \/ sm = "start" /\ "instance" \notin ext /\ "host" \in ext
          /\ FindAndQueue("host", "host", "complete")
       \/ sm = "host" /\ GoneFromList("host", "complete")
       \/ sm = "start" /\ ext = {} /\ Goto("complete") /\ UNCHANGED <<cloud, queued, unlisted>>

AzureDeleteAdvance ==
    /\ Deleting({"azure"}, sm) /\ UNCHANGED delrest
    /\ \/ sm = "start" /\ FindAndDelete("instance", "instance", "complete")
       \/ sm = "instance" /\ GoneFromList("instance", "complete")

(* Deletes by name, and raises if there is no such instance: see NotThere. *)
GceDeleteAdvance ==
    /\ Deleting({"gce"}, sm) /\ UNCHANGED delrest
    /\ \/ /\ sm = "start" /\ cloud["instance"] # "none"
          /\ cloud' = Requested({"instance"}) /\ Goto("instance")
          /\ UNCHANGED <<queued, unlisted>>
       \/ sm = "instance" /\ GoneFromList("instance", "complete")

IbmDeleteAdvance ==
    /\ Deleting({"ibmvpc"}, sm) /\ UNCHANGED delrest
    /\ \/ sm = "start" /\ FindAndDelete("fip", "fip", "query")
       \/ sm = "fip" /\ GoneFromList("fip", "query")
       \/ sm = "query" /\ FindAndDelete("instance", "instance", "complete")
       \/ sm = "instance" /\ GoneFromList("instance", "complete")

(* The floating IPs that the listed server has; then the server by its id. *)
OpenStackDeleteAdvance ==
    /\ Deleting({"openstack"}, sm) /\ UNCHANGED delrest
    /\ \/ /\ sm = "start" /\ listed["instance"] # "none" /\ listed["fip"] = "attached"
          /\ cloud' = Requested({"fip"}) /\ Goto("fip") /\ UNCHANGED <<queued, unlisted>>
       \/ /\ sm = "fip" /\ listed["fip"] \in {"none", "up"}
          /\ Goto("query") /\ UNCHANGED <<cloud, queued, unlisted>>
       \/ /\ \/ sm = "query"
             \/ sm = "start" /\ ~(listed["instance"] # "none" /\ listed["fip"] = "attached")
          /\ cloud' = Requested({"instance"}) /\ Goto("instance")
          /\ unlisted' = IF listed["fip"] = "attached" THEN unlisted ELSE unlisted \cup {"fip"}
          /\ UNCHANGED queued
       \/ sm = "instance" /\ GoneFromList("instance", "complete")

(* No id, or all is deleted: the record of the node goes. *)
DeleteComplete ==
    /\ phase = "delete" /\ (ext = {} \/ sm = "complete")
    /\ phase' = "gone" /\ sm' = "none"
    /\ UNCHANGED <<ext, zext, cloud, calls, results, rest>>

DeleteEnds == phase' = "idle" /\ sm' = "none"

(* DELETE_TIMEOUT, which is long enough for the cloud and for the lists:   *)
(* the request was lost, or refused.                                       *)
DeleteTimeout ==
    /\ phase = "delete" /\ sm \in Types /\ queued = {}
    /\ listed = cloud /\ cloud[sm] \notin {"none", "deleting"}
    /\ DeleteEnds
    /\ UNCHANGED <<ext, zext, cloud, calls, results, rest>>

(* GCE: an HttpError for an instance that does not exist.  It is no        *)
(* exceptions.NotFound.                                                    *)
NotThere ==
    /\ Deleting({"gce"}, "start") /\ ext # {} /\ cloud["instance"] = "none"
    /\ DeleteEnds
    /\ UNCHANGED <<ext, zext, cloud, calls, results, rest>>

(* AWS: the delete thread takes what is queued and sends one call for it,  *)
(* instances first.  If the call raises its batch is lost.                 *)
DeleteThread ==
    /\ queued # {} /\ queued' = {}
    /\ \/ cloud' = Requested(queued) /\ UNCHANGED faults
       \/ faults < MaxFaults /\ faults' = faults + 1 /\ UNCHANGED cloud
    /\ UNCHANGED <<kind, phase, sm, ext, zext, listed, calls, results, possibly,
                   unlisted, orphan, crashes>>
----------------------------------------------------------------------------
(* Leaked resources, the cloud, and crashes *)

Tagged == IF kind = "openstack" THEN {"instance"} ELSE Types

\* Mutant: listResources leaves the hosts out.
Resources_NoHosts == {t \in Tagged \ {"host"} : listed[t] \notin {"none", "deleting"}}

(* listResources: what is listed and not on its way out.  The metadata of  *)
(* an OpenStack floating IP does not tell whose it is.                     *)
Resources == {t \in Tagged : listed[t] \notin {"none", "deleting"}}

(* cleanupLeakedResources: the second time the node is not known all it    *)
(* has is deleted, hosts before instances.                                 *)
CleanupLeaked ==
    /\ phase = "gone" /\ (possibly \/ Resources # {})
    /\ possibly' = (Resources # {})
    /\ cloud' = IF possibly THEN Requested(Resources) ELSE cloud
    /\ UNCHANGED <<kind, phase, sm, ext, zext, listed, calls, results, queued, unlisted,
                   orphan, faults, crashes>>

(* OpenStack: floating IPs that are not attached are deleted, whosever they *)
(* are.                                                                     *)
CleanupFloatingIps ==
    /\ kind = "openstack" /\ cloud["fip"] \in {"pending", "up", "failed"}
    /\ cloud' = [cloud EXCEPT !["fip"] = "deleting"]
    /\ UNCHANGED <<phase, sm, ext, zext, calls, results, rest>>

\* Mutant: a future that is done is looked at again.
CallReturns_Again(t) ==
    /\ t \in calls /\ UNCHANGED calls
    /\ cloud' = [cloud EXCEPT ![t] = "pending"]
    /\ results' = IF phase = "create" THEN results \cup {t} ELSE results
    /\ UNCHANGED <<phase, sm, ext, zext, rest>>

(* A call handed to an executor returns, to whom it may still concern. *)
CallReturns(t) ==
    /\ t \in calls /\ calls' = calls \ {t}
    /\ cloud' = [cloud EXCEPT ![t] = "pending"]
    /\ results' = IF phase = "create" THEN results \cup {t} ELSE results
    /\ UNCHANGED <<phase, sm, ext, zext, rest>>

(* It fails, and with it the launch.  An OpenStack error may come with the *)
(* id of the server that was made; one that comes without any is caught    *)
(* and raised again by each advance, until launch_timeout.                 *)
CallFails(t) ==
    /\ t \in calls /\ calls' = calls \ {t}
    /\ \/ phase # "create" /\ UNCHANGED <<phase, sm, ext, zext, cloud>>
       \/ kind = "openstack" /\ phase = "create" /\ UNCHANGED <<phase, sm, ext, zext, cloud>>
       \/ /\ phase = "create" /\ phase' = "idle" /\ sm' = "none"
          /\ \/ UNCHANGED <<ext, cloud>>
             \/ /\ kind = "openstack" /\ ext' = {t}
                /\ cloud' = [cloud EXCEPT ![t] = "failed"]
          /\ zext' = ext'
    /\ UNCHANGED <<results, rest>>

(* What the cloud does with a resource of its own accord, or on request.   *)
CloudChanges(t) ==
    /\ \/ cloud[t] = "pending" /\ \E s \in {"up", "failed"} : cloud' = [cloud EXCEPT ![t] = s]
       \/ /\ cloud[t] = "deleting" /\ ~Refused(t)
          /\ cloud' = [u \in Types |->
                 CASE u = t -> "none"
                   [] u = "fip" /\ t = "instance" /\ cloud[u] = "attached" -> "up"
                   [] OTHER -> cloud[u]]
    /\ UNCHANGED <<phase, sm, ext, zext, calls, results, rest>>

(* The cached lists are read anew. *)
RefreshLists ==
    /\ listed # cloud /\ listed' = cloud
    /\ UNCHANGED <<kind, phase, sm, ext, zext, cloud, calls, results, queued, possibly,
                   unlisted, orphan, faults, crashes>>

(* Calls that had not been sent are lost, and what only memory had. *)
Crash ==
    /\ crashes < MaxCrashes /\ crashes' = crashes + 1
    /\ phase \in {"create", "ready", "idle", "delete", "gone"}
    /\ phase' = IF phase \in {"create", "delete"} THEN "idle" ELSE phase
    /\ sm' = "none" /\ ext' = zext
    /\ \E sent \in SUBSET calls : calls' = sent
    /\ orphan' = (orphan \/ calls \cup results # {} \/ ext # zext)
    /\ results' = {} /\ queued' = {} /\ possibly' = FALSE /\ listed' = cloud
    /\ UNCHANGED <<kind, zext, cloud, unlisted, faults>>

CreateAdvance ==
    \/ AwsCreateAdvance \/ AzureCreateAdvance \/ GceCreateAdvance
    \/ IbmCreateAdvance \/ OpenStackCreateAdvance

DeleteAdvance ==
    \/ AwsDeleteAdvance \/ AzureDeleteAdvance \/ GceDeleteAdvance
    \/ IbmDeleteAdvance \/ OpenStackDeleteAdvance

Next ==
    \/ CreateAdvance \/ CreateComplete \/ CreateError \/ LaunchFails \/ CallRaises
    \/ NodeUsed \/ StartDelete \/ DeleteAdvance \/ DeleteComplete
    \/ DeleteTimeout \/ NotThere \/ DeleteThread
    \/ CleanupLeaked \/ CleanupFloatingIps
    \/ (\E t \in Types : CallReturns(t) \/ CallFails(t) \/ CloudChanges(t))
    \/ RefreshLists \/ Crash

Spec == Init /\ [][Next]_vars

(* The provider's threads run on, calls return, lists are read again.      *)
Fairness ==
    /\ WF_vars(StartDelete) /\ WF_vars(DeleteAdvance) /\ WF_vars(DeleteComplete)
    /\ WF_vars(DeleteTimeout) /\ WF_vars(NotThere) /\ WF_vars(DeleteThread)
    /\ WF_vars(CleanupLeaked) /\ WF_vars(RefreshLists)
    /\ SF_vars(CleanupFloatingIps)
    /\ \A t \in Types : WF_vars(CallReturns(t) \/ CallFails(t)) /\ WF_vars(CloudChanges(t))

LiveSpec == Spec /\ Fairness
----------------------------------------------------------------------------
(* A READY node has all its parts: the wait for the instance and for the   *)
(* floating IP is not cut short by an old list, and no cleanup takes a     *)
(* part from under it.                                                     *)
ReadyNodeWhole ==
    phase = "ready" =>
        /\ cloud["instance"] = "up"
        /\ kind = "awshost" => cloud["host"] = "up" /\ "host" \in zext
        /\ kind \in {"ibmvpc", "openstack"} => cloud["fip"] = "attached"

(* When the record of a node goes, none of what its id names is left       *)
(* without a request to delete it, but what no list had at the time and    *)
(* what came of a call that nobody waited for.                             *)
RecordOutlivesResources ==
    phase = "gone" /\ ~orphan =>
        \A t \in Types \ unlisted : cloud[t] \in {"none", "deleting"}

(* An instance that came of a call nobody waited for sits on a dedicated   *)
(* host: it is not in the record, which keeps it from being a leak, and    *)
(* the host cannot be released.                                            *)
HostKept == zext = {"host"} /\ cloud["instance"] # "none"

(* All that a node had goes in the end, by the delete state machine or as  *)
(* a leak, whatever was lost on the way; HostKept apart.                   *)
ResourcesReclaimed ==
    \A t \in Types :
        cloud[t] # "none" /\ phase \in {"idle", "delete", "gone"}
            ~> cloud[t] = "none" \/ HostKept

(* Every node that is to be deleted is deleted, and its record with it;    *)
(* HostKept and GCE's HttpError for a missing instance apart.              *)
NodeDeleted == phase = "idle" ~> phase = "gone" \/ HostKept \/ kind = "gce"
=============================================================================
