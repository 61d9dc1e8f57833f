------------------------------ MODULE MCClouds ------------------------------
(* What a launcher and a builder keep at a cloud, instances and images,    *)
(* and what a launcher asks of a new host, its keys.  They share nothing   *)
(* but the thread that looks for leaks: a behaviour is about one of them,  *)
(* and leaves the others as they were at first.                            *)
EXTENDS CloudInstances

CONSTANTS Ways, Nobody, Scans, Limits, KeyTypes

\* Nobody is no step of a thread that uploads.
ASSUME NobodyAssumption ==
    Nobody \notin {"start", "import", "wait", "clean", "tag image", "tag snapshot",
                   "segments", "register", "hook", "failed"}

ASSUME ScansAssumption == IsFiniteSet(Scans) /\ Limits \subseteq Nat /\ KeyTypes \in Nat

VARIABLES
    part,       \* of the behaviour: what it is about
    way, record, upExt, step, upCloud, tagged, upListed, upPossibly, notOurs,
    upUnlisted, upFaults, upCrashes,
    limit, req, active, pending, ready, idx

U == INSTANCE CloudUploads WITH
        ext <- upExt, cloud <- upCloud, listed <- upListed, possibly <- upPossibly,
        unlisted <- upUnlisted, faults <- upFaults, crashes <- upCrashes

S == INSTANCE Nodescan WITH Requests <- Scans

CloudsInit ==
    /\ part \in {"instance", "upload", "scan"}
    /\ Init /\ U!Init /\ S!Init
    /\ part # "instance" => kind = "gce"
    /\ part # "upload" => way = "openstack"
    /\ part # "scan" => /\ req = [r \in Scans |-> S!Fresh(TRUE, TRUE)]
                        /\ limit = CHOOSE l \in Limits : TRUE

uvars == <<way, record, upExt, step, upCloud, tagged, upListed, upPossibly, notOurs,
           upUnlisted, upFaults, upCrashes>>
svars == <<limit, req, active, pending, ready, idx>>
allVars == <<part, vars, uvars, svars>>

CloudsNext ==
    \/ part = "instance" /\ Next /\ UNCHANGED <<part, uvars, svars>>
    \/ part = "upload" /\ U!Next /\ UNCHANGED <<part, vars, svars>>
    \/ part = "scan" /\ S!Next /\ UNCHANGED <<part, vars, uvars>>

(* The fairness of each, in the behaviours that are about it *)
CloudsSpec ==
    /\ CloudsInit /\ [][CloudsNext]_allVars
    /\ WF_vars(part = "instance" /\ StartDelete)
    /\ WF_vars(part = "instance" /\ DeleteAdvance)
    /\ WF_vars(part = "instance" /\ DeleteComplete)
    /\ WF_vars(part = "instance" /\ DeleteTimeout)
    /\ WF_vars(part = "instance" /\ NotThere)
    /\ WF_vars(part = "instance" /\ DeleteThread)
    /\ WF_vars(part = "instance" /\ CleanupLeaked)
    /\ WF_vars(part = "instance" /\ RefreshLists)
    /\ SF_vars(part = "instance" /\ CleanupFloatingIps)
    /\ \A t \in Types : /\ WF_vars(part = "instance" /\ (CallReturns(t) \/ CallFails(t)))
                        /\ WF_vars(part = "instance" /\ CloudChanges(t))
    /\ WF_uvars(part = "upload" /\ U!UploadStep)
    /\ WF_uvars(part = "upload" /\ record # "ready" /\ U!CleanupStep)
    /\ WF_uvars(part = "upload" /\ U!CleanupLeaked)
    /\ WF_uvars(part = "upload" /\ U!RefreshLists)
    /\ WF_uvars(part = "upload" /\ U!ImportEnds)
    /\ WF_svars(part = "scan" /\ S!Poll) /\ WF_svars(part = "scan" /\ S!Advance)
    /\ WF_svars(part = "scan" /\ S!EndRound)
    /\ \A r \in Scans : WF_svars(part = "scan" /\ S!GetsLate(r))

TypesOK == TypeOK /\ U!TypeOK /\ S!TypeOK
ReadyWhole == ReadyNodeWhole /\ U!ReadyUploadHasImage
RecordOutlives == []RecordOutlivesResources /\ U!RecordOutlivesImage
Reclaimed == ResourcesReclaimed /\ NodeDeleted /\ U!UploadReclaimed
ScansEnd == S!ScansEnd
=============================================================================
