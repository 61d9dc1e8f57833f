---------------------------- MODULE CloudsProofs ----------------------------
(***************************************************************************)
(* What is READY has all its parts at the cloud, and records go after what *)
(* they stand for: for the adapters' instances and uploaded images, any    *)
(* kinds of them, and any number of calls that raise and of crashes.       *)
(***************************************************************************)
EXTENDS MCClouds, SequenceTheorems, FiniteSetTheorems, TLAPS

(* All that the kind of node has *)
Whole ==
    /\ cloud["instance"] = "up"
    /\ kind = "awshost" => cloud["host"] = "up" /\ "host" \in ext
    /\ kind \in {"ibmvpc", "openstack"} => cloud["fip"] = "attached"

(* Until the node is used nothing of it is deleted but floating IPs that   *)
(* are not attached, so what an old list says is up is up.                 *)
ListsInv ==
    phase \in {"create", "ready"} =>
        /\ queued = {}
        /\ \A t \in {"host", "instance"} :
              /\ listed[t] = "up" => cloud[t] = "up"
              /\ cloud[t] = "none" => listed[t] = "none"
              /\ cloud[t] # "deleting"
        /\ listed["fip"] = "attached" => cloud["fip"] = "attached"

(* What there is, and who is waited for, by the state of the state machine *)
StageInv ==
    phase = "create" =>
        /\ sm \in {"host", "submitted host"} => kind = "awshost"
        /\ sm \in {"fip", "attaching"} => kind \in {"ibmvpc", "openstack"}
        /\ sm = "query" => kind = "azure"
        /\ sm = "submitted" => kind \in {"aws", "awshost", "openstack"}
        /\ \A t \in calls \cup results :
              (sm = "submitted host" /\ t = "host") \/ (sm = "submitted" /\ t = "instance")
        /\ \A t \in calls : cloud[t] = "none"
        /\ sm = "start" => \A t \in Types : cloud[t] = "none"
        /\ sm \in {"submitted host", "host"} \/ (sm = "fip" /\ kind = "ibmvpc")
              => cloud["instance"] = "none"
        /\ kind = "awshost" /\ sm = "host" => "host" \in ext
        /\ kind = "awshost" /\ sm \in {"submitted", "instance"}
              => cloud["host"] = "up" /\ "host" \in ext
        /\ kind = "openstack" /\ sm \in {"submitted", "instance"} => cloud["fip"] = "none"
        /\ sm \in {"query", "attaching"} \/ (sm = "fip" /\ kind = "openstack")
              => cloud["instance"] = "up"
        /\ sm = "complete" => Whole

(* A READY node waits for nothing, and the znode has the whole id.         *)
ReadyInv ==
    /\ phase = "ready" => Whole /\ calls = {} /\ results = {}
    /\ phase # "create" => ext = zext

(* What holds together, of a node from its first step on *)
BuildInv == TypeOK /\ ListsInv /\ StageInv /\ ReadyInv

(* Nothing is there at first. *)
LEMMA BuildInit == Init => BuildInv
<1> SUFFICES ASSUME Init PROVE BuildInv
  OBVIOUS
<1> USE DEF Init, Types
<1>1. TypeOK
  <2>1. cloud \in [Types -> States] /\ listed \in [Types -> States]
    BY DEF States
  <2>2. faults \in 0..MaxFaults /\ crashes \in 0..MaxCrashes
    BY BoundsAssumption
  <2> QED BY <2>1, <2>2 DEF TypeOK
<1>2. ListsInv
  BY DEF ListsInv
<1>3. StageInv /\ ReadyInv
  BY DEF StageInv, ReadyInv
<1> QED BY <1>1, <1>2, <1>3 DEF BuildInv

(* A call or a change at the cloud *)
LEMMA CloudType ==
    ASSUME TypeOK, NEW t \in Types, NEW s \in States, cloud' = [cloud EXCEPT ![t] = s]
    PROVE  cloud' \in [Types -> States]
BY DEF TypeOK

(* A call that raises is counted. *)
LEMMA FaultCounted ==
    ASSUME TypeOK, faults' = faults \/ (faults < MaxFaults /\ faults' = faults + 1)
    PROVE  faults' \in 0..MaxFaults
<1>1. faults \in 0..MaxFaults
  BY DEF TypeOK
<1> QED BY <1>1, BoundsAssumption

(* A request to delete leaves every resource in one of its states. *)
LEMMA RequestedType ==
    ASSUME TypeOK, NEW T
    PROVE  Requested(T) \in [Types -> States]
BY DEF TypeOK, Requested, States

(* No step cuts a wait short or takes a part away. *)
LEMMA BuildStep == BuildInv /\ [Next]_vars => BuildInv'
<1> SUFFICES ASSUME BuildInv, [Next]_vars PROVE BuildInv'
  OBVIOUS
<1> USE BoundsAssumption DEF BuildInv, Types, rest
<1>c. CASE AwsCreateAdvance
  <2> USE <1>c DEF AwsCreateAdvance, Creating, Submit, Complete, Seen, Goto, Learn
  <2>1. TypeOK'
    BY DEF TypeOK, StageInv
  <2>2. ListsInv'
    BY DEF ListsInv
  <2>3. StageInv'
    <3>1. UNCHANGED <<kind, phase, cloud>> /\ phase = "create" /\ kind \in {"aws", "awshost"}
      OBVIOUS
    <3>2. CASE sm = "start"
      BY <3>1, <3>2 DEF StageInv
    <3>3. CASE sm = "submitted host"
      <4>1. calls' = {} /\ results' = {} /\ sm' = "host" /\ ext' = ext \cup {"host"}
        BY <3>3 DEF StageInv, TypeOK
      <4> QED BY <3>1, <3>3, <4>1 DEF StageInv
    <3>4. CASE sm = "submitted"
      <4>1. calls' = {} /\ results' = {} /\ sm' = "instance" /\ ext' = ext \cup {"instance"}
        BY <3>4 DEF StageInv, TypeOK
      <4> QED BY <3>1, <3>4, <4>1 DEF StageInv
    <3>5. CASE sm = "host"
      BY <3>1, <3>5 DEF StageInv, ListsInv
    <3>6. CASE sm = "instance"
      BY <3>1, <3>6 DEF StageInv, ListsInv, Whole
    <3> QED BY <3>2, <3>3, <3>4, <3>5, <3>6
  <2>4. ReadyInv'
    BY DEF ReadyInv
  <2> QED BY <2>1, <2>2, <2>3, <2>4
<1>z. CASE AzureCreateAdvance
  <2> USE <1>z DEF AzureCreateAdvance, Creating, MakeNamed, Make, Seen, Goto, Learn
  <2>1. TypeOK'
    <3>1. cloud' \in [Types -> States]
      BY CloudType DEF TypeOK, States
    <3>2. ext' \in SUBSET Types /\ zext' \in SUBSET ext'
      BY DEF TypeOK
    <3>3. UNCHANGED <<calls, results, rest, phase>>
      BY DEF TypeOK
    <3>4. sm' \in {"instance", "query", "complete"}
      OBVIOUS
    <3> QED BY <3>1, <3>2, <3>3, <3>4 DEF TypeOK
  <2>2. ListsInv'
    BY DEF ListsInv, StageInv, TypeOK
  <2>3. StageInv'
    BY DEF StageInv, ListsInv, TypeOK, Whole
  <2>4. ReadyInv'
    BY DEF ReadyInv
  <2> QED BY <2>1, <2>2, <2>3, <2>4
<1>g. CASE GceCreateAdvance
  <2> USE <1>g DEF GceCreateAdvance, Creating, MakeNamed, Make, Seen, Goto, Learn
  <2>1. TypeOK'
    <3>1. cloud' \in [Types -> States]
      BY CloudType DEF TypeOK, States
    <3>2. ext' \in SUBSET Types /\ zext' \in SUBSET ext'
      BY DEF TypeOK
    <3>3. UNCHANGED <<calls, results, rest, phase>>
      BY DEF TypeOK
    <3>4. sm' \in {"instance", "complete"}
      OBVIOUS
    <3> QED BY <3>1, <3>2, <3>3, <3>4 DEF TypeOK
  <2>2. ListsInv'
    BY DEF ListsInv, StageInv, TypeOK
  <2>3. StageInv'
    BY DEF StageInv, ListsInv, TypeOK, Whole
  <2>4. ReadyInv'
    BY DEF ReadyInv
  <2> QED BY <2>1, <2>2, <2>3, <2>4
<1>i. CASE IbmCreateAdvance
  <2> USE <1>i DEF IbmCreateAdvance, Creating, MakeNamed, Make, Seen, Goto, Learn
  <2>1. TypeOK'
    <3>1. cloud' \in [Types -> States]
      BY CloudType DEF TypeOK, States
    <3>2. ext' \in SUBSET Types /\ zext' \in SUBSET ext'
      BY DEF TypeOK
    <3>3. UNCHANGED <<calls, results, rest, phase>>
      BY DEF TypeOK
    <3>4. sm' \in {"fip", "instance", "attaching", "complete"}
      OBVIOUS
    <3> QED BY <3>1, <3>2, <3>3, <3>4 DEF TypeOK
  <2>2. ListsInv'
    <3>1. cloud["fip"] = "attached" => cloud'["fip"] = "attached"
      BY DEF StageInv, TypeOK
    <3>2. \/ UNCHANGED <<cloud["host"], cloud["instance"]>>
          \/ /\ cloud["instance"] = "none" /\ cloud'["instance"] = "pending"
             /\ UNCHANGED cloud["host"]
      BY DEF StageInv, TypeOK
    <3>3. UNCHANGED <<listed, queued, phase>>
      OBVIOUS
    <3> QED BY <3>1, <3>2, <3>3 DEF ListsInv
  <2>3. StageInv'
    BY DEF StageInv, ListsInv, TypeOK, Whole
  <2>4. ReadyInv'
    BY DEF ReadyInv
  <2> QED BY <2>1, <2>2, <2>3, <2>4
<1>o. CASE OpenStackCreateAdvance
  <2> USE <1>o DEF OpenStackCreateAdvance, Creating, Submit, Complete, Make, Seen, Goto, Learn
  <2>1. TypeOK'
    <3>1. cloud' \in [Types -> States]
      BY CloudType DEF TypeOK, States
    <3>2. ext' \in SUBSET Types /\ zext' \in SUBSET ext'
      BY DEF TypeOK
    <3>3. calls' \in SUBSET Types /\ results' \in SUBSET Types /\ calls' \cap results' = {}
      BY DEF TypeOK, StageInv
    <3>4. sm' \in {"submitted", "instance", "fip", "attaching", "complete"} /\ UNCHANGED <<rest, phase>>
      OBVIOUS
    <3> QED BY <3>1, <3>2, <3>3, <3>4 DEF TypeOK
  <2>2. ListsInv'
    <3>1. cloud["fip"] = "attached" => cloud'["fip"] = "attached"
      BY DEF StageInv, TypeOK
    <3>2. UNCHANGED <<cloud["host"], cloud["instance"], listed, queued, phase>>
      BY DEF TypeOK
    <3> QED BY <3>1, <3>2 DEF ListsInv
  <2>3. StageInv'
    <3>1. UNCHANGED <<kind, phase>> /\ phase = "create" /\ kind = "openstack"
      OBVIOUS
    <3>2. CASE sm = "start"
      BY <3>1, <3>2 DEF StageInv
    <3>3. CASE sm = "submitted"
      <4>1. calls' = {} /\ results' = {} /\ sm' = "instance" /\ UNCHANGED cloud
        BY <3>3 DEF StageInv, TypeOK
      <4> QED BY <3>1, <3>3, <4>1 DEF StageInv
    <3>4. CASE sm = "instance"
      BY <3>1, <3>4 DEF StageInv, ListsInv, TypeOK
    <3>5. CASE sm = "fip"
      BY <3>1, <3>5 DEF StageInv, TypeOK
    <3>6. CASE sm = "attaching"
      BY <3>1, <3>6 DEF StageInv, ListsInv, Whole
    <3> QED BY <3>2, <3>3, <3>4, <3>5, <3>6
  <2>4. ReadyInv'
    BY DEF ReadyInv
  <2> QED BY <2>1, <2>2, <2>3, <2>4
<1>0. ASSUME phase' \notin {"create", "ready"}, TypeOK', ext' = zext'
      PROVE  BuildInv'
  BY <1>0 DEF ListsInv, StageInv, ReadyInv
<1>1. CASE CreateComplete
  <2> USE <1>1 DEF CreateComplete
  <2>1. TypeOK'
    BY DEF TypeOK
  <2>2. ListsInv' /\ StageInv'
    BY DEF ListsInv, StageInv
  <2>3. ReadyInv'
    BY DEF ReadyInv, StageInv, Whole
  <2> QED BY <2>1, <2>2, <2>3
<1>2. CASE CreateError \/ LaunchFails \/ CallRaises
  <2>1. /\ phase' = "idle" /\ sm' = "none" /\ ext' = zext'
        /\ ext' \in SUBSET Types
    BY <1>2 DEF CreateError, LaunchFails, CallRaises, GiveUp, TypeOK
  <2>2. cloud' \in [Types -> States]
    <3>1. CASE CallRaises
      <4>1. PICK t \in AboutToMake : Make(t)
        BY <3>1 DEF CallRaises
      <4> QED BY <4>1, CloudType DEF AboutToMake, Make, States
    <3> QED BY <1>2, <3>1 DEF CreateError, LaunchFails, TypeOK
  <2>3. /\ calls' \in SUBSET Types /\ results' \in SUBSET Types /\ calls' \cap results' = {}
        /\ UNCHANGED <<kind, listed, queued, possibly, unlisted, crashes>>
    BY <1>2 DEF CreateError, LaunchFails, CallRaises, GiveUp, TypeOK
  <2>4. faults' \in 0..MaxFaults /\ orphan' \in BOOLEAN
    <3>1. faults' = faults \/ (faults < MaxFaults /\ faults' = faults + 1)
      BY <1>2 DEF CreateError, LaunchFails, CallRaises
    <3>2. orphan \in BOOLEAN
      BY DEF TypeOK
    <3>3. orphan' = orphan \/ orphan' = (orphan \/ calls \cup results # {})
      BY <1>2 DEF CreateError, LaunchFails, CallRaises, GiveUp
    <3> QED BY <3>1, <3>2, <3>3, FaultCounted
  <2>5. TypeOK'
    BY <2>1, <2>2, <2>3, <2>4 DEF TypeOK
  <2> QED BY <1>0, <2>1, <2>5
<1>3. CASE NodeUsed \/ StartDelete \/ DeleteComplete \/ DeleteTimeout \/ NotThere
  <2>1. /\ phase' \in {"idle", "delete", "gone"} /\ ext' = zext' /\ zext' = zext
        /\ sm' \in {sm, "start", "none"}
        /\ UNCHANGED <<cloud, calls, results, rest>>
    BY <1>3 DEF NodeUsed, StartDelete, DeleteComplete, DeleteTimeout, NotThere, DeleteEnds,
                Deleting, ReadyInv
  <2>2. TypeOK'
    BY <2>1 DEF TypeOK
  <2> QED BY <1>0, <2>1, <2>2
<1>4. CASE DeleteAdvance
  <2>1. /\ phase = "delete" /\ UNCHANGED phase /\ UNCHANGED delrest
    BY <1>4 DEF DeleteAdvance, AwsDeleteAdvance, AzureDeleteAdvance, GceDeleteAdvance,
                IbmDeleteAdvance, OpenStackDeleteAdvance, Deleting, FindAndDelete,
                FindAndQueue, GoneFromList, Goto
  <2>2. /\ sm' \in {"submitted host", "host", "instance", "fip", "query", "complete"}
        /\ unlisted' \in SUBSET Types /\ queued' \in SUBSET Types
    BY <1>4 DEF DeleteAdvance, AwsDeleteAdvance, AzureDeleteAdvance, GceDeleteAdvance,
                IbmDeleteAdvance, OpenStackDeleteAdvance, Deleting, FindAndDelete,
                FindAndQueue, GoneFromList, Goto, TypeOK
  <2>3. cloud' \in [Types -> States]
    BY <1>4, RequestedType
       DEF DeleteAdvance, AwsDeleteAdvance, AzureDeleteAdvance, GceDeleteAdvance,
           IbmDeleteAdvance, OpenStackDeleteAdvance, Deleting, FindAndDelete,
           FindAndQueue, GoneFromList, Goto, TypeOK
  <2>4. TypeOK'
    BY <2>1, <2>2, <2>3 DEF TypeOK, delrest
  <2> QED BY <1>0, <2>1, <2>4 DEF ReadyInv, delrest
<1>5. CASE DeleteThread
  <2>1. cloud' \in [Types -> States]
    BY <1>5, RequestedType DEF DeleteThread, TypeOK
  <2>2. TypeOK'
    <3>1. faults' \in 0..MaxFaults
      BY <1>5, FaultCounted DEF DeleteThread
    <3> QED BY <1>5, <2>1, <3>1 DEF DeleteThread, TypeOK
  <2>3. phase \notin {"create", "ready"}
    BY <1>5 DEF DeleteThread, ListsInv
  <2> QED BY <1>0, <1>5, <2>2, <2>3 DEF DeleteThread, ReadyInv
<1>6. CASE CleanupLeaked
  <2>1. cloud' \in [Types -> States]
    BY <1>6, RequestedType DEF CleanupLeaked, TypeOK
  <2>2. possibly' \in BOOLEAN
    BY <1>6 DEF CleanupLeaked
  <2>3. TypeOK'
    BY <1>6, <2>1, <2>2 DEF CleanupLeaked, TypeOK
  <2> QED BY <1>0, <1>6, <2>3 DEF CleanupLeaked, ReadyInv
<1>7. CASE CleanupFloatingIps
  <2> USE <1>7 DEF CleanupFloatingIps
  <2>1. TypeOK'
    <3>1. cloud' \in [Types -> States]
      BY CloudType DEF States
    <3> QED BY <3>1 DEF TypeOK
  <2>0. /\ cloud["fip"] \in {"pending", "up", "failed"} /\ cloud'["fip"] = "deleting"
        /\ UNCHANGED <<cloud["host"], cloud["instance"]>>
        /\ UNCHANGED <<phase, sm, ext, zext, calls, results, kind, listed, queued>>
    BY DEF TypeOK
  <2>2. ListsInv'
    BY <2>0 DEF ListsInv
  <2>3. StageInv'
    BY <2>0 DEF StageInv, Whole
  <2>4. ReadyInv'
    BY <2>0 DEF ReadyInv, Whole
  <2> QED BY <2>1, <2>2, <2>3, <2>4
<1>8. ASSUME NEW t \in Types, CallReturns(t) PROVE BuildInv'
  <2> USE <1>8 DEF CallReturns
  <2>1. TypeOK'
    <3>1. cloud' \in [Types -> States]
      BY CloudType DEF States
    <3> QED BY <3>1 DEF TypeOK
  <2>2. CASE phase = "create"
    <3>1. /\ cloud[t] = "none" /\ cloud'[t] = "pending" /\ t \in {"host", "instance"}
          /\ \A u \in Types \ {t} : cloud'[u] = cloud[u]
          /\ calls' \cup results' = calls \cup results /\ calls' \subseteq calls \ {t}
      BY <2>2 DEF StageInv, TypeOK
    <3>2. ListsInv'
      BY <2>2, <3>1 DEF ListsInv
    <3>3. UNCHANGED <<kind, phase, sm, ext>>
      OBVIOUS
    <3>4. (sm = "submitted host" /\ t = "host") \/ (sm = "submitted" /\ t = "instance")
      BY <2>2 DEF StageInv
    <3>5. StageInv'
      <4>1. CASE sm = "submitted host" /\ t = "host"
        BY <2>2, <3>1, <3>3, <4>1 DEF StageInv, Whole
      <4>2. CASE sm = "submitted" /\ t = "instance"
        BY <2>2, <3>1, <3>3, <4>2 DEF StageInv, Whole
      <4> QED BY <3>4, <4>1, <4>2
    <3> QED BY <2>1, <2>2, <3>2, <3>5 DEF ReadyInv
  <2>3. CASE phase # "create"
    BY <1>0, <2>1, <2>3 DEF ReadyInv
  <2> QED BY <2>2, <2>3
<1>9. ASSUME NEW t \in Types, CallFails(t) PROVE BuildInv'
  <2>1. CASE UNCHANGED <<phase, sm, ext, zext, cloud>>
    <3>1. t \in calls /\ calls' = calls \ {t} /\ UNCHANGED <<results, rest>>
      BY <1>9 DEF CallFails
    <3>2. TypeOK'
      BY <2>1, <3>1 DEF TypeOK
    <3>3. ListsInv' /\ ReadyInv'
      BY <2>1, <3>1 DEF ListsInv, ReadyInv, Whole
    <3>4. StageInv'
      BY <2>1, <3>1 DEF StageInv, Whole
    <3> QED BY <3>2, <3>3, <3>4
  <2>2. CASE phase' = "idle" /\ phase = "create"
    <3>1. /\ cloud' \in [Types -> States] /\ ext' \in SUBSET Types
      BY <1>9, <2>2, CloudType DEF CallFails, States, TypeOK
    <3>2. sm' = "none" /\ ext' = zext' /\ calls' = calls \ {t} /\ UNCHANGED <<results, rest>>
      BY <1>9, <2>2 DEF CallFails
    <3>3. TypeOK'
      BY <2>2, <3>1, <3>2 DEF TypeOK
    <3> QED BY <1>0, <2>2, <3>2, <3>3
  <2> QED BY <1>9, <2>1, <2>2 DEF CallFails
<1>10. ASSUME NEW t \in Types, CloudChanges(t) PROVE BuildInv'
  <2>0. UNCHANGED <<phase, sm, ext, zext, calls, results, rest>>
    BY <1>10 DEF CloudChanges
  <2>1. cloud' \in [Types -> States]
    <3>1. cloud \in [Types -> States]
      BY DEF TypeOK
    <3>2. CASE cloud[t] = "pending" /\ \E s \in {"up", "failed"} : cloud' = [cloud EXCEPT ![t] = s]
      BY <3>1, <3>2 DEF States
    <3>3. CASE cloud' = [u \in Types |->
                 CASE u = t -> "none"
                   [] u = "fip" /\ t = "instance" /\ cloud[u] = "attached" -> "up"
                   [] OTHER -> cloud[u]]
      <4>1. \A u \in Types : cloud[u] \in States
        BY <3>1
      <4> QED BY <3>3, <4>1 DEF States
    <3> QED BY <1>10, <3>2, <3>3 DEF CloudChanges
  <2>2. TypeOK'
    BY <2>0, <2>1 DEF TypeOK
  <2>3. CASE phase \in {"create", "ready"}
    <3>1. \/ cloud[t] = "pending" /\ cloud'[t] \in {"up", "failed"}
             /\ \A u \in Types \ {t} : cloud'[u] = cloud[u]
          \/ t = "fip" /\ cloud[t] = "deleting" /\ cloud'[t] = "none"
             /\ \A u \in Types \ {t} : cloud'[u] = cloud[u]
      BY <1>10, <2>3 DEF CloudChanges, ListsInv, TypeOK
    <3>2. ListsInv'
      BY <2>0, <3>1 DEF ListsInv
    <3>3. StageInv'
      BY <2>0, <3>1 DEF StageInv, Whole
    <3>4. ReadyInv'
      BY <2>0, <3>1 DEF ReadyInv, Whole
    <3> QED BY <2>2, <3>2, <3>3, <3>4
  <2>4. CASE phase \notin {"create", "ready"}
    BY <1>0, <2>0, <2>2, <2>4 DEF ReadyInv
  <2> QED BY <2>3, <2>4
<1>11. CASE RefreshLists
  <2> USE <1>11 DEF RefreshLists
  <2>1. TypeOK' /\ ListsInv'
    BY DEF TypeOK, ListsInv
  <2>2. StageInv' /\ ReadyInv'
    BY DEF StageInv, ReadyInv, Whole
  <2> QED BY <2>1, <2>2
<1>12. CASE Crash
  <2> USE <1>12 DEF Crash
  <2>0. PICK sent \in SUBSET calls : calls' = sent
    OBVIOUS
  <2>1. orphan' \in BOOLEAN
    BY DEF TypeOK
  <2>2. TypeOK'
    <3>1. phase' \in {"ready", "idle", "gone"} /\ ext' = zext /\ zext' = zext /\ zext \in SUBSET Types
      BY DEF TypeOK
    <3>2. crashes' \in 0..MaxCrashes
      <4>1. crashes \in 0..MaxCrashes
        BY DEF TypeOK
      <4> QED BY <4>1
    <3>3. calls' \in SUBSET Types
      BY <2>0 DEF TypeOK
    <3> QED BY <2>1, <3>1, <3>2, <3>3 DEF TypeOK
  <2>3. CASE phase = "ready"
    <3>1. ListsInv' /\ StageInv'
      BY <2>3 DEF ListsInv, StageInv
    <3>2. ReadyInv'
      BY <2>0, <2>3 DEF ReadyInv, Whole
    <3> QED BY <2>2, <3>1, <3>2
  <2>4. CASE phase # "ready"
    BY <1>0, <2>2, <2>4
  <2> QED BY <2>3, <2>4
<1>13. CASE UNCHANGED vars
  <2>1. TypeOK' /\ ListsInv'
    BY <1>13 DEF vars, TypeOK, ListsInv
  <2>2. StageInv' /\ ReadyInv'
    BY <1>13 DEF vars, StageInv, ReadyInv, Whole
  <2> QED BY <2>1, <2>2
<1> QED
  BY <1>c, <1>z, <1>g, <1>i, <1>o, <1>1, <1>2, <1>3, <1>4, <1>5, <1>6, <1>7, <1>8, <1>9,
     <1>10, <1>11, <1>12, <1>13
     DEF Next, CreateAdvance

(* A READY node has all its parts: no old list cuts a wait short, and no   *)
(* cleanup, deletion or late call touches a node before it is used.        *)
THEOREM InstanceWhole == Spec => []ReadyNodeWhole
<1>1. BuildInv => ReadyNodeWhole
  BY DEF BuildInv, ReadyInv, Whole, ReadyNodeWhole
<1> QED BY <1>1, BuildInit, BuildStep, PTL DEF Spec

(* On its way out, or no list had it when it was looked for *)
Doomed(t) == cloud[t] \in {"none", "deleting"}
Off(t) == Doomed(t) \/ t \in unlisted
OnHosts == {"aws", "awshost"}

(* The id in memory names what there is, or the call that made it is still *)
(* waited for: by its own id at AWS, elsewhere by that of the instance.    *)
PartsInv ==
    ~orphan =>
        /\ phase # "create" => calls = {} /\ results = {}
        /\ \A t \in Types :
              Doomed(t) \/ t \in results \/ (IF kind \in OnHosts THEN t ELSE "instance") \in ext
        /\ kind # "awshost" => cloud["host"] = "none"
        /\ kind \notin {"ibmvpc", "openstack"} => cloud["fip"] = "none"
        /\ cloud["fip"] = "attached" => cloud["instance"] # "none"
        /\ listed["fip"] = "attached" => listed["instance"] # "none"

(* What the delete state machine has behind it is on its way out, or no    *)
(* list had it.                                                            *)
DeleteInv ==
    ~orphan =>
        /\ phase = "gone" \/ (phase = "delete" /\ sm = "complete") => \A t \in Types : Off(t)
        /\ phase = "delete" =>
              /\ sm = "instance" /\ (kind \in OnHosts => listed["instance"] = "none")
                    => Off("instance")
              /\ sm \in {"submitted host", "host"} => Off("instance")
              /\ sm = "host" /\ listed["host"] = "none" => Off("host")
              /\ sm \in {"fip", "query", "instance"} => Off("fip")

(* What is on its way out stays so, and what is asked for is, a host apart. *)
LEMMA RequestedParts ==
    ASSUME TypeOK, NEW T, cloud' = Requested(T)
    PROVE  \A t \in Types :
              /\ cloud'[t] \in {cloud[t], "deleting"}
              /\ Doomed(t) => cloud'[t] = cloud[t]
              /\ t \in T /\ t # "host" => cloud'[t] \in {"none", "deleting"}
BY DEF Requested, Doomed, Refused, TypeOK

(* A delete state machine passes over nothing that it should have deleted. *)
LEMMA DeleteStep == BuildInv /\ PartsInv /\ DeleteInv /\ [Next]_vars => PartsInv' /\ DeleteInv'
<1> SUFFICES ASSUME BuildInv, PartsInv, DeleteInv, [Next]_vars, ~orphan'
             PROVE  PartsInv' /\ DeleteInv'
  BY DEF PartsInv, DeleteInv
<1> USE DEF BuildInv, Types, rest, Doomed, Off, OnHosts
<1>c. CASE CreateAdvance
  <2>1. /\ phase = "create" /\ phase' = "create"
        /\ UNCHANGED rest
    BY <1>c DEF CreateAdvance, AwsCreateAdvance, AzureCreateAdvance, GceCreateAdvance,
                IbmCreateAdvance, OpenStackCreateAdvance, Creating, Submit, Complete,
                MakeNamed, Seen, Goto
  <2>2. DeleteInv'
    BY <2>1 DEF DeleteInv
  <2>3. CASE AwsCreateAdvance
    <3>1. /\ UNCHANGED cloud /\ kind \in OnHosts
          /\ \A t \in Types : t \in results \cup ext => t \in results' \cup ext'
      BY <2>3 DEF AwsCreateAdvance, Creating, Submit, Complete, Seen, Goto, Learn
    <3> QED BY <2>1, <2>2, <3>1 DEF PartsInv
  <2>4. CASE AzureCreateAdvance \/ GceCreateAdvance
    <3>1. /\ kind \in {"azure", "gce"} /\ ext \subseteq ext' /\ results' = results
          /\ \/ UNCHANGED cloud
             \/ /\ "instance" \in ext' /\ cloud'["instance"] = "pending"
                /\ UNCHANGED <<cloud["host"], cloud["fip"]>>
      BY <2>4 DEF AzureCreateAdvance, GceCreateAdvance, Creating, MakeNamed, Make,
                  Seen, Goto, Learn, TypeOK
    <3> QED BY <2>1, <2>2, <3>1 DEF PartsInv
  <2>5. CASE IbmCreateAdvance
    <3>1. /\ kind = "ibmvpc" /\ ext \subseteq ext' /\ results' = results
          /\ UNCHANGED cloud["host"]
          /\ cloud["instance"] # "none" => cloud'["instance"] # "none"
      BY <2>5 DEF IbmCreateAdvance, Creating, MakeNamed, Make, Seen, Goto, Learn, TypeOK
    <3>2. \/ UNCHANGED cloud
          \/ "instance" \in ext' /\ cloud'["fip"] \in {"pending", cloud["fip"]}
          \/ UNCHANGED cloud["instance"] /\ ~Doomed("fip") /\ cloud["instance"] = "up"
      BY <2>5 DEF IbmCreateAdvance, Creating, MakeNamed, Make, Seen, Goto, Learn, TypeOK,
                  ListsInv
    <3> QED BY <2>1, <2>2, <3>1, <3>2 DEF PartsInv
  <2>6. CASE OpenStackCreateAdvance
    <3>1. /\ kind = "openstack"
          /\ \A t \in Types : t \in results \cup ext => t \in results' \cup ext'
          /\ ext \subseteq ext' /\ UNCHANGED <<cloud["host"], cloud["instance"]>>
      BY <2>6 DEF OpenStackCreateAdvance, Creating, Submit, Complete, Make, Seen, Goto, Learn,
                  TypeOK
    <3>2. UNCHANGED cloud \/ (cloud["instance"] = "up" /\ results = {} /\ results' = {})
      BY <2>6 DEF OpenStackCreateAdvance, Creating, Submit, Complete, Make, Seen, Goto, Learn,
                  TypeOK, StageInv, ListsInv
    <3>3. \A t \in results : t = "instance"
      BY <2>1, <3>1 DEF StageInv
    <3> QED BY <2>1, <2>2, <3>1, <3>2, <3>3 DEF PartsInv
  <2> QED BY <1>c, <2>2, <2>3, <2>4, <2>5, <2>6 DEF CreateAdvance
<1>1. CASE CreateComplete
  <2>1. PartsInv'
    BY <1>1 DEF CreateComplete, StageInv, PartsInv
  <2>2. DeleteInv'
    BY <1>1 DEF CreateComplete, DeleteInv
  <2> QED BY <2>1, <2>2
<1>2. CASE CreateError \/ LaunchFails
  <2>1. /\ phase' = "idle" /\ results' = {} /\ UNCHANGED <<kind, ext, listed, calls, cloud>>
        /\ ~orphan /\ calls = {} /\ results = {}
    BY <1>2 DEF CreateError, LaunchFails, GiveUp
  <2> QED BY <2>1 DEF PartsInv, DeleteInv
<1>3. CASE CallRaises
  <2>1. PICK t \in AboutToMake : Make(t)
    BY <1>3 DEF CallRaises
  <2>2. /\ phase' = "idle" /\ ext' = ext \cup {"instance"} /\ ~orphan
        /\ UNCHANGED <<kind, listed, calls, results>> /\ phase = "create"
    BY <1>3 DEF CallRaises
  <2>3. calls = {} /\ results = {} /\ kind \notin OnHosts /\ t \in {"instance", "fip"}
        /\ (t = "fip" => kind \in {"ibmvpc", "openstack"})
    BY <2>1, <2>2 DEF AboutToMake, StageInv
  <2>4. \A u \in Types : cloud'[u] = IF u = t THEN "pending" ELSE cloud[u]
    BY <2>1, <2>3 DEF Make, TypeOK
  <2> QED BY <2>2, <2>3, <2>4 DEF PartsInv, DeleteInv
<1>4. CASE NodeUsed \/ StartDelete \/ DeleteTimeout \/ NotThere
  <2>1. /\ phase' = "idle" \/ (phase' = "delete" /\ sm' = "start")
        /\ ext' = ext /\ phase # "create"
        /\ UNCHANGED <<cloud, calls, results, rest>>
    BY <1>4 DEF NodeUsed, StartDelete, DeleteTimeout, NotThere, DeleteEnds, Deleting, ReadyInv
  <2> QED BY <2>1 DEF PartsInv, DeleteInv
<1>5. CASE DeleteComplete
  <2>1. PartsInv'
    BY <1>5 DEF DeleteComplete, PartsInv
  <2>2. DeleteInv'
    BY <1>5 DEF DeleteComplete, PartsInv, DeleteInv
  <2> QED BY <2>1, <2>2
<1>6. CASE DeleteAdvance
  <2>1. /\ phase = "delete" /\ phase' = "delete" /\ ~orphan
        /\ UNCHANGED <<kind, ext, listed, calls, results>>
    <3>1. phase = "delete" /\ UNCHANGED phase /\ UNCHANGED delrest
      BY <1>6 DEF DeleteAdvance, AwsDeleteAdvance, AzureDeleteAdvance, GceDeleteAdvance,
                  IbmDeleteAdvance, OpenStackDeleteAdvance, Deleting, FindAndDelete,
                  FindAndQueue, GoneFromList, Goto
    <3> QED BY <3>1 DEF delrest
  <2>2. /\ unlisted \subseteq unlisted'
        /\ UNCHANGED cloud \/ \E T \in {{"fip"}, {"instance"}} : cloud' = Requested(T)
    BY <1>6 DEF DeleteAdvance, AwsDeleteAdvance, AzureDeleteAdvance, GceDeleteAdvance,
                IbmDeleteAdvance, OpenStackDeleteAdvance, Deleting, FindAndDelete,
                FindAndQueue, GoneFromList, Goto
  <2>3. \A t \in Types : cloud'[t] \in {cloud[t], "deleting"} /\ (Doomed(t) => cloud'[t] = cloud[t])
    BY <2>2, RequestedParts
  <2>4. PartsInv'
    BY <2>1, <2>3 DEF PartsInv
  <2>5. CASE AwsDeleteAdvance
    <3>1. cloud' = cloud /\ \A t \in Types : Doomed(t) \/ t \in ext
      BY <2>1, <2>5 DEF AwsDeleteAdvance, FindAndQueue, GoneFromList, Goto, Deleting, PartsInv
    <3>2. cloud["fip"] = "none"
      BY <2>1, <2>5 DEF AwsDeleteAdvance, Deleting, PartsInv
    <3>3. DeleteInv'
      BY <2>1, <2>2, <2>5, <3>1, <3>2
         DEF AwsDeleteAdvance, FindAndQueue, GoneFromList, Goto, Deleting, DeleteInv
    <3> QED BY <2>4, <3>3
  <2>6. CASE AzureDeleteAdvance \/ GceDeleteAdvance
    <3>1. cloud'["fip"] = "none" /\ cloud'["host"] = "none" /\ kind \notin OnHosts
      BY <2>1, <2>3, <2>6 DEF AzureDeleteAdvance, GceDeleteAdvance, Deleting, PartsInv
    <3>2. sm' = "instance" => cloud'["instance"] \in {"none", "deleting"}
      BY <2>6, RequestedParts
         DEF AzureDeleteAdvance, GceDeleteAdvance, FindAndDelete, GoneFromList, Goto
    <3>3. sm' = "complete" => cloud'["instance"] \in {"none", "deleting"} \/ "instance" \in unlisted'
      BY <2>1, <2>3, <2>6, <3>1
         DEF AzureDeleteAdvance, GceDeleteAdvance, FindAndDelete, GoneFromList, Goto, DeleteInv,
             Deleting
    <3>4. sm' \in {"instance", "complete"}
      BY <2>6 DEF AzureDeleteAdvance, GceDeleteAdvance, FindAndDelete, GoneFromList, Goto
    <3>5. DeleteInv'
      BY <2>1, <3>1, <3>2, <3>3, <3>4 DEF DeleteInv
    <3> QED BY <2>4, <3>5
  <2>7. CASE IbmDeleteAdvance
    <3>1. cloud'["host"] = "none" /\ kind = "ibmvpc" /\ kind \notin OnHosts
      BY <2>1, <2>3, <2>7 DEF IbmDeleteAdvance, Deleting, PartsInv
    <3>2. cloud'["fip"] \in {"none", "deleting"} \/ "fip" \in unlisted'
      BY <2>1, <2>2, <2>3, <2>7, RequestedParts
         DEF IbmDeleteAdvance, FindAndDelete, GoneFromList, Goto, DeleteInv, Deleting
    <3>3. sm' \in {"instance", "complete"}
             => cloud'["instance"] \in {"none", "deleting"} \/ "instance" \in unlisted'
      BY <2>1, <2>2, <2>3, <2>7, <3>1, RequestedParts
         DEF IbmDeleteAdvance, FindAndDelete, GoneFromList, Goto, DeleteInv, Deleting
    <3>4. sm' \in {"fip", "query", "instance", "complete"}
      BY <2>7 DEF IbmDeleteAdvance, FindAndDelete, GoneFromList, Goto
    <3>5. DeleteInv'
      BY <2>1, <3>1, <3>2, <3>3, <3>4 DEF DeleteInv
    <3> QED BY <2>4, <3>5
  <2>8. CASE OpenStackDeleteAdvance
    <3>1. cloud'["host"] = "none" /\ kind = "openstack" /\ kind \notin OnHosts
      BY <2>1, <2>3, <2>8 DEF OpenStackDeleteAdvance, Deleting, PartsInv
    <3>2. cloud'["fip"] \in {"none", "deleting"} \/ "fip" \in unlisted'
      BY <2>1, <2>2, <2>3, <2>8, RequestedParts
         DEF OpenStackDeleteAdvance, GoneFromList, Goto, PartsInv, DeleteInv, Deleting
    <3>3. sm' \in {"instance", "complete"}
             => cloud'["instance"] \in {"none", "deleting"} \/ "instance" \in unlisted'
      BY <2>1, <2>2, <2>3, <2>8, <3>1, RequestedParts
         DEF OpenStackDeleteAdvance, GoneFromList, Goto, DeleteInv, Deleting
    <3>4. sm' \in {"fip", "query", "instance", "complete"}
      BY <2>8 DEF OpenStackDeleteAdvance, GoneFromList, Goto
    <3>5. DeleteInv'
      BY <2>1, <3>1, <3>2, <3>3, <3>4 DEF DeleteInv
    <3> QED BY <2>4, <3>5
  <2> QED BY <1>6, <2>5, <2>6, <2>7, <2>8 DEF DeleteAdvance
<1>7. CASE DeleteThread \/ CleanupLeaked
  <2>1. /\ UNCHANGED cloud \/ cloud' = Requested(queued) \/ cloud' = Requested(Resources)
        /\ UNCHANGED <<kind, phase, sm, ext, listed, calls, results, unlisted, orphan>>
    BY <1>7 DEF DeleteThread, CleanupLeaked
  <2>2. \A t \in Types : cloud'[t] \in {cloud[t], "deleting"} /\ (Doomed(t) => cloud'[t] = cloud[t])
    BY <2>1, RequestedParts
  <2>3. PartsInv'
    BY <2>1, <2>2 DEF PartsInv
  <2>4. DeleteInv'
    BY <2>1, <2>2 DEF DeleteInv
  <2> QED BY <2>3, <2>4
<1>8. CASE CleanupFloatingIps
  <2>1. /\ kind = "openstack"
        /\ UNCHANGED <<kind, phase, sm, ext, listed, calls, results, unlisted, orphan>>
        /\ cloud'["fip"] = "deleting" /\ UNCHANGED <<cloud["host"], cloud["instance"]>>
    BY <1>8 DEF CleanupFloatingIps, TypeOK
  <2>2. PartsInv'
    BY <2>1 DEF PartsInv
  <2>3. DeleteInv'
    BY <2>1 DEF DeleteInv
  <2> QED BY <2>2, <2>3
<1>9. ASSUME NEW t \in Types, CallReturns(t)
      PROVE  PartsInv' /\ DeleteInv'
  <2>1. ~orphan /\ phase = "create" /\ t \in {"host", "instance"} /\ (t = "host" => kind = "awshost")
    BY <1>9 DEF CallReturns, PartsInv, StageInv
  <2>2. /\ results' = results \cup {t}
        /\ \A u \in Types : cloud'[u] = IF u = t THEN "pending" ELSE cloud[u]
        /\ UNCHANGED <<kind, phase, ext, listed>>
    BY <1>9, <2>1 DEF CallReturns, TypeOK
  <2> QED BY <2>1, <2>2 DEF PartsInv, DeleteInv
<1>10. ASSUME NEW t \in Types, CallFails(t)
       PROVE  PartsInv' /\ DeleteInv'
  <2>1. /\ ~orphan /\ phase = "create" /\ t \in calls /\ calls' = calls \ {t}
        /\ UNCHANGED <<results, rest>>
    BY <1>10 DEF CallFails, PartsInv
  <2>2. CASE UNCHANGED <<phase, sm, ext, zext, cloud>>
    BY <2>1, <2>2 DEF PartsInv, DeleteInv
  <2>3. CASE phase' = "idle"
    <3>1. calls' = {} /\ results = {} /\ (kind = "openstack" => t = "instance")
      BY <2>1 DEF StageInv, TypeOK
    <3>2. \/ UNCHANGED <<ext, cloud>>
          \/ /\ kind = "openstack" /\ ext' = {t}
             /\ \A u \in Types : cloud'[u] = IF u = t THEN "failed" ELSE cloud[u]
      BY <1>10, <2>3 DEF CallFails, TypeOK
    <3>3. PartsInv'
      BY <2>1, <2>3, <3>1, <3>2 DEF PartsInv
    <3> QED BY <2>3, <3>3 DEF DeleteInv
  <2> QED BY <1>10, <2>2, <2>3 DEF CallFails
<1>11. ASSUME NEW t \in Types, CloudChanges(t)
       PROVE  PartsInv' /\ DeleteInv'
  <2>1. UNCHANGED <<kind, phase, sm, ext, listed, calls, results, unlisted, orphan>>
    BY <1>11 DEF CloudChanges
  <2>2. /\ \A u \in Types : /\ cloud[u] = "none" => cloud'[u] = "none"
                            /\ Doomed(u) => Doomed(u)'
                            /\ cloud'[u] = "attached" => cloud[u] = "attached"
        /\ cloud'["fip"] = "attached" => (cloud'["instance"] = "none" => cloud["instance"] = "none")
    BY <1>11 DEF CloudChanges, TypeOK
  <2>3. PartsInv'
    BY <2>1, <2>2 DEF PartsInv
  <2>4. DeleteInv'
    BY <2>1, <2>2 DEF DeleteInv
  <2> QED BY <2>3, <2>4
<1>12. CASE RefreshLists
  <2>1. PartsInv'
    BY <1>12 DEF RefreshLists, PartsInv
  <2>2. DeleteInv'
    BY <1>12 DEF RefreshLists, DeleteInv
  <2> QED BY <2>1, <2>2
<1>13. CASE Crash
  <2>1. /\ ~orphan /\ calls = {} /\ results = {} /\ ext = zext
        /\ calls' = {} /\ results' = {} /\ ext' = ext /\ listed' = cloud
        /\ UNCHANGED <<kind, cloud, unlisted>>
        /\ phase' \in {"ready", "idle", "gone"} /\ (phase' = "gone" => phase = "gone")
    BY <1>13 DEF Crash
  <2>2. PartsInv'
    BY <2>1 DEF PartsInv
  <2>3. DeleteInv'
    BY <2>1 DEF DeleteInv
  <2> QED BY <2>2, <2>3
<1>14. CASE UNCHANGED vars
  BY <1>14 DEF vars, PartsInv, DeleteInv
<1> QED
  BY <1>c, <1>1, <1>2, <1>3, <1>4, <1>5, <1>6, <1>7, <1>8, <1>9, <1>10, <1>11, <1>12, <1>13,
     <1>14 DEF Next

(* There is nothing to delete at first. *)
LEMMA PartsInit == Init => PartsInv /\ DeleteInv
BY DEF Init, PartsInv, DeleteInv, Doomed, Types

(* When the record of a node goes, what its id names is on its way out,    *)
(* whatever order of lists, calls and crashes the deletion has met.        *)
THEOREM InstanceRecordLast == Spec => []RecordOutlivesResources
<1>1. DeleteInv => RecordOutlivesResources
  BY DEF DeleteInv, RecordOutlivesResources, Off, Doomed
<1> QED BY <1>1, PartsInit, BuildInit, BuildStep, DeleteStep, PTL DEF Spec

(* What an upload has made at AWS or OpenStack by the step of its thread.  *)
UploadInv ==
    /\ step # Nobody => record = "uploading"
    /\ way \notin {"azure", "ibmvpc"} =>
          /\ step = "hook" \/ record = "ready" => upCloud["image"] = "ready"
          /\ way = "aws-image" =>
                /\ step \in {"tag image", "tag snapshot"} => upCloud["image"] = "ready"
                /\ step = "wait" /\ upCloud["task"] = "ready" => upCloud["image"] = "ready"

(* Faults and crashes are counted. *)
LEMMA UploadFaults ==
    ASSUME upFaults \in 0..MaxFaults, upCrashes \in 0..MaxCrashes
    PROVE  /\ U!Faulty => upFaults' \in 0..MaxFaults /\ upCrashes' = upCrashes
           /\ upCrashes < MaxCrashes /\ upCrashes' = upCrashes + 1 => upCrashes' \in 0..MaxCrashes
BY BoundsAssumption DEF U!Faulty

(* A deletion takes away what it names and no more. *)
LEMMA UploadRemoves ==
    ASSUME U!TypeOK, NEW T, U!Remove(T)
    PROVE  /\ upCloud' \in [U!Types -> {"none", "pending", "ready", "failed"}]
           /\ tagged' \in SUBSET {t \in U!Types : upCloud'[t] # "none"}
           /\ \A t \in U!Types \ T : upCloud'[t] = upCloud[t]
BY DEF U!TypeOK, U!Remove, U!Exists, U!Types

(* What a step makes is there and tagged. *)
LEMMA UploadPuts ==
    ASSUME U!TypeOK, NEW t \in U!Types, NEW s \in {"pending", "ready", "failed"}, U!Put(t, s)
    PROVE  /\ upCloud' \in [U!Types -> {"none", "pending", "ready", "failed"}]
           /\ tagged' \in SUBSET {u \in U!Types : upCloud'[u] # "none"}
           /\ upCloud'[t] = s /\ \A u \in U!Types \ {t} : upCloud'[u] = upCloud[u]
BY DEF U!TypeOK, U!Put, U!Exists, U!Types

(* Uploads keep their types: nothing is tagged that is not there. *)
LEMMA UploadTypes ==
    ASSUME U!TypeOK, [U!Next]_uvars
    PROVE  U!TypeOK'
<1> DEFINE Clouds == [U!Types -> {"none", "pending", "ready", "failed"}]
           Threads == {Nobody, "start", "import", "wait", "clean", "tag image", "tag snapshot",
                       "segments", "register", "hook", "failed"}
           There == tagged' \in SUBSET {t \in U!Types : upCloud'[t] # "none"}
<1>u. /\ upFaults \in 0..MaxFaults /\ upCrashes \in 0..MaxCrashes
      /\ upCloud \in Clouds /\ tagged \in SUBSET {t \in U!Types : upCloud[t] # "none"}
  BY DEF U!TypeOK, U!Exists
<1>1. CASE U!UploadStep
  <2>1. step' \in Threads
    BY <1>1 DEF U!UploadStep, U!AwsImport, U!AwsEbs, U!AzureUpload, U!IbmUpload, U!OpenStackUpload,
                U!StepRaises, U!UploadEnds, U!Then, U!MayTag
  <2>2. upCloud' \in Clouds /\ There
    BY <1>1, <1>u, UploadRemoves, UploadPuts
       DEF U!UploadStep, U!AwsImport, U!AwsEbs, U!AzureUpload, U!IbmUpload, U!OpenStackUpload,
           U!StepRaises, U!UploadEnds, U!MayTag, U!Tag, U!Types, U!Exists
  <2>3. record' \in {record, "ready", "failed"} /\ upExt' \in {upExt, TRUE}
    BY <1>1 DEF U!UploadStep, U!AwsImport, U!AwsEbs, U!AzureUpload, U!IbmUpload, U!OpenStackUpload,
                U!StepRaises, U!UploadEnds, U!Then, U!MayTag, U!zk
  <2>4. UNCHANGED <<way, upListed, upPossibly, notOurs, upUnlisted>>
    BY <1>1 DEF U!UploadStep, U!AwsImport, U!AwsEbs, U!AzureUpload, U!IbmUpload, U!OpenStackUpload,
                U!StepRaises, U!UploadEnds, U!Then, U!MayTag, U!seen
  <2>5. U!Faulty \/ UNCHANGED <<upFaults, upCrashes>>
    BY <1>1 DEF U!UploadStep, U!AwsImport, U!AwsEbs, U!AzureUpload, U!IbmUpload, U!OpenStackUpload,
                U!StepRaises, U!UploadEnds, U!Then, U!MayTag
  <2>6. upFaults' \in 0..MaxFaults /\ upCrashes' \in 0..MaxCrashes
    BY <1>u, <2>5, UploadFaults
  <2> QED BY <2>1, <2>2, <2>3, <2>4, <2>6 DEF U!TypeOK, U!Exists
<1>2. CASE U!CleanupStep \/ U!BuilderCrash
  <2>1. /\ step' \in {step, Nobody} /\ record' \in {record, "deleting", "gone"}
        /\ upExt' \in {upExt, FALSE}
        /\ UNCHANGED <<way, upListed, upPossibly, notOurs>>
    BY <1>2 DEF U!CleanupStep, U!DeleteUpload, U!UploadDeleted, U!DeleteImageRaises,
                U!BuilderCrash, U!zk, U!seen
  <2>2. upCloud' \in Clouds /\ There
    BY <1>2, <1>u, UploadRemoves
       DEF U!CleanupStep, U!DeleteUpload, U!UploadDeleted, U!DeleteImageRaises, U!BuilderCrash
  <2>3. upUnlisted' \in BOOLEAN
    <3>1. \/ upUnlisted' = upUnlisted
          \/ upUnlisted' = (upExt /\ U!Exists("image") /\ U!ImageParts = {})
      BY <1>2 DEF U!CleanupStep, U!DeleteUpload, U!UploadDeleted, U!DeleteImageRaises,
                  U!BuilderCrash, U!seen
    <3>2. upUnlisted \in BOOLEAN
      BY DEF U!TypeOK
    <3> QED BY <3>1, <3>2
  <2>4. \/ U!Faulty \/ UNCHANGED <<upFaults, upCrashes>>
        \/ upCrashes < MaxCrashes /\ upCrashes' = upCrashes + 1 /\ UNCHANGED upFaults
    BY <1>2 DEF U!CleanupStep, U!DeleteUpload, U!UploadDeleted, U!DeleteImageRaises, U!BuilderCrash
  <2>5. upFaults' \in 0..MaxFaults /\ upCrashes' \in 0..MaxCrashes
    BY <1>u, <2>4, UploadFaults
  <2> QED BY <2>1, <2>2, <2>3, <2>5 DEF U!TypeOK, U!Exists
<1>3. CASE U!CleanupLeaked
  <2> DEFINE lost == ~U!Known /\ U!Listed # {}
             new == IF way \in U!Aws THEN U!Imported ELSE {}
             taken == IF lost /\ upPossibly THEN U!Listed ELSE {}
             left == IF "image" \notin taken /\ U!Exists("image")
                     THEN taken \ {"snapshot"} ELSE taken
  <2>1. /\ upCloud' = [t \in U!Types |-> IF t \in left THEN "none" ELSE upCloud[t]]
        /\ \/ tagged' = tagged \ left
           \/ tagged' = (tagged \cup {t \in new : U!Exists(t)}) \ left
        /\ upPossibly' = lost /\ notOurs' \in {notOurs, notOurs \cup new}
        /\ UNCHANGED <<way, record, upExt, step, upListed, upUnlisted, upFaults, upCrashes>>
    BY <1>3 DEF U!CleanupLeaked, U!zk
  <2>0. new \in SUBSET {"image", "snapshot"}
    BY DEF U!Imported
  <2> HIDE DEF lost, new, left
  <2>2. upCloud' \in Clouds /\ There
    BY <1>u, <2>0, <2>1 DEF U!Exists, U!Types
  <2>3. upPossibly' \in BOOLEAN
    BY <2>1 DEF lost
  <2>4. notOurs' \in SUBSET {"image", "snapshot"}
    BY <2>0, <2>1 DEF U!TypeOK
  <2> QED BY <2>1, <2>2, <2>3, <2>4 DEF U!TypeOK, U!Exists
<1>4. CASE U!RefreshLists
  <2>1. upListed' \in [all: SUBSET U!Types, tagged: SUBSET U!Types]
    BY <1>4, <1>u DEF U!RefreshLists, U!View
  <2> QED BY <1>4, <2>1 DEF U!RefreshLists, U!TypeOK, U!Exists, U!zk
<1>5. CASE U!LauncherRestart
  <2>1. upCrashes' \in 0..MaxCrashes
    BY <1>5, <1>u, UploadFaults DEF U!LauncherRestart
  <2> QED BY <1>5, <2>1 DEF U!LauncherRestart, U!TypeOK, U!Exists, U!zk
<1>6. CASE U!ImportEnds \/ U!TaskExpires
  <2>1. upCloud' \in Clouds /\ There
    <3>1. CASE U!TaskExpires
      BY <3>1, UploadRemoves DEF U!TaskExpires
    <3>2. CASE U!ImportEnds
      <4>1. upCloud' \in Clouds /\ tagged' = tagged
        BY <3>2, <1>u DEF U!ImportEnds, U!Types
      <4>2. \A t \in U!Types : upCloud[t] # "none" => upCloud'[t] # "none"
        BY <3>2, <1>u DEF U!ImportEnds, U!Types
      <4> QED BY <1>u, <4>1, <4>2
    <3> QED BY <1>6, <3>1, <3>2
  <2>2. UNCHANGED <<way, record, upExt, step, upListed, upPossibly, notOurs, upUnlisted, upFaults,
                    upCrashes>>
    BY <1>6 DEF U!ImportEnds, U!TaskExpires, U!zk, U!seen
  <2> QED BY <2>1, <2>2 DEF U!TypeOK, U!Exists
<1>7. CASE UNCHANGED uvars
  BY <1>7 DEF uvars, U!TypeOK, U!Exists
<1> QED BY <1>1, <1>2, <1>3, <1>4, <1>5, <1>6, <1>7 DEF U!Next

(* Only an image that was made is recorded, and a known one is no leak. *)
LEMMA UploadStep ==
    ASSUME U!TypeOK, UploadInv, [U!Next]_uvars
    PROVE  UploadInv'
<1> USE DEF U!Types
<1>1. CASE U!AwsImport
  <2>1. UNCHANGED <<way, record>> /\ step # Nobody
    BY <1>1, NobodyAssumption DEF U!AwsImport, U!At, U!Then, U!MayTag, U!zk
  <2>2. record = "uploading" /\ way \notin {"azure", "ibmvpc"}
    BY <1>1, <2>1 DEF UploadInv, U!AwsImport, U!At, U!Aws
  <2>3. CASE step \in {"start", "import"}
    <3>1. step' \in {"import", "wait"} /\ (step' = "wait" => upCloud'["task"] = "pending")
      BY <1>1, <2>3, UploadPuts DEF U!AwsImport, U!At, U!Then
    <3> QED BY <2>1, <2>2, <3>1 DEF UploadInv
  <2>4. CASE step = "wait"
    <3>1. /\ upCloud["task"] \in {"ready", "failed"} /\ U!Remove({"object"})
          /\ step' = IF upCloud["task"] = "failed" THEN "failed"
                     ELSE IF way = "aws-image" THEN "tag image" ELSE "tag snapshot"
      BY <1>1, <2>4 DEF U!AwsImport, U!At, U!Then
    <3>2. upCloud'["image"] = upCloud["image"]
      BY <3>1 DEF U!Remove
    <3> QED BY <2>1, <2>2, <2>4, <3>1, <3>2 DEF UploadInv
  <2>5. CASE step \in {"tag image", "tag snapshot"}
    <3>1. /\ UNCHANGED upCloud
          /\ step' \in {"tag snapshot", "hook", "register"} /\ (step' = "hook" => way = "aws-image")
      BY <1>1, <2>5 DEF U!AwsImport, U!At, U!Then, U!MayTag, U!Tag
    <3> QED BY <2>1, <2>2, <2>5, <3>1 DEF UploadInv
  <2>6. CASE step = "register"
    <3>1. upCloud'["image"] = "ready"
      BY <1>1, <2>6, UploadPuts DEF U!AwsImport, U!At
    <3> QED BY <2>1, <2>2, <3>1 DEF UploadInv
  <2> QED BY <1>1, <2>3, <2>4, <2>5, <2>6 DEF U!AwsImport, U!At
<1>2. CASE U!AwsEbs \/ U!AzureUpload \/ U!IbmUpload \/ U!OpenStackUpload
  <2>1. UNCHANGED <<way, record>> /\ step # Nobody
    BY <1>2, NobodyAssumption DEF U!AwsEbs, U!AzureUpload, U!IbmUpload, U!OpenStackUpload, U!At,
                                  U!Then, U!zk
  <2>2. way \notin {"azure", "ibmvpc"} =>
           /\ way # "aws-image" /\ (step' = "hook" => upCloud'["image"] = "ready")
    BY <1>2, UploadPuts DEF U!AwsEbs, U!AzureUpload, U!IbmUpload, U!OpenStackUpload, U!At, U!Then
  <2>3. record = "uploading"
    BY <2>1 DEF UploadInv
  <2> QED BY <2>1, <2>2, <2>3 DEF UploadInv
<1>3. CASE U!StepRaises
  <2>1. UNCHANGED <<way, record>> /\ step # Nobody
    BY <1>3 DEF U!StepRaises, U!zk
  <2>2. way # "azure" => step' = "failed"
    BY <1>3 DEF U!StepRaises
  <2>3. record = "uploading"
    BY <2>1 DEF UploadInv
  <2> QED BY <2>1, <2>2, <2>3 DEF UploadInv
<1>4. CASE U!UploadEnds
  <2>1. /\ step' = Nobody /\ UNCHANGED <<way, upCloud>>
        /\ record' = "failed" \/ (record' = "ready" /\ step = "hook")
    BY <1>4 DEF U!UploadEnds
  <2> QED BY <2>1, NobodyAssumption DEF UploadInv
<1>5. CASE U!CleanupStep \/ U!BuilderCrash
  <2>1. /\ UNCHANGED way /\ step' \in {step, Nobody}
        /\ \/ record' \in {"deleting", "gone"} /\ (record # "uploading" \/ step = Nobody)
           \/ UNCHANGED <<record, upCloud>>
    BY <1>5 DEF U!CleanupStep, U!DeleteUpload, U!UploadDeleted, U!DeleteImageRaises, U!BuilderCrash,
                U!zk
  <2>2. step = Nobody \/ record = "uploading"
    BY DEF UploadInv
  <2>3. CASE UNCHANGED <<record, upCloud>>
    BY <2>1, <2>2, <2>3, NobodyAssumption DEF UploadInv
  <2>4. CASE record' \in {"deleting", "gone"}
    <3>1. step = Nobody
      BY <2>1, <2>2, <2>4
    <3>2. step' = Nobody
      BY <2>1, <3>1
    <3>3. step' \notin {"hook", "wait", "tag image", "tag snapshot"}
      BY <3>2, NobodyAssumption
    <3> QED BY <2>4, <3>2, <3>3 DEF UploadInv
  <2> QED BY <2>1, <2>3, <2>4
<1>6. CASE U!CleanupLeaked
  <2>1. UNCHANGED <<way, record, step>>
    BY <1>6 DEF U!CleanupLeaked, U!zk
  <2>2. CASE record = "gone" \/ way \in {"azure", "ibmvpc"}
    BY <2>1, <2>2, NobodyAssumption DEF UploadInv
  <2>3. CASE record # "gone" /\ way \notin {"azure", "ibmvpc"}
    <3>1. UNCHANGED upCloud
      BY <1>6, <2>3 DEF U!CleanupLeaked, U!Known, U!TypeOK
    <3> QED BY <2>1, <3>1 DEF UploadInv
  <2> QED BY <2>2, <2>3
<1>7. CASE U!RefreshLists \/ U!LauncherRestart
  BY <1>7 DEF U!RefreshLists, U!LauncherRestart, U!zk, UploadInv
<1>8. CASE U!ImportEnds
  <2>1. UNCHANGED <<way, record, step>>
    BY <1>8 DEF U!ImportEnds, U!zk
  <2>2. way # "ibmvpc" =>
           /\ upCloud["image"] = "ready" => upCloud'["image"] = "ready"
           /\ way = "aws-image" /\ upCloud'["task"] = "ready" => upCloud'["image"] = "ready"
    BY <1>8 DEF U!ImportEnds, U!TypeOK
  <2> QED BY <2>1, <2>2 DEF UploadInv
<1>9. CASE U!TaskExpires
  <2>1. UNCHANGED <<way, record, step>> /\ step # "wait" /\ upCloud'["image"] = upCloud["image"]
    BY <1>9, UploadRemoves DEF U!TaskExpires, U!zk
  <2> QED BY <2>1 DEF UploadInv
<1>10. CASE UNCHANGED uvars
  BY <1>10 DEF uvars, UploadInv
<1> QED
  BY <1>1, <1>2, <1>3, <1>4, <1>5, <1>6, <1>7, <1>8, <1>9, <1>10 DEF U!Next, U!UploadStep

(* An upload begins with nothing. *)
LEMMA UploadBegins == U!Init => U!TypeOK /\ UploadInv
<1> SUFFICES ASSUME U!Init PROVE U!TypeOK /\ UploadInv
  OBVIOUS
<1> USE DEF U!Init
<1>1. upFaults \in 0..MaxFaults /\ upCrashes \in 0..MaxCrashes
  BY BoundsAssumption
<1>2. U!TypeOK
  BY <1>1 DEF U!TypeOK, U!Types
<1>3. UploadInv
  BY DEF UploadInv
<1> QED BY <1>2, <1>3

(* A READY upload of AWS or OpenStack has its image: the thread comes to  *)
(* its hook only with an image, and no cleanup takes it while the record   *)
(* is there.                                                               *)
THEOREM UploadWhole == U!Spec => []U!ReadyUploadHasImage
<1>1. [U!Next]_(U!vars) => [U!Next]_uvars
  BY DEF U!vars, uvars
<1>2. UploadInv => U!ReadyUploadHasImage
  BY DEF UploadInv, U!ReadyUploadHasImage
<1> QED BY <1>1, <1>2, UploadBegins, UploadTypes, UploadStep, PTL DEF U!Spec

(* A record goes by UploadDeleted only. *)
LEMMA ImageGoesFirst ==
    ASSUME U!TypeOK, [U!Next]_uvars
    PROVE  [record = "deleting" /\ upExt /\ record' = "gone"
               => upCloud'["image"] = "none" \/ upUnlisted']_uvars
<1> SUFFICES ASSUME U!Next, record = "deleting", upExt, record' = "gone"
             PROVE  upCloud'["image"] = "none" \/ upUnlisted'
  OBVIOUS
<1>1. U!UploadDeleted
  BY DEF U!Next, U!UploadStep, U!AwsImport, U!AwsEbs, U!AzureUpload, U!IbmUpload,
         U!OpenStackUpload, U!StepRaises, U!UploadEnds, U!Then, U!MayTag, U!CleanupStep,
         U!DeleteUpload, U!DeleteImageRaises, U!BuilderCrash, U!CleanupLeaked,
         U!RefreshLists, U!LauncherRestart, U!ImportEnds, U!TaskExpires, U!zk
<1>2. /\ U!Remove(U!ImageParts)
      /\ upUnlisted' = (upExt /\ U!Exists("image") /\ U!ImageParts = {})
  BY <1>1 DEF U!UploadDeleted
<1>3. U!ImageParts = {} \/ "image" \in U!ImageParts
  BY DEF U!ImageParts
<1>4. "image" \in U!ImageParts => upCloud'["image"] = "none"
  BY <1>2 DEF U!Remove, U!Types
<1>5. U!ImageParts = {} /\ ~U!Exists("image") => upCloud'["image"] = "none"
  BY <1>2 DEF U!Remove, U!Exists, U!Types
<1> QED BY <1>2, <1>3, <1>4, <1>5

-----------------------------------------------------------------------------
(* Scans of host keys.                                                      *)
Distinct(s) == \A i, j \in 1 .. Len(s) : s[i] = s[j] => i = j

\* t is s without its element at k, if it has one there
Shorter(t, s, k) ==
    /\ k \in 1 .. Len(s) + 1
    /\ Len(t) = IF k <= Len(s) THEN Len(s) - 1 ELSE Len(s)
    /\ \A i \in 1 .. Len(t) : t[i] = IF i < k THEN s[i] ELSE s[i + 1]

(* What remove() does to a list that has an element once or not at all.     *)
LEMMA RemovedOnce ==
    ASSUME NEW T, NEW s \in Seq(T), Distinct(s), NEW e
    PROVE  /\ S!RemoveFirst(s, e) \in Seq(T)
           /\ \E k \in 1 .. Len(s) + 1 :
                  /\ Shorter(S!RemoveFirst(s, e), s, k)
                  /\ k <= Len(s) => s[k] = e
                  /\ k > Len(s) => \A i \in 1 .. Len(s) : s[i] # e
<1> DEFINE t == S!RemoveFirst(s, e)
<1>1. Len(s) \in Nat /\ \A i \in 1 .. Len(s) : s[i] \in T
  BY LenProperties, ElementOfSeq
<1>2. CASE \A i \in 1 .. Len(s) : s[i] # e
  <2>1. t = s
    BY <1>2 DEF S!RemoveFirst
  <2>2. Shorter(t, s, Len(s) + 1)
    BY <1>1, <2>1 DEF Shorter
  <2>3. QED
    BY <1>1, <1>2, <2>1, <2>2
<1>3. ASSUME NEW k \in 1 .. Len(s), s[k] = e
      PROVE  t \in Seq(T) /\ Shorter(t, s, k)
  <2>1. {i \in 1 .. Len(s) : s[i] = e} = {k}
    BY <1>3 DEF Distinct
  <2>2. S!Min({k}) = k
    BY <1>1 DEF S!Min
  <2>3. t = S!RemoveAt(s, k)
    BY <1>3, <2>1, <2>2 DEF S!RemoveFirst, S!SelectInSeq
  <2> DEFINE s1 == SubSeq(s, 1, k - 1)
             s2 == SubSeq(s, k + 1, Len(s))
  <2>4. t = s1 \o s2
    BY <2>3 DEF S!RemoveAt
  <2>5. /\ s1 \in Seq(T) /\ Len(s1) = k - 1
        /\ \A i \in 1 .. k - 1 : s1[i] = s[i]
    BY <1>1, <1>3, SubSeqProperties
  <2>6. /\ s2 \in Seq(T) /\ Len(s2) = Len(s) - k
        /\ \A i \in 1 .. Len(s) - k : s2[i] = s[k + i]
    BY <1>1, <1>3, SubSeqProperties
  <2> HIDE DEF s1, s2, t
  <2>7. /\ t \in Seq(T) /\ Len(t) = Len(s1) + Len(s2)
        /\ \A i \in 1 .. Len(s1) + Len(s2) : t[i] = IF i <= Len(s1) THEN s1[i] ELSE s2[i - Len(s1)]
    BY <2>4, <2>5, <2>6, ConcatProperties
  <2>8. Len(t) = Len(s) - 1
    BY <1>1, <2>5, <2>6, <2>7
  <2>9. ASSUME NEW i \in 1 .. Len(t) PROVE t[i] = IF i < k THEN s[i] ELSE s[i + 1]
    <3>1. CASE i < k
      BY <1>1, <1>3, <2>5, <2>6, <2>7, <3>1
    <3>2. CASE i >= k
      <4>1. PICK j \in 1 .. Len(s) - k : j = i - Len(s1)
        BY <1>1, <2>5, <2>8, <3>2
      <4>2. t[i] = s2[j]
        <5>1. i \in 1 .. Len(s1) + Len(s2) /\ ~(i <= Len(s1))
          BY <1>1, <2>5, <2>7, <3>2
        <5>2. QED
          BY <2>7, <4>1, <5>1
      <4>3. s2[j] = s[k + j] /\ k + j = i + 1
        BY <1>1, <2>5, <2>6, <4>1
      <4>4. ~(i < k)
        BY <1>1, <3>2
      <4>5. QED
        BY <4>2, <4>3, <4>4
    <3>3. QED
      BY <1>1, <3>1, <3>2
  <2>10. k \in 1 .. Len(s) + 1 /\ k <= Len(s)
    BY <1>1
  <2>11. QED
    BY <2>7, <2>8, <2>9, <2>10 DEF Shorter
<1>4. QED
  BY <1>1, <1>2, <1>3

ScanTypes ==
    [state : S!States, check : BOOLEAN, gather : BOOLEAN,
     sock : {"none", "pending", "open", "refused"}, armed : BOOLEAN,
     event : {"none", "running", "ok", "error"}, key : 0 .. KeyTypes,
     late : BOOLEAN, error : BOOLEAN, complete : BOOLEAN]

Answered == {"open", "refused"}

\* A socket that is polled is open, who negotiates has a transport, and
\* what is over was submitted
Sound ==
    {q \in ScanTypes : /\ q.armed => q.sock # "none"
                       /\ q.complete => q.state # "new"
                       /\ q.state \in {"negotiating", "negotiating key"} => q.event # "none"}

\* It was submitted, and is not over
Going(q) == q.state \notin {"new", "removed"} /\ ~q.complete

(* What a scan is after what advance() does to it                          *)
LEMMA ScanClosed ==
    ASSUME NEW q \in ScanTypes
    PROVE  /\ S!_Close(q) \in ScanTypes /\ ~S!_Close(q).armed
           /\ S!_Close(q).state = q.state /\ S!_Close(q).key = q.key
  BY DEF S!_Close, ScanTypes

LEMMA ScanOver ==
    ASSUME NEW q \in ScanTypes
    PROVE  /\ S!Fail(q) \in Sound /\ S!Fail(q).state = "complete"
           /\ S!Complete(q) \in Sound /\ S!Complete(q).state = "complete"
           /\ S!Start(q) \in Sound /\ S!Start(q).state = "start"
<1>1. S!_Close(q) \in ScanTypes /\ ~S!_Close(q).armed
  BY ScanClosed
<1> DEFINE c == S!_Close(q)
<1>2. S!Fail(q) = [c EXCEPT !.state = "complete", !.complete = TRUE, !.error = TRUE]
  BY DEF S!Fail
<1>3. S!Complete(q) = [c EXCEPT !.state = "complete", !.complete = TRUE]
  BY DEF S!Complete
<1>4. S!Start(q) = [c EXCEPT !.state = "start"]
  BY DEF S!Start
<1> HIDE DEF c
<1>5. c \in ScanTypes /\ ~c.armed
  BY <1>1 DEF c
<1>6. S!Fail(q) \in Sound /\ S!Fail(q).state = "complete"
  BY <1>2, <1>5 DEF ScanTypes, Sound, S!States
<1>7. S!Complete(q) \in Sound /\ S!Complete(q).state = "complete"
  BY <1>3, <1>5 DEF ScanTypes, Sound, S!States
<1>8. S!Start(q) \in Sound /\ S!Start(q).state = "start"
  BY <1>4, <1>5 DEF ScanTypes, Sound, S!States
<1>9. QED
  BY <1>6, <1>7, <1>8

LEMMA ScanConnects ==
    ASSUME NEW q \in ScanTypes, NEW st \in {"connecting", "connecting key"}
    PROVE  S!_Connect(q, st) \in Sound /\ S!_Connect(q, st).state = st
  BY DEF S!_Connect, ScanTypes, Sound, S!States

LEMMA ScanNegotiates ==
    ASSUME NEW q \in Sound, NEW st \in {"negotiating", "negotiating key"}
    PROVE  S!_Start(q, st) \in Sound /\ S!_Start(q, st).state = st
  BY DEF S!_Start, ScanTypes, Sound, S!States

LEMMA ScanTimed ==
    ASSUME NEW q \in Sound
    PROVE  S!_CheckTimeout(q) \in Sound /\ S!_CheckTimeout(q).state \in {q.state, "complete"}
  BY ScanOver DEF S!_CheckTimeout, Sound

LEMMA ScanTriesKey ==
    ASSUME NEW q \in ScanTypes, NEW k \in S!_NextKey(q)
    PROVE  k \in Sound /\ k.state \in {"connecting key", "complete"}
<1> DEFINE c == [S!_Close(q) EXCEPT !.key = @ + 1]
           e == [S!_Close(q) EXCEPT !.state = "complete"]
<1>1. CASE q.key < KeyTypes
  <2>1. c \in ScanTypes
    BY <1>1, ScanClosed, ScansAssumption DEF ScanTypes
  <2>2. k = S!_Connect(c, "connecting key") \/ k = S!Fail(q)
    BY <1>1 DEF S!_NextKey
  <2> HIDE DEF c
  <2>3. QED
    BY <2>1, <2>2, ScanConnects, ScanOver
<1>2. CASE ~(q.key < KeyTypes)
  <2>1. k = e
    BY <1>2 DEF S!_NextKey
  <2>2. e \in Sound /\ e.state = "complete"
    BY ScanClosed DEF ScanTypes, Sound, S!States
  <2>3. QED
    BY <2>1, <2>2
<1>3. QED
  BY <1>1, <1>2

LEMMA ScanAdvances ==
    ASSUME NEW q \in Sound, Going(q), NEW isReady \in BOOLEAN,
           isReady => q.sock \in Answered, NEW k \in S!Advanced(q, isReady)
    PROVE  k \in Sound /\ k.state \notin {"new", "removed"}
<1>1. q \in ScanTypes /\ q.state \in S!States \ {"new", "removed"}
  BY DEF Going, Sound, ScanTypes
<1> USE ScanOver, ScanTimed
<1>2. CASE q.state = "start"
  <2>1. k \in S!AdvanceStart(q)
    BY <1>2 DEF S!Advanced
  <2>2. k \in {S!Complete(q), S!Fail(q), S!_CheckTimeout(S!_Connect(q, "connecting"))}
    BY <2>1 DEF S!AdvanceStart
  <2>3. QED
    BY <1>1, <2>2, ScanConnects
<1>3. CASE q.state = "connecting"
  <2>1. k \in S!AdvanceConnecting(q, isReady)
    BY <1>3 DEF S!Advanced
  <2>2. k \in {S!_CheckTimeout(q), S!Start(q), S!_CheckTimeout(S!Start(q)),
                S!_CheckTimeout(S!_Start(q, "negotiating")), S!Complete(q)}
    <3>1. CASE ~isReady
      BY <2>1, <3>1 DEF S!AdvanceConnecting
    <3>2. CASE isReady /\ q.sock = "refused"
      BY <2>1, <3>2 DEF S!AdvanceConnecting
    <3>3. CASE isReady /\ q.sock = "open"
      BY <2>1, <3>3 DEF S!AdvanceConnecting
    <3>4. QED
      BY <3>1, <3>2, <3>3 DEF Answered
  <2>3. /\ S!_Start(q, "negotiating") \in Sound /\ S!Start(q) \in Sound
        /\ S!_Start(q, "negotiating").state = "negotiating" /\ S!Start(q).state = "start"
    BY <1>1, ScanNegotiates
  <2>4. CASE k \in {S!_CheckTimeout(q), S!Start(q), S!Complete(q)}
    BY <1>1, <1>3, <2>3, <2>4
  <2>5. CASE k \in {S!_CheckTimeout(S!Start(q)), S!_CheckTimeout(S!_Start(q, "negotiating"))}
    BY <2>3, <2>5
  <2>6. QED
    BY <2>2, <2>4, <2>5
<1>4. CASE q.state = "negotiating"
  <2>1. k \in S!AdvanceNegotiating(q) /\ q.event \in {"running", "ok", "error"}
    BY <1>1, <1>4 DEF S!Advanced, Sound, ScanTypes
  <2>2. \/ k \in {S!_CheckTimeout(q), S!Fail(q), S!_Connect(S!_Close(q), "connecting")}
        \/ \E n \in S!_NextKey(q) : k = S!Complete(n) \/ k = S!_CheckTimeout(n)
    <3>1. CASE q.event = "running"
      BY <2>1, <3>1 DEF S!AdvanceNegotiating
    <3>2. CASE q.event = "error"
      BY <2>1, <3>2 DEF S!AdvanceNegotiating
    <3>3. CASE q.event = "ok"
      BY <2>1, <3>3 DEF S!AdvanceNegotiating
    <3>4. QED
      BY <2>1, <3>1, <3>2, <3>3
  <2>3. CASE k \in {S!_CheckTimeout(q), S!Fail(q), S!_Connect(S!_Close(q), "connecting")}
    BY <1>1, <1>4, <2>3, ScanConnects, ScanClosed
  <2>4. CASE \E n \in S!_NextKey(q) : k = S!Complete(n) \/ k = S!_CheckTimeout(n)
    <3>1. PICK n \in S!_NextKey(q) : k = S!Complete(n) \/ k = S!_CheckTimeout(n)
      BY <2>4
    <3>2. n \in Sound /\ n.state \in {"connecting key", "complete"} /\ n \in ScanTypes
      BY <1>1, ScanTriesKey DEF Sound
    <3>3. QED
      BY <3>1, <3>2
  <2>5. QED
    BY <2>2, <2>3, <2>4
<1>5. CASE q.state = "connecting key"
  <2>1. k \in S!AdvanceConnectingKey(q, isReady)
    BY <1>5 DEF S!Advanced
  <2>2. \/ k \in {S!_CheckTimeout(q), S!_CheckTimeout(S!_Start(q, "negotiating key"))}
        \/ k \in S!_NextKey(q)
    <3>1. CASE ~isReady
      BY <2>1, <3>1 DEF S!AdvanceConnectingKey
    <3>2. CASE isReady /\ q.sock = "refused"
      BY <2>1, <3>2 DEF S!AdvanceConnectingKey
    <3>3. CASE isReady /\ q.sock = "open"
      BY <2>1, <3>3 DEF S!AdvanceConnectingKey
    <3>4. QED
      BY <3>1, <3>2, <3>3 DEF Answered
  <2>3. QED
    BY <1>1, <1>5, <2>2, ScanNegotiates, ScanTriesKey
<1>6. CASE q.state = "negotiating key"
  <2>1. k \in S!AdvanceNegotiatingKey(q)
    BY <1>6 DEF S!Advanced
  <2>2. k = S!_CheckTimeout(q) \/ \E n \in S!_NextKey(q) : k \in {n, S!Complete(n)}
    BY <2>1 DEF S!AdvanceNegotiatingKey
  <2>3. CASE k = S!_CheckTimeout(q)
    BY <1>6, <2>3
  <2>4. CASE \E n \in S!_NextKey(q) : k \in {n, S!Complete(n)}
    <3>1. PICK n \in S!_NextKey(q) : k \in {n, S!Complete(n)}
      BY <2>4
    <3>2. n \in Sound /\ n.state \in {"connecting key", "complete"} /\ n \in ScanTypes
      BY <1>1, ScanTriesKey DEF Sound
    <3>3. QED
      BY <3>1, <3>2
  <2>5. QED
    BY <2>2, <2>3, <2>4
<1>7. CASE q.state = "complete"
  <2>1. k \in {S!Fail(q), S!Complete(q)}
    BY <1>7 DEF S!Advanced
  <2>2. QED
    BY <1>1, <2>1
<1>8. QED
  BY <1>1, <1>2, <1>3, <1>4, <1>5, <1>6, <1>7 DEF S!States

-----------------------------------------------------------------------------
\* A request waits in one list at most, once, from when it is submitted
\* until it is over; no more are active than may be
ListsFit ==
    /\ active \in Seq(Scans) /\ pending \in Seq(Scans)
    /\ Distinct(active) /\ Distinct(pending)
    /\ \A i \in 1 .. Len(active), j \in 1 .. Len(pending) : active[i] # pending[j]
    /\ limit \in Nat /\ Len(active) <= limit

ListedGoing ==
    /\ \A i \in 1 .. Len(active) : Going(req[active[i]])
    /\ \A i \in 1 .. Len(pending) : Going(req[pending[i]])

\* What the poll reported of a request that the round has not come to
\* still holds
ReadyFits ==
    /\ ready \subseteq Scans /\ \A r \in ready : req[r].state # "new"
    /\ idx \in 0 .. S!Cardinality(Scans) + 1 /\ (idx = 0 => ready = {})
    /\ \A i \in 1 .. Len(active) :
           i >= idx /\ active[i] \in ready => req[active[i]].sock \in Answered

ScansInv == req \in [Scans -> Sound] /\ ListsFit /\ ListedGoing /\ ReadyFits

LEMMA ScansTyped == ScansInv => S!TypeOK
  BY DEF ScansInv, ListsFit, ReadyFits, Sound, ScanTypes, S!TypeOK

LEMMA ScansCounted == S!Cardinality(Scans) = Cardinality(Scans) /\ S!Cardinality(Scans) \in Nat
<1>1. S!Cardinality(Scans) = Cardinality(Scans)
  BY DEF S!Cardinality, Cardinality
<1>2. QED
  BY <1>1, ScansAssumption, FS_CardinalityType

(* A list without repetitions is not longer than there are requests.       *)
LEMMA ListsShort == ASSUME NEW s \in Seq(Scans), Distinct(s) PROVE Len(s) <= S!Cardinality(Scans)
<1>1. Len(s) \in Nat /\ s \in [1 .. Len(s) -> Scans]
  BY LenProperties
<1>2. s \in Injection(1 .. Len(s), Scans)
  BY <1>1 DEF Distinct, Injection, IsInjective
<1>3. Cardinality(1 .. Len(s)) <= Cardinality(Scans) /\ Cardinality(1 .. Len(s)) = Len(s)
  BY <1>1, <1>2, ScansAssumption, FS_Injection, FS_Interval
<1>4. QED
  BY <1>3, ScansCounted

LEMMA ScansBegin == CloudsInit => ScansInv
<1> SUFFICES ASSUME CloudsInit PROVE ScansInv
  OBVIOUS
<1>1. S!Init
  BY DEF CloudsInit
<1>2. req \in [Scans -> Sound]
  <2>1. \A c, g \in BOOLEAN : S!Fresh(c, g) \in Sound
    <3>1. 0 \in 0 .. KeyTypes
      BY ScansAssumption
    <3>2. QED
      BY <3>1 DEF S!Fresh, Sound, ScanTypes, S!States
  <2>2. QED
    BY <1>1, <2>1 DEF S!Init
<1>3. ListsFit /\ ListedGoing
  BY <1>1, ScansAssumption, EmptySeq DEF S!Init, ListsFit, ListedGoing, Distinct
<1>4. ReadyFits
  BY <1>1, ScansCounted, EmptySeq DEF S!Init, ReadyFits
<1>5. QED
  BY <1>2, <1>3, <1>4 DEF ScansInv

(* What a list from which a request is taken has, it had no further ahead. *)
LEMMA RemovedFits ==
    ASSUME NEW T, NEW s \in Seq(T), Distinct(s), NEW e, NEW t, t = S!RemoveFirst(s, e)
    PROVE  /\ t \in Seq(T) /\ Len(t) \in Nat /\ Len(t) <= Len(s) /\ Distinct(t)
           /\ \A i \in 1 .. Len(t) :
                  \E j \in 1 .. Len(s) : j >= i /\ t[i] = s[j] /\ s[j] # e
<1>1. Len(s) \in Nat
  BY LenProperties
<1>2. PICK k \in 1 .. Len(s) + 1 :
          /\ t \in Seq(T) /\ Shorter(t, s, k)
          /\ k <= Len(s) => s[k] = e
          /\ k > Len(s) => \A i \in 1 .. Len(s) : s[i] # e
  BY RemovedOnce
<1>3. Len(t) \in Nat /\ Len(t) <= Len(s)
  BY <1>1, <1>2, LenProperties DEF Shorter
<1>4. ASSUME NEW i \in 1 .. Len(t), i < k
      PROVE  i \in 1 .. Len(s) /\ t[i] = s[i] /\ s[i] # e
  <2>1. i \in 1 .. Len(s) /\ t[i] = s[i]
    BY <1>1, <1>2, <1>3, <1>4 DEF Shorter
  <2>2. s[i] # e
    <3>1. CASE k <= Len(s)
      BY <1>2, <1>4, <2>1, <3>1 DEF Distinct
    <3>2. CASE k > Len(s)
      BY <1>2, <2>1, <3>2
    <3>3. QED
      BY <1>1, <3>1, <3>2
  <2>3. QED
    BY <2>1, <2>2
<1>5. ASSUME NEW i \in 1 .. Len(t), ~(i < k)
      PROVE  i + 1 \in 1 .. Len(s) /\ t[i] = s[i + 1] /\ s[i + 1] # e
  <2>1. k \in 1 .. Len(s) /\ i + 1 \in 1 .. Len(s) /\ i + 1 # k
    BY <1>1, <1>2, <1>3, <1>5 DEF Shorter
  <2>2. t[i] = s[i + 1]
    BY <1>2, <1>5 DEF Shorter
  <2>3. QED
    BY <1>2, <2>1, <2>2 DEF Distinct
<1>6. \A i \in 1 .. Len(t) : \E j \in 1 .. Len(s) : j >= i /\ t[i] = s[j] /\ s[j] # e
  <2> SUFFICES ASSUME NEW i \in 1 .. Len(t)
               PROVE  \E j \in 1 .. Len(s) : j >= i /\ t[i] = s[j] /\ s[j] # e
    OBVIOUS
  <2>1. i >= i /\ i + 1 >= i
    BY <1>3
  <2>2. QED
    BY <1>4, <1>5, <2>1
<1>7. Distinct(t)
  <2> SUFFICES ASSUME NEW i \in 1 .. Len(t), NEW j \in 1 .. Len(t), t[i] = t[j] PROVE i = j
    BY DEF Distinct
  <2>1. CASE i < k /\ j < k
    BY <1>4, <2>1 DEF Distinct
  <2>2. CASE ~(i < k) /\ ~(j < k)
    BY <1>3, <1>5, <2>2 DEF Distinct
  <2>3. CASE i < k /\ ~(j < k)
    <3>1. i = j + 1
      BY <1>4, <1>5, <2>3 DEF Distinct
    <3>2. QED
      BY <1>2, <1>3, <2>3, <3>1
  <2>4. CASE ~(i < k) /\ j < k
    <3>1. j = i + 1
      BY <1>4, <1>5, <2>4 DEF Distinct
    <3>2. QED
      BY <1>2, <1>3, <2>4, <3>1
  <2>5. QED
    BY <2>1, <2>2, <2>3, <2>4
<1>8. QED
  BY <1>2, <1>3, <1>6, <1>7

(* Nothing is said of a request's position that a request taken out of the *)
(* lists would make wrong: those behind it move up by one.                 *)
LEMMA TakenOut ==
    ASSUME ScansInv, NEW r \in Scans, NEW q \in Sound,
           req' = [req EXCEPT ![r] = q], q.state # "new",
           active' = S!RemoveFirst(active, r),
           \/ pending' = S!RemoveFirst(pending, r)
           \/ pending' = pending /\ \E i \in 1 .. Len(active) : active[i] = r,
           UNCHANGED <<limit, ready>>, idx' \in idx .. S!Cardinality(Scans) + 1
    PROVE  ScansInv'
<1> USE DEF ScansInv, ListsFit
<1>1. /\ active' \in Seq(Scans) /\ Len(active') \in Nat /\ Len(active') <= Len(active)
      /\ Distinct(active')
      /\ \A i \in 1 .. Len(active') :
             \E j \in 1 .. Len(active) : j >= i /\ active'[i] = active[j] /\ active[j] # r
  BY RemovedFits
<1>2. /\ pending' \in Seq(Scans) /\ Distinct(pending')
      /\ \A i \in 1 .. Len(pending') :
             \E j \in 1 .. Len(pending) : pending'[i] = pending[j] /\ pending[j] # r
  <2>1. CASE pending' = S!RemoveFirst(pending, r)
    BY <2>1, RemovedFits
  <2>2. CASE pending' = pending /\ \E i \in 1 .. Len(active) : active[i] = r
    BY <2>2
  <2>3. QED
    BY <2>1, <2>2
<1>3. ListsFit'
  <2>1. Len(active') <= limit
    BY <1>1, LenProperties
  <2>2. \A i \in 1 .. Len(active'), j \in 1 .. Len(pending') : active'[i] # pending'[j]
    BY <1>1, <1>2
  <2>3. QED
    BY <1>1, <1>2, <2>1, <2>2
<1>4. req' \in [Scans -> Sound]
  OBVIOUS
<1>5. ListedGoing'
  <2>1. ASSUME NEW i \in 1 .. Len(active') PROVE Going(req'[active'[i]])
    BY <1>1, <2>1, ElementOfSeq DEF ListedGoing
  <2>2. ASSUME NEW i \in 1 .. Len(pending') PROVE Going(req'[pending'[i]])
    BY <1>2, <2>2, ElementOfSeq DEF ListedGoing
  <2>3. QED
    BY <2>1, <2>2 DEF ListedGoing
<1>6. ReadyFits'
  <2>1. idx \in Nat /\ Len(active) \in Nat /\ S!Cardinality(Scans) \in Nat
    BY LenProperties, ScansCounted DEF ReadyFits
  <2>2. idx' \in 0 .. S!Cardinality(Scans) + 1 /\ (idx' = 0 => ready' = {})
    BY <2>1 DEF ReadyFits
  <2>3. ASSUME NEW i \in 1 .. Len(active'), i >= idx', active'[i] \in ready
        PROVE  req'[active'[i]].sock \in Answered
    <3>1. PICK j \in 1 .. Len(active) : j >= i /\ active'[i] = active[j] /\ active[j] # r
      BY <1>1
    <3>2. j >= idx
      BY <1>1, <2>1, <2>3, <3>1
    <3>3. req[active[j]].sock \in Answered
      BY <2>3, <3>1, <3>2 DEF ReadyFits
    <3>4. req'[active[j]] = req[active[j]]
      BY <3>1, ElementOfSeq
    <3>5. QED
      BY <3>1, <3>3, <3>4
  <2>4. \A o \in ready' : req'[o].state # "new"
    BY DEF ReadyFits
  <2>5. QED
    BY <2>2, <2>3, <2>4 DEF ReadyFits
<1>7. QED
  BY <1>3, <1>4, <1>5, <1>6

(* A step that changes one request, and no list, keeps the invariant       *)
(* unless it says that its socket has no answer any more.                  *)
LEMMA OneChanges ==
    ASSUME ScansInv, NEW r \in Scans, NEW q \in Sound, req' = [req EXCEPT ![r] = q],
           q.state = req[r].state, q.complete = req[r].complete,
           req[r].sock \in Answered => q.sock \in Answered,
           UNCHANGED <<limit, active, pending, ready, idx>>
    PROVE  ScansInv'
<1> USE DEF ScansInv
<1>1. ListsFit' /\ req' \in [Scans -> Sound]
  BY DEF ListsFit, Distinct
<1>2. \A o \in Scans : /\ req'[o].state = req[o].state /\ req'[o].complete = req[o].complete
                       /\ req[o].sock \in Answered => req'[o].sock \in Answered
  OBVIOUS
<1>3. /\ \A i \in 1 .. Len(active) : active[i] \in Scans
      /\ \A i \in 1 .. Len(pending) : pending[i] \in Scans
  BY ElementOfSeq DEF ListsFit
<1>4. ListedGoing'
  BY <1>2, <1>3 DEF ListedGoing, Going
<1>5. ReadyFits'
  BY <1>2, <1>3 DEF ReadyFits
<1>6. QED
  BY <1>1, <1>4, <1>5

\* Append(s, e) repeats nothing either
Appended(s, e) ==
    /\ Append(s, e) \in Seq(Scans) /\ Distinct(Append(s, e)) /\ Len(Append(s, e)) = Len(s) + 1
    /\ \A i \in 1 .. Len(s) + 1 : Append(s, e)[i] = IF i = Len(s) + 1 THEN e ELSE s[i]

LEMMA AppendedOne ==
    ASSUME NEW s \in Seq(Scans), Distinct(s), NEW e \in Scans,
           \A i \in 1 .. Len(s) : s[i] # e
    PROVE  Appended(s, e)
<1>1. /\ Append(s, e) \in Seq(Scans) /\ Len(Append(s, e)) = Len(s) + 1 /\ Len(s) \in Nat
      /\ \A i \in 1 .. Len(s) : Append(s, e)[i] = s[i]
      /\ Append(s, e)[Len(s) + 1] = e
  BY AppendProperties, LenProperties
<1>2. \A i \in 1 .. Len(s) + 1 : i # Len(s) + 1 => i \in 1 .. Len(s)
  BY <1>1
<1>3. Distinct(Append(s, e))
  BY <1>1, <1>2 DEF Distinct
<1>4. QED
  BY <1>1, <1>2, <1>3 DEF Appended

(* A request that is submitted is in no list yet.                          *)
LEMMA Submitted == ASSUME ScansInv, NEW r \in Scans, S!AddRequest(r) PROVE ScansInv'
<1> USE DEF ScansInv
<1> DEFINE q == [req[r] EXCEPT !.state = "start"]
<1>1. /\ req[r].state = "new" /\ req' = [req EXCEPT ![r] = q]
      /\ UNCHANGED <<limit, ready, idx>>
  BY DEF S!AddRequest
<1>2. req[r] \in Sound /\ req[r] \in ScanTypes
  BY DEF Sound
<1>3. q \in Sound /\ q.state = "start" /\ q.complete = req[r].complete /\ q.sock = req[r].sock
  BY <1>2 DEF Sound, ScanTypes, S!States
<1> HIDE DEF q
<1>4. /\ Len(active) \in Nat /\ Len(pending) \in Nat
      /\ \A i \in 1 .. Len(active) : active[i] \in Scans /\ active[i] # r
      /\ \A i \in 1 .. Len(pending) : pending[i] \in Scans /\ pending[i] # r
  BY <1>1, LenProperties, ElementOfSeq DEF ListsFit, ListedGoing, Going
<1>5. r \notin ready /\ req' \in [Scans -> Sound]
  BY <1>1, <1>3 DEF ReadyFits
<1>6. ListsFit'
  <2>1. CASE Len(active) >= limit
    <3>1. pending' = Append(pending, r) /\ active' = active
      BY <2>1 DEF S!AddRequest
    <3>2. Appended(pending, r)
      BY <1>4, AppendedOne DEF ListsFit
    <3>3. QED
      BY <1>1, <1>4, <3>1, <3>2 DEF ListsFit, Appended
  <2>2. CASE ~(Len(active) >= limit)
    <3>1. active' = Append(active, r) /\ pending' = pending
      BY <2>2 DEF S!AddRequest
    <3>2. Appended(active, r)
      BY <1>4, AppendedOne DEF ListsFit
    <3>3. Len(active') <= limit
      BY <1>4, <2>2, <3>1, <3>2 DEF ListsFit, Appended
    <3>4. QED
      BY <1>1, <1>4, <3>1, <3>2, <3>3 DEF ListsFit, Appended
  <2>3. QED
    BY <2>1, <2>2
<1>7. /\ \A i \in 1 .. Len(active') : active'[i] = r \/ (i \in 1 .. Len(active) /\ active'[i] = active[i])
      /\ \A i \in 1 .. Len(pending') : pending'[i] = r \/ (i \in 1 .. Len(pending) /\ pending'[i] = pending[i])
  <2>1. CASE Len(active) >= limit
    <3>1. pending' = Append(pending, r) /\ active' = active
      BY <2>1 DEF S!AddRequest
    <3>2. Appended(pending, r)
      BY <1>4, AppendedOne DEF ListsFit
    <3>3. QED
      BY <1>4, <3>1, <3>2 DEF Appended
  <2>2. CASE ~(Len(active) >= limit)
    <3>1. active' = Append(active, r) /\ pending' = pending
      BY <2>2 DEF S!AddRequest
    <3>2. Appended(active, r)
      BY <1>4, AppendedOne DEF ListsFit
    <3>3. QED
      BY <1>4, <3>1, <3>2 DEF Appended
  <2>3. QED
    BY <2>1, <2>2
<1>8. Going(q) /\ req'[r] = q /\ \A o \in Scans : o # r => req'[o] = req[o]
  BY <1>1, <1>2, <1>3 DEF Going, Sound
<1>9. ListedGoing'
  <2>1. ASSUME NEW i \in 1 .. Len(active') PROVE Going(req'[active'[i]])
    <3>1. CASE active'[i] = r
      BY <1>8, <3>1
    <3>2. CASE i \in 1 .. Len(active) /\ active'[i] = active[i]
      BY <1>4, <1>8, <3>2 DEF ListedGoing
    <3>3. QED
      BY <1>7, <3>1, <3>2
  <2>2. ASSUME NEW i \in 1 .. Len(pending') PROVE Going(req'[pending'[i]])
    <3>1. CASE pending'[i] = r
      BY <1>8, <3>1
    <3>2. CASE i \in 1 .. Len(pending) /\ pending'[i] = pending[i]
      BY <1>4, <1>8, <3>2 DEF ListedGoing
    <3>3. QED
      BY <1>7, <3>1, <3>2
  <2>3. QED
    BY <2>1, <2>2 DEF ListedGoing
<1>10. ReadyFits'
  <2>1. ASSUME NEW i \in 1 .. Len(active'), i >= idx, active'[i] \in ready
        PROVE  req'[active'[i]].sock \in Answered
    <3>1. i \in 1 .. Len(active) /\ active'[i] = active[i] /\ active[i] # r
      BY <1>4, <1>5, <1>7, <2>1
    <3>2. req'[active[i]] = req[active[i]]
      BY <1>4, <1>8, <3>1
    <3>3. QED
      BY <2>1, <3>1, <3>2 DEF ReadyFits
  <2>2. \A o \in ready : req'[o].state # "new"
    BY <1>5, <1>8 DEF ReadyFits
  <2>3. QED
    BY <1>1, <2>1, <2>2 DEF ReadyFits
<1>11. QED
  BY <1>5, <1>6, <1>9, <1>10

\* c and d have what a and b had, each once
SameRequests(a, b, c, d) ==
    /\ c \in Seq(Scans) /\ Distinct(c) /\ d \in Seq(Scans) /\ Distinct(d)
    /\ \A i \in 1 .. Len(c) : \/ \E k \in 1 .. Len(a) : c[i] = a[k]
                              \/ \E k \in 1 .. Len(b) : c[i] = b[k]
    /\ \A i \in 1 .. Len(d) : \E k \in 1 .. Len(b) : d[i] = b[k]
    /\ \A i \in 1 .. Len(c), j \in 1 .. Len(d) : c[i] # d[j]

(* The first n of b move to the end of a.                                  *)
LEMMA Moved ==
    ASSUME NEW a \in Seq(Scans), NEW b \in Seq(Scans), Distinct(a), Distinct(b),
           \A i \in 1 .. Len(a), j \in 1 .. Len(b) : a[i] # b[j],
           NEW n \in 0 .. Len(b)
    PROVE  /\ SameRequests(a, b, a \o SubSeq(b, 1, n), SubSeq(b, n + 1, Len(b)))
           /\ Len(a \o SubSeq(b, 1, n)) = Len(a) + n
<1> DEFINE c == a \o SubSeq(b, 1, n)
           d == SubSeq(b, n + 1, Len(b))
<1> DEFINE h == SubSeq(b, 1, n)
<1>1. /\ Len(a) \in Nat /\ Len(b) \in Nat /\ n \in Nat /\ n <= Len(b)
      /\ \A i \in 1 .. Len(b) : b[i] \in Scans
  BY LenProperties, ElementOfSeq
<1>2. h \in Seq(Scans) /\ Len(h) = n /\ \A i \in 1 .. n : h[i] = b[i]
  BY <1>1, SubSeqProperties
<1>3. d \in Seq(Scans) /\ Len(d) = Len(b) - n /\ \A i \in 1 .. Len(b) - n : d[i] = b[n + i]
  BY <1>1, SubSeqProperties
<1> HIDE DEF h, d
<1>4. /\ c \in Seq(Scans) /\ Len(c) = Len(a) + n
      /\ \A i \in 1 .. Len(a) + n : c[i] = IF i <= Len(a) THEN a[i] ELSE h[i - Len(a)]
  <2>1. c = a \o h
    BY DEF h
  <2>2. QED
    BY <1>2, <2>1, ConcatProperties
<1> HIDE DEF c
<1>5. ASSUME NEW i \in 1 .. Len(c), ~(i <= Len(a))
      PROVE  i - Len(a) \in 1 .. n /\ c[i] = b[i - Len(a)]
  <2>1. i - Len(a) \in 1 .. n
    BY <1>1, <1>4, <1>5
  <2>2. QED
    BY <1>2, <1>4, <1>5, <2>1
<1>6. ASSUME NEW i \in 1 .. Len(c), i <= Len(a)
      PROVE  i \in 1 .. Len(a) /\ c[i] = a[i]
  BY <1>1, <1>4, <1>6
<1>7. ASSUME NEW i \in 1 .. Len(d)
      PROVE  n + i \in 1 .. Len(b) /\ d[i] = b[n + i]
  BY <1>1, <1>3
<1>8. Distinct(c)
  <2> SUFFICES ASSUME NEW i \in 1 .. Len(c), NEW j \in 1 .. Len(c), c[i] = c[j] PROVE i = j
    BY DEF Distinct
  <2>1. CASE i <= Len(a) /\ j <= Len(a)
    BY <1>6, <2>1 DEF Distinct
  <2>2. CASE ~(i <= Len(a)) /\ ~(j <= Len(a))
    <3>1. i - Len(a) \in 1 .. Len(b) /\ j - Len(a) \in 1 .. Len(b)
      BY <1>1, <1>5, <2>2
    <3>2. i - Len(a) = j - Len(a)
      BY <1>5, <2>2, <3>1 DEF Distinct
    <3>3. QED
      BY <1>1, <1>4, <3>2
  <2>3. CASE i <= Len(a) /\ ~(j <= Len(a))
    <3>1. i \in 1 .. Len(a) /\ j - Len(a) \in 1 .. Len(b)
      BY <1>1, <1>5, <1>6, <2>3
    <3>2. QED
      BY <1>5, <1>6, <2>3, <3>1
  <2>4. CASE ~(i <= Len(a)) /\ j <= Len(a)
    <3>1. j \in 1 .. Len(a) /\ i - Len(a) \in 1 .. Len(b)
      BY <1>1, <1>5, <1>6, <2>4
    <3>2. QED
      BY <1>5, <1>6, <2>4, <3>1
  <2>5. QED
    BY <2>1, <2>2, <2>3, <2>4
<1>9. Distinct(d)
  <2> SUFFICES ASSUME NEW i \in 1 .. Len(d), NEW j \in 1 .. Len(d), d[i] = d[j] PROVE i = j
    BY DEF Distinct
  <2>1. n + i = n + j
    BY <1>7 DEF Distinct
  <2>2. QED
    BY <1>1, <1>3, <2>1
<1>10. \A i \in 1 .. Len(c) : \/ \E k \in 1 .. Len(a) : c[i] = a[k]
                              \/ \E k \in 1 .. Len(b) : c[i] = b[k]
  <2> SUFFICES ASSUME NEW i \in 1 .. Len(c)
               PROVE  \/ \E k \in 1 .. Len(a) : c[i] = a[k]
                      \/ \E k \in 1 .. Len(b) : c[i] = b[k]
    OBVIOUS
  <2>1. CASE i <= Len(a)
    BY <1>6, <2>1
  <2>2. CASE ~(i <= Len(a))
    <3>1. i - Len(a) \in 1 .. Len(b)
      BY <1>1, <1>5, <2>2
    <3>2. QED
      BY <1>5, <2>2, <3>1
  <2>3. QED
    BY <2>1, <2>2
<1>11. \A i \in 1 .. Len(c), j \in 1 .. Len(d) : c[i] # d[j]
  <2> SUFFICES ASSUME NEW i \in 1 .. Len(c), NEW j \in 1 .. Len(d), c[i] = d[j] PROVE FALSE
    OBVIOUS
  <2>1. n + j \in 1 .. Len(b) /\ c[i] = b[n + j]
    BY <1>7
  <2>2. CASE i <= Len(a)
    BY <1>6, <2>1, <2>2
  <2>3. CASE ~(i <= Len(a))
    <3>1. i - Len(a) \in 1 .. Len(b) /\ c[i] = b[i - Len(a)]
      BY <1>1, <1>5, <2>3
    <3>2. i - Len(a) = n + j
      BY <2>1, <3>1 DEF Distinct
    <3>3. i - Len(a) <= n /\ j >= 1 /\ j \in Nat
      BY <1>1, <1>3, <1>5, <2>3
    <3>4. QED
      BY <1>1, <3>2, <3>3
  <2>4. QED
    BY <2>2, <2>3
<1>12. SameRequests(a, b, c, d)
  BY <1>3, <1>4, <1>7, <1>8, <1>9, <1>10, <1>11 DEF SameRequests
<1>13. QED
  BY <1>4, <1>12 DEF c, d

(* The poll fills the room among the active requests.                      *)
LEMMA Polled == ASSUME ScansInv, S!Poll PROVE ScansInv'
<1> USE DEF ScansInv
<1>1. /\ Len(active) \in Nat /\ Len(pending) \in Nat /\ limit \in Nat
      /\ \A i \in 1 .. Len(active) : active[i] \in Scans
      /\ \A i \in 1 .. Len(pending) : pending[i] \in Scans
  BY LenProperties, ElementOfSeq DEF ListsFit
<1>2. S!Room \in 0 .. Len(pending) /\ Len(active) + S!Room <= limit
  BY <1>1 DEF S!Room, ListsFit
<1>3. /\ active' = active \o SubSeq(pending, 1, S!Room)
      /\ pending' = SubSeq(pending, S!Room + 1, Len(pending))
      /\ limit' = limit /\ idx' = 1
  BY DEF S!Poll
<1>4. /\ active' \in Seq(Scans) /\ Len(active') = Len(active) + S!Room /\ Distinct(active')
      /\ pending' \in Seq(Scans) /\ Distinct(pending')
      /\ \A i \in 1 .. Len(active') : \/ \E k \in 1 .. Len(active) : active'[i] = active[k]
                                      \/ \E k \in 1 .. Len(pending) : active'[i] = pending[k]
      /\ \A i \in 1 .. Len(pending') : \E k \in 1 .. Len(pending) : pending'[i] = pending[k]
      /\ \A i \in 1 .. Len(active'), j \in 1 .. Len(pending') : active'[i] # pending'[j]
  <2> HIDE DEF ScansInv
  <2>1. /\ active \in Seq(Scans) /\ pending \in Seq(Scans)
        /\ Distinct(active) /\ Distinct(pending)
        /\ \A i \in 1 .. Len(active), j \in 1 .. Len(pending) : active[i] # pending[j]
    BY DEF ScansInv, ListsFit
  <2>2. PICK n \in 0 .. Len(pending) : n = S!Room
    BY <1>2
  <2>3. /\ SameRequests(active, pending, active \o SubSeq(pending, 1, n), SubSeq(pending, n + 1, Len(pending)))
        /\ Len(active \o SubSeq(pending, 1, n)) = Len(active) + n
    BY <2>1, <2>2, Moved
  <2>4. active' = active \o SubSeq(pending, 1, n) /\ pending' = SubSeq(pending, n + 1, Len(pending))
    BY <1>3, <2>2
  <2>5. SameRequests(active, pending, active', pending') /\ Len(active') = Len(active) + n
    BY <2>3, <2>4
  <2>6. QED
    BY <2>2, <2>5 DEF SameRequests
<1>5. ListsFit'
  BY <1>1, <1>2, <1>3, <1>4 DEF ListsFit
<1>6. /\ ready' = {r \in S!ToSet(active') : req[r].armed /\ req[r].sock \in Answered}
      /\ req' = [r \in Scans |-> [req[r] EXCEPT !.armed = @ /\ r \notin ready']]
  BY DEF S!Poll, Answered
<1>7. ASSUME NEW r \in Scans
      PROVE  /\ req'[r] \in Sound /\ req'[r].state = req[r].state
             /\ req'[r].complete = req[r].complete /\ req'[r].sock = req[r].sock
  <2>1. req[r] \in Sound /\ (req[r].armed /\ r \notin ready') \in BOOLEAN
    BY DEF Sound, ScanTypes
  <2>2. req'[r] = [req[r] EXCEPT !.armed = req[r].armed /\ r \notin ready']
    BY <1>6
  <2>3. QED
    BY <2>1, <2>2 DEF Sound, ScanTypes
<1>8. req' \in [Scans -> Sound]
  BY <1>6, <1>7
<1>9. ListedGoing'
  <2>1. ASSUME NEW i \in 1 .. Len(active') PROVE Going(req'[active'[i]])
    <3>1. active'[i] \in Scans /\ Going(req[active'[i]])
      BY <1>1, <1>4 DEF ListedGoing
    <3>2. QED
      BY <1>7, <3>1 DEF Going
  <2>2. ASSUME NEW i \in 1 .. Len(pending') PROVE Going(req'[pending'[i]])
    <3>1. pending'[i] \in Scans /\ Going(req[pending'[i]])
      BY <1>1, <1>4 DEF ListedGoing
    <3>2. QED
      BY <1>7, <3>1 DEF Going
  <2>3. QED
    BY <2>1, <2>2 DEF ListedGoing
<1>10. ReadyFits'
  <2>1. S!ToSet(active') = {active'[i] : i \in 1 .. Len(active')}
    BY DEF S!ToSet
  <2>2. \A r \in ready' : /\ \E i \in 1 .. Len(active') : r = active'[i]
                          /\ r \in Scans /\ req[r].sock \in Answered
    BY <1>4, <1>6, <2>1, ElementOfSeq
  <2>3. \A r \in ready' : req'[r].state # "new" /\ req'[r].sock \in Answered
    BY <1>7, <1>9, <2>2 DEF ListedGoing, Going
  <2>4. 1 \in 0 .. S!Cardinality(Scans) + 1
    BY ScansCounted
  <2>5. ready' \subseteq Scans /\ idx' \in 0 .. S!Cardinality(Scans) + 1 /\ idx' # 0
    BY <1>3, <2>2, <2>4
  <2>6. QED
    BY <2>3, <2>5 DEF ReadyFits
<1>11. QED
  BY <1>5, <1>8, <1>9, <1>10

(* One request of the round: only its position is behind.                  *)
LEMMA Advances == ASSUME ScansInv, S!Advance PROVE ScansInv'
<1> USE DEF ScansInv
<1> DEFINE r == active[idx]
<1>1. /\ idx \in 1 .. Len(active) /\ idx' = idx + 1 /\ UNCHANGED <<limit, pending, ready>>
      /\ Len(active) \in Nat
  BY LenProperties DEF S!Advance, ListsFit
<1>2. r \in Scans /\ Going(req[r]) /\ req[r] \in Sound
  BY <1>1, ElementOfSeq DEF ListsFit, ListedGoing
<1>3. (r \in ready) => req[r].sock \in Answered
  BY <1>1 DEF ReadyFits
<1>4. PICK q \in S!Advanced(req[r], r \in ready) :
          /\ req' = [req EXCEPT ![r] = q]
          /\ active' = IF q.complete THEN S!RemoveFirst(active, r) ELSE active
  BY DEF S!Advance
<1>5. q \in Sound /\ q.state \notin {"new", "removed"}
  <2>1. CASE r \in ready
    <3>1. (r \in ready) = TRUE
      BY <2>1
    <3>2. q \in S!Advanced(req[r], TRUE)
      BY <1>4, <3>1
    <3>3. QED
      BY <1>2, <1>3, <2>1, <3>2, ScanAdvances
  <2>2. CASE r \notin ready
    <3>1. (r \in ready) = FALSE
      BY <2>2
    <3>2. q \in S!Advanced(req[r], FALSE)
      BY <1>4, <3>1
    <3>3. QED
      BY <1>2, <3>2, ScanAdvances
  <2>3. QED
    BY <2>1, <2>2
<1>6. idx + 1 \in 1 .. S!Cardinality(Scans) + 1 /\ idx + 1 >= idx
  BY <1>1, ListsShort, ScansCounted DEF ListsFit
<1>7. CASE q.complete
  <2> HIDE DEF ScansInv
  <2>1. /\ active' = S!RemoveFirst(active, r) /\ pending' = pending
        /\ \E i \in 1 .. Len(active) : active[i] = r
    BY <1>1, <1>4, <1>7
  <2>2. idx' \in idx .. S!Cardinality(Scans) + 1
    BY <1>1, <1>6, ScansCounted
  <2> HIDE DEF r
  <2>3. QED
    BY <1>1, <1>2, <1>4, <1>5, <2>1, <2>2, TakenOut
<1>8. CASE ~q.complete
  <2>1. active' = active /\ Going(q)
    BY <1>4, <1>5, <1>8 DEF Going
  <2>2. /\ \A i \in 1 .. Len(active) : active[i] \in Scans
        /\ \A i \in 1 .. Len(pending) : pending[i] \in Scans
    BY ElementOfSeq DEF ListsFit
  <2>3. req'[r] = q /\ \A o \in Scans : o # r => req'[o] = req[o]
    BY <1>2, <1>4
  <2>4. ListsFit' /\ req' \in [Scans -> Sound]
    BY <1>1, <1>2, <1>4, <1>5, <2>1 DEF ListsFit
  <2>5. ListedGoing'
    <3>1. \A o \in Scans : Going(req[o]) => Going(req'[o])
      BY <2>1, <2>3
    <3>2. QED
      BY <1>1, <2>1, <2>2, <3>1 DEF ListedGoing
  <2>6. ReadyFits'
    <3>1. ASSUME NEW i \in 1 .. Len(active), i >= idx + 1, active[i] \in ready
          PROVE  req'[active[i]].sock \in Answered
      <4>1. i # idx /\ i >= idx
        BY <1>1, <3>1
      <4>2. active[i] # r
        BY <1>1, <4>1 DEF ListsFit, Distinct
      <4>3. req'[active[i]] = req[active[i]]
        BY <2>2, <2>3, <4>2
      <4>4. QED
        BY <3>1, <4>1, <4>3 DEF ReadyFits
    <3>2. \A o \in ready : o \in Scans /\ req'[o].state # "new"
      BY <1>5, <2>3 DEF ReadyFits
    <3>3. idx' \in 0 .. S!Cardinality(Scans) + 1 /\ idx' # 0
      BY <1>1, <1>6, ScansCounted
    <3>4. QED
      BY <1>1, <2>1, <3>1, <3>2, <3>3 DEF ReadyFits
  <2>7. QED
    BY <2>4, <2>5, <2>6
<1>9. QED
  BY <1>5, <1>7, <1>8 DEF Sound, ScanTypes

(* The launch gives its request up: it may be in either list or in none.   *)
LEMMA GivenUp == ASSUME ScansInv, NEW r \in Scans, S!RemoveRequest(r) PROVE ScansInv'
<1> DEFINE q == [S!_Close(req[r]) EXCEPT !.state = "removed"]
<1>1. /\ req' = [req EXCEPT ![r] = q]
      /\ active' = S!RemoveFirst(active, r) /\ pending' = S!RemoveFirst(pending, r)
      /\ UNCHANGED <<limit, ready>> /\ idx' = idx
  BY DEF S!RemoveRequest
<1>2. q \in Sound /\ q.state = "removed"
  <2>1. req[r] \in ScanTypes
    BY DEF ScansInv, Sound
  <2> DEFINE c == S!_Close(req[r])
  <2>2. c \in ScanTypes /\ ~c.armed
    BY <2>1, ScanClosed
  <2>3. q = [c EXCEPT !.state = "removed"]
    OBVIOUS
  <2> HIDE DEF c, q
  <2>4. q \in ScanTypes /\ ~q.armed /\ q.state = "removed"
    BY <2>2, <2>3 DEF ScanTypes, S!States
  <2>5. QED
    BY <2>4 DEF Sound
<1>3. idx' \in idx .. S!Cardinality(Scans) + 1
  BY <1>1, ScansCounted DEF ScansInv, ReadyFits
<1> HIDE DEF q
<1>4. QED
  BY <1>1, <1>2, <1>3, TakenOut

(* Every step of the scans keeps the invariant.                            *)
LEMMA ScansStep == ASSUME ScansInv, [S!Next]_svars PROVE ScansInv'
<1>1. CASE S!Poll
  BY <1>1, Polled
<1>2. CASE S!Advance
  BY <1>2, Advances
<1>3. CASE S!EndRound
  <2>1. UNCHANGED <<limit, req, active, pending>> /\ idx' = 0 /\ ready' = {}
    BY <1>3 DEF S!EndRound
  <2>2. ReadyFits'
    BY <2>1, ScansCounted DEF ReadyFits
  <2>3. QED
    BY <2>1, <2>2 DEF ScansInv, ListsFit, ListedGoing, Distinct
<1>4. ASSUME NEW r \in Scans, S!AddRequest(r) PROVE ScansInv'
  BY <1>4, Submitted
<1>5. ASSUME NEW r \in Scans, S!RemoveRequest(r) PROVE ScansInv'
  BY <1>5, GivenUp
<1>6. ASSUME NEW r \in Scans, S!HostAnswers(r) PROVE ScansInv'
  <2>1. PICK s \in Answered : req' = [req EXCEPT ![r].sock = s]
    BY <1>6 DEF S!HostAnswers, Answered
  <2> DEFINE q == [req[r] EXCEPT !.sock = s]
  <2>2. q \in Sound /\ q.state = req[r].state /\ q.complete = req[r].complete /\ q.sock \in Answered
    <3>1. req[r] \in ScanTypes /\ req[r] \in Sound
      BY DEF ScansInv, Sound
    <3>2. q \in ScanTypes /\ q.state = req[r].state /\ q.complete = req[r].complete
      BY <3>1 DEF ScanTypes, Answered
    <3>3. q.armed = req[r].armed /\ q.event = req[r].event /\ q.sock = s
      BY <3>1 DEF ScanTypes
    <3>4. q \in Sound
      BY <3>1, <3>2, <3>3 DEF Sound, Answered
    <3>5. QED
      BY <3>2, <3>3, <3>4
  <2>3. req' = [req EXCEPT ![r] = q] /\ UNCHANGED <<limit, active, pending, ready, idx>>
    BY <1>6, <2>1 DEF S!HostAnswers
  <2> HIDE DEF q
  <2>4. QED
    BY <2>2, <2>3, OneChanges
<1>7. ASSUME NEW r \in Scans, S!Negotiated(r) PROVE ScansInv'
  <2>1. PICK e \in {"ok", "error"} : req' = [req EXCEPT ![r].event = e]
    BY <1>7 DEF S!Negotiated
  <2> DEFINE q == [req[r] EXCEPT !.event = e]
  <2>2. q \in Sound /\ q.state = req[r].state /\ q.complete = req[r].complete /\ q.sock = req[r].sock
    <3>1. req[r] \in ScanTypes /\ req[r] \in Sound
      BY DEF ScansInv, Sound
    <3>2. q \in ScanTypes /\ q.state = req[r].state /\ q.complete = req[r].complete
      BY <3>1 DEF ScanTypes, Answered
    <3>3. q.armed = req[r].armed /\ q.event = e /\ q.sock = req[r].sock
      BY <3>1 DEF ScanTypes
    <3>4. q \in Sound
      BY <3>1, <3>2, <3>3 DEF Sound, Answered
    <3>5. QED
      BY <3>2, <3>3, <3>4
  <2>3. req' = [req EXCEPT ![r] = q] /\ UNCHANGED <<limit, active, pending, ready, idx>>
    BY <1>7, <2>1 DEF S!Negotiated
  <2> HIDE DEF q
  <2>4. QED
    BY <2>2, <2>3, OneChanges
<1>8. ASSUME NEW r \in Scans, S!GetsLate(r) PROVE ScansInv'
  <2> DEFINE q == [req[r] EXCEPT !.late = TRUE]
  <2>1. q \in Sound /\ q.state = req[r].state /\ q.complete = req[r].complete /\ q.sock = req[r].sock
    <3>1. req[r] \in ScanTypes /\ req[r] \in Sound
      BY DEF ScansInv, Sound
    <3>2. q \in ScanTypes /\ q.state = req[r].state /\ q.complete = req[r].complete
      BY <3>1 DEF ScanTypes, Answered
    <3>3. q.armed = req[r].armed /\ q.event = req[r].event /\ q.sock = req[r].sock
      BY <3>1 DEF ScanTypes
    <3>4. q \in Sound
      BY <3>1, <3>2, <3>3 DEF Sound, Answered
    <3>5. QED
      BY <3>2, <3>3, <3>4
  <2>2. req' = [req EXCEPT ![r] = q] /\ UNCHANGED <<limit, active, pending, ready, idx>>
    BY <1>8 DEF S!GetsLate
  <2> HIDE DEF q
  <2>3. QED
    BY <2>1, <2>2, OneChanges
<1>9. CASE UNCHANGED svars
  BY <1>9 DEF svars, ScansInv, ListsFit, ListedGoing, ReadyFits, Distinct
<1>10. QED
  BY <1>1, <1>2, <1>3, <1>4, <1>5, <1>6, <1>7, <1>8, <1>9 DEF S!Next

-----------------------------------------------------------------------------
(* The parts of MCClouds do not disturb each other. *)
LEMMA PartSteps == [CloudsNext]_allVars => [Next]_vars /\ [U!Next]_uvars /\ [S!Next]_svars
BY DEF CloudsNext, allVars

(* Each begins as it does by itself. *)
LEMMA PartInits == CloudsInit => Init /\ U!Init
BY DEF CloudsInit

(* The variables of the three parts keep their types.                      *)
THEOREM TypesCorrect == CloudsSpec => []TypesOK
<1> DEFINE Inv == BuildInv /\ U!TypeOK /\ ScansInv
<1>1. CloudsInit => Inv
  BY PartInits, BuildInit, UploadBegins, ScansBegin
<1>2. Inv /\ [CloudsNext]_allVars => Inv'
  BY PartSteps, BuildStep, UploadTypes, ScansStep
<1>3. Inv => TypesOK
  BY ScansTyped DEF BuildInv, TypesOK
<1> QED BY <1>1, <1>2, <1>3, PTL DEF CloudsSpec

(* A scan is in one list of the worker at most, once, and only until it is *)
(* over; no more than MAX_REQUESTS are polled; and what the poll reported  *)
(* of a scan still holds when the round comes to it, whatever was removed, *)
(* answered or submitted meanwhile (NodescanWorker.run).                   *)
THEOREM RoundsFit == CloudsSpec => [](ListsFit /\ ListedGoing /\ ReadyFits)
<1>1. CloudsInit => ScansInv
  BY ScansBegin
<1>2. ScansInv /\ [CloudsNext]_allVars => ScansInv'
  BY PartSteps, ScansStep
<1>3. ScansInv => ListsFit /\ ListedGoing /\ ReadyFits
  BY DEF ScansInv
<1> QED BY <1>1, <1>2, <1>3, PTL DEF CloudsSpec

(* What a request or a build is told it can use is there: READY nodes and, *)
(* at AWS and OpenStack, READY uploads.                                    *)
THEOREM CloudsWhole == CloudsSpec => []ReadyWhole
<1>1. BuildInv /\ UploadInv => ReadyWhole
  BY DEF BuildInv, ReadyInv, Whole, ReadyNodeWhole, UploadInv, U!ReadyUploadHasImage, ReadyWhole
<1>2. CloudsInit => BuildInv /\ U!TypeOK /\ UploadInv
  BY PartInits, BuildInit, UploadBegins
<1>3. BuildInv /\ U!TypeOK /\ UploadInv /\ [CloudsNext]_allVars
         => (BuildInv /\ U!TypeOK /\ UploadInv)'
  BY PartSteps, BuildStep, UploadTypes, UploadStep
<1> QED BY <1>1, <1>2, <1>3, PTL DEF CloudsSpec

(* The records of nodes and of uploads go after what they stand for.       *)
THEOREM RecordsLast == CloudsSpec => RecordOutlives
<1> DEFINE Inv == BuildInv /\ PartsInv /\ DeleteInv /\ U!TypeOK
<1>1. CloudsInit => Inv
  BY PartInits, BuildInit, PartsInit, UploadBegins
<1>2. Inv /\ [CloudsNext]_allVars => Inv'
  BY PartSteps, BuildStep, DeleteStep, UploadTypes
<1>3. Inv => RecordOutlivesResources
  BY DEF DeleteInv, RecordOutlivesResources, Off, Doomed
<1>4. Inv /\ [CloudsNext]_allVars
         => [record = "deleting" /\ upExt /\ record' = "gone"
                => upCloud'["image"] = "none" \/ upUnlisted']_uvars
  BY PartSteps, ImageGoesFirst
<1> QED BY <1>1, <1>2, <1>3, <1>4, PTL DEF CloudsSpec, RecordOutlives, U!RecordOutlivesImage, U!vars, uvars
=============================================================================
