---------------------------- MODULE CloudUploads ----------------------------
(***************************************************************************)
(* One upload of an image to a cloud: what uploadImage of each adapter     *)
(* makes there step by step, what deleteImage and the cleanup of leaked    *)
(* resources take away, and the upload's record in ZooKeeper.              *)
(*                                                                         *)
(* The ways to upload: AWS by importing a snapshot or an image from an     *)
(* object in S3, or by EBS blocks; Azure by a disk; IBM VPC from an        *)
(* object; OpenStack in one call.                                          *)
(***************************************************************************)
EXTENDS Naturals, FiniteSets

CONSTANTS
    Ways,       \* to be considered
    MaxFaults,  \* bound: calls that raise
    MaxCrashes, \* bound: crashes of the builder; of the launcher
    Nobody

VARIABLES
    way,        \* fixed
    record,     \* state of the ImageUpload znode
    ext,        \* its external_id: whether it has one
    step,       \* of the thread that uploads
    cloud,      \* the upload's resources
    tagged,     \* those with the upload's metadata
    listed,     \* the cached lists: the resources, and the tagged ones
    possibly,   \* the upload is in possibly_leaked_uploads
    notOurs,    \* AWS: not_our_images, not_our_snapshots
    unlisted,   \* history: deleteImage did not find the image in the list
    faults, crashes

vars == <<way, record, ext, step, cloud, tagged, listed, possibly, notOurs, unlisted,
          faults, crashes>>

AllWays == {"aws-snapshot", "aws-image", "aws-ebs", "azure", "ibmvpc", "openstack"}
Types == {"object", "task", "snapshot", "disk", "image"}
Exists(t) == cloud[t] # "none"

TypeOK ==
    /\ way \in Ways
    /\ record \in {"uploading", "ready", "failed", "deleting", "gone"}
    /\ ext \in BOOLEAN
    /\ step \in {Nobody, "start", "import", "wait", "clean", "tag image", "tag snapshot",
                 "segments", "register", "hook", "failed"}
    /\ cloud \in [Types -> {"none", "pending", "ready", "failed"}]
    /\ tagged \in SUBSET {t \in Types : Exists(t)}
    /\ listed \in [all: SUBSET Types, tagged: SUBSET Types]
    /\ possibly \in BOOLEAN /\ unlisted \in BOOLEAN
    /\ notOurs \in SUBSET {"image", "snapshot"}
    /\ faults \in 0..MaxFaults /\ crashes \in 0..MaxCrashes

Init ==
    /\ way \in Ways
    /\ record = "uploading" /\ ext = FALSE /\ step = "start"
    /\ cloud = [t \in Types |-> "none"] /\ tagged = {}
    /\ listed = [all |-> {}, tagged |-> {}]
    /\ possibly = FALSE /\ notOurs = {} /\ unlisted = FALSE
    /\ faults = 0 /\ crashes = 0

zk == <<record, ext>>
seen == <<listed, possibly, notOurs, unlisted>>
Faulty == faults < MaxFaults /\ faults' = faults + 1 /\ UNCHANGED crashes
----------------------------------------------------------------------------
(* uploadImage, by the adapters.  "hook" follows a return, and "failed" an *)
(* exception.                                                              *)

At(ways, s) == way \in ways /\ step = s

Put(t, s) ==
    /\ cloud' = [cloud EXCEPT ![t] = s] /\ tagged' = tagged \cup {t}

\* Deletions that the cloud grants: a snapshot stays while its image does.
Remove(T) ==
    LET gone == IF "image" \notin T /\ Exists("image") THEN T \ {"snapshot"} ELSE T IN
    /\ cloud' = [t \in Types |-> IF t \in gone THEN "none" ELSE cloud[t]]
    /\ tagged' = tagged \ gone

Then(s) == step' = s /\ UNCHANGED <<way, zk, seen, faults, crashes>>
Tag(t) == tagged' = (IF Exists(t) THEN tagged \cup {t} ELSE tagged) /\ UNCHANGED cloud

\* A failed attempt to tag is logged.
MayTag(t, s) ==
    \/ Tag(t) /\ Then(s)
    \/ Faulty /\ step' = s /\ UNCHANGED <<way, zk, cloud, tagged, seen>>

Aws == {"aws-snapshot", "aws-image"}

(* The object goes when the import task is done, well or not. *)
AwsImport ==
    \/ At(Aws, "start") /\ Put("object", "ready") /\ Then("import")
    \/ At(Aws, "import") /\ Put("task", "pending") /\ Then("wait")
    \/ At(Aws, "wait") /\ cloud["task"] \in {"ready", "failed"} /\ Remove({"object"})
       /\ Then(IF cloud["task"] = "failed" THEN "failed"
               ELSE IF way = "aws-image" THEN "tag image" ELSE "tag snapshot")
    \/ At(Aws, "tag image") /\ MayTag("image", "tag snapshot")
    \/ At({"aws-image"}, "tag snapshot") /\ MayTag("snapshot", "hook")
    \/ At({"aws-snapshot"}, "tag snapshot") /\ MayTag("snapshot", "register")
    \/ At({"aws-snapshot"}, "register") /\ Put("image", "ready") /\ Then("hook")

AwsEbs ==
    \/ At({"aws-ebs"}, "start") /\ Put("snapshot", "pending") /\ Then("segments")
    \/ At({"aws-ebs"}, "segments") /\ Put("snapshot", "ready") /\ Then("register")
    \/ At({"aws-ebs"}, "register") /\ Put("image", "ready") /\ Then("hook")

AzureUpload ==
    \/ At({"azure"}, "start") /\ Put("disk", "ready") /\ Then("segments")
    \/ At({"azure"}, "segments") /\ UNCHANGED <<cloud, tagged>> /\ Then("register")
    \/ At({"azure"}, "register") /\ Put("image", "ready") /\ Then("clean")
    \/ At({"azure"}, "clean") /\ Remove({"disk"}) /\ Then("hook")

IbmUpload ==
    \/ At({"ibmvpc"}, "start") /\ Put("object", "ready") /\ Then("import")
    \/ At({"ibmvpc"}, "import") /\ Put("image", "pending") /\ Then("wait")
    \/ At({"ibmvpc"}, "wait") /\ cloud["image"] = "ready" /\ UNCHANGED <<cloud, tagged>>
       /\ Then("clean")
    \/ At({"ibmvpc"}, "wait") /\ cloud["image"] \in {"failed", "none"}
       /\ UNCHANGED <<cloud, tagged>> /\ Then("failed")
    \/ At({"ibmvpc"}, "clean") /\ Remove({"object"}) /\ Then("hook")

OpenStackUpload ==
    At({"openstack"}, "start") /\ Put("image", "ready") /\ Then("hook")

Inside == {"segments", "register", "clean"}

(* A step raises, before it has had its effect or after.  ImageUploader    *)
(* catches what is raised between startUpload and its end and returns      *)
(* None: unpacking that fails for AWS, which has deleted the snapshot;     *)
(* Azure's adapter does not look at it.                                    *)
StepRaises ==
    /\ step \notin {Nobody, "hook", "failed"} /\ Faulty
    /\ IF way = "aws-ebs" /\ step = "segments"
       THEN (Remove({"snapshot"}) \/ UNCHANGED <<cloud, tagged>>)
       ELSE \/ UNCHANGED <<cloud, tagged>>
            \/ way = "openstack" /\ Put("image", "pending")
            \/ way = "azure" /\ step = "start" /\ Put("disk", "pending")
            \/ way = "azure" /\ step = "register" /\ Put("image", "failed")
    /\ step' = IF way = "azure" /\ step \in Inside THEN "hook" ELSE "failed"
    /\ UNCHANGED <<way, zk, seen>>
----------------------------------------------------------------------------
(* The builder *)

(* _uploadImage has returned: the record becomes READY, or FAILED without  *)
(* an id.  A post-upload hook that fails means to delete the image, but    *)
(* calls deleteImage with one argument too few, and that is logged.        *)
UploadEnds ==
    /\ step \in {"hook", "failed"} /\ step' = Nobody
    /\ \/ step = "hook" /\ record' = "ready" /\ ext' = TRUE /\ UNCHANGED <<faults, crashes>>
       \/ step = "hook" /\ Faulty /\ record' = "failed" /\ UNCHANGED ext
       \/ step = "failed" /\ record' = "failed" /\ UNCHANGED <<ext, faults, crashes>>
    /\ UNCHANGED <<way, cloud, tagged, seen>>

(* _deleteUpload: an upload that failed, that nobody works on, or that is  *)
(* not wanted any more becomes DELETING.                                   *)
DeleteUpload ==
    /\ record \in {"uploading", "failed", "ready"} /\ step = Nobody
    /\ record' = "deleting"
    /\ UNCHANGED <<way, ext, step, cloud, tagged, seen, faults, crashes>>

(* What deleteImage takes with it; AWS looks the image up in the list.     *)
ImageParts ==
    CASE way \in Aws \cup {"aws-ebs"} ->
            IF "image" \in listed.all THEN {"image", "snapshot"} ELSE {}
      [] way = "ibmvpc" -> IF Exists("image") THEN {"object", "image"} ELSE {}
      [] OTHER -> {"image"}

\* Mutant: the record goes although deleteImage has raised.
UploadDeleted_Anyway ==
    /\ record = "deleting" /\ record' = "gone" /\ ext' = FALSE
    /\ UNCHANGED <<way, step, listed, possibly, notOurs, unlisted>>
    /\ \/ Remove(ImageParts) /\ UNCHANGED <<faults, crashes>>
       \/ Faulty /\ UNCHANGED <<cloud, tagged>>

(* deleteImage, if there is an external id; then the record goes, unless   *)
(* it raises.                                                              *)
UploadDeleted ==
    /\ record = "deleting"
    /\ IF ext THEN Remove(ImageParts) ELSE UNCHANGED <<cloud, tagged>>
    /\ unlisted' = (ext /\ Exists("image") /\ ImageParts = {})
    /\ record' = "gone" /\ ext' = FALSE
    /\ UNCHANGED <<way, step, listed, possibly, notOurs, faults, crashes>>

DeleteImageRaises ==
    /\ record = "deleting" /\ ext /\ Faulty
    /\ UNCHANGED <<way, zk, step, cloud, tagged, seen>>

(* The builder dies, or cannot store the outcome. *)
BuilderCrash ==
    /\ crashes < MaxCrashes /\ crashes' = crashes + 1
    /\ step # Nobody /\ step' = Nobody
    /\ UNCHANGED <<way, zk, cloud, tagged, seen, faults>>
----------------------------------------------------------------------------
(* The launcher's cleanup of leaked resources *)

\* The image import task still knows what it was for.
TaskTags == cloud["task"] = "ready"

(* _tagAmis, _tagSnapshots: what is listed without tags.  (register_image  *)
(* and start_snapshot tag what they make.)                                 *)
Imported == {t \in {"image", "snapshot"} : t \in listed.all \ listed.tagged} \ notOurs

(* The upload, by its build id and its own id, is one of ZooKeeper's.  The *)
(* metadata of IBM VPC's resources has no build id.                        *)
Known == record # "gone" /\ way # "ibmvpc"

(* What listResources yields with metadata of an upload.  OpenStack's      *)
(* images are not among it.                                                *)
Listed == IF way = "openstack" THEN {} ELSE listed.tagged \ {"task"}

(* cleanupLeakedResources.  Listing AWS's resources tags imported ones     *)
(* first, which the cached list shows later, or marks them as not ours.    *)
CleanupLeaked ==
    LET lost == ~Known /\ Listed # {}
        imported == IF way \in Aws THEN Imported ELSE {}
        taken == IF lost /\ possibly THEN Listed ELSE {}
        left == IF "image" \notin taken /\ Exists("image") THEN taken \ {"snapshot"} ELSE taken
    IN
    /\ lost \/ possibly \/ imported # {}
    /\ possibly' = lost
    /\ cloud' = [t \in Types |-> IF t \in left THEN "none" ELSE cloud[t]]
    /\ tagged' = (IF TaskTags THEN tagged \cup {t \in imported : Exists(t)} ELSE tagged) \ left
    /\ notOurs' = IF TaskTags THEN notOurs ELSE notOurs \cup imported
    /\ UNCHANGED <<way, zk, step, listed, unlisted, faults, crashes>>

(* The lists are read again. *)
View == [all |-> {t \in Types : Exists(t)}, tagged |-> tagged]

RefreshLists ==
    /\ listed # View /\ listed' = View
    /\ UNCHANGED <<way, zk, step, cloud, tagged, possibly, notOurs, unlisted, faults, crashes>>

LauncherRestart ==
    /\ crashes < MaxCrashes /\ crashes' = crashes + 1
    /\ possibly' = FALSE /\ notOurs' = {}
    /\ UNCHANGED <<way, zk, step, cloud, tagged, listed, unlisted, faults>>
----------------------------------------------------------------------------
(* The clouds *)

(* An import task ends, in AWS's case with things that have no tags, or    *)
(* IBM's image becomes available.                                          *)
ImportEnds ==
    /\ \/ /\ cloud["task"] = "pending"
          /\ \/ cloud' = [cloud EXCEPT !["task"] = "failed"]
             \/ /\ Exists("object")
                /\ cloud' = [t \in Types |->
                      IF t \in {"task", "snapshot"} \/ (t = "image" /\ way = "aws-image")
                      THEN "ready" ELSE cloud[t]]
       \/ /\ way = "ibmvpc" /\ cloud["image"] = "pending"
          /\ \E s \in IF Exists("object") THEN {"ready", "failed"} ELSE {"failed"} :
                cloud' = [cloud EXCEPT !["image"] = s]
    /\ UNCHANGED <<way, zk, step, tagged, seen, faults, crashes>>

(* AWS forgets a task after a while. *)
TaskExpires ==
    /\ cloud["task"] \in {"ready", "failed"} /\ step # "wait" /\ Remove({"task"})
    /\ UNCHANGED <<way, zk, step, seen, faults, crashes>>

UploadStep ==
    \/ AwsImport \/ AwsEbs \/ AzureUpload \/ IbmUpload \/ OpenStackUpload \/ StepRaises
    \/ UploadEnds

CleanupStep == DeleteUpload \/ UploadDeleted \/ DeleteImageRaises

Next ==
    \/ UploadStep \/ CleanupStep \/ BuilderCrash
    \/ CleanupLeaked \/ RefreshLists \/ LauncherRestart
    \/ ImportEnds \/ TaskExpires

Spec == Init /\ [][Next]_vars

(* Workers loop; an upload that failed, or was lost, is deleted; imports   *)
(* end.  Nothing makes a READY upload go.                                  *)
Fairness ==
    /\ WF_vars(UploadStep) /\ WF_vars(record # "ready" /\ CleanupStep) /\ WF_vars(CleanupLeaked)
    /\ WF_vars(RefreshLists) /\ WF_vars(ImportEnds)

LiveSpec == Spec /\ Fairness
----------------------------------------------------------------------------
(* A READY upload has its image in the cloud: what failed or was never     *)
(* made is not READY, and no cleanup takes the image for a leak.  (AWS and *)
(* OpenStack.)                                                             *)
ReadyUploadHasImage ==
    record = "ready" /\ way \notin {"azure", "ibmvpc"} => cloud["image"] = "ready"

(* The record of an upload goes after the image: what is left when it is   *)
(* gone was not in a list, or never known by an id.                        *)
RecordOutlivesImage ==
    [][record = "deleting" /\ ext /\ record' = "gone" =>
            cloud'["image"] = "none" \/ unlisted']_vars

(* What an upload leaves, be it that it failed, its hook failed, or its    *)
(* builder died at any step, goes after its record: untagged imports are   *)
(* first given the tags of their task, if that is still known.             *)
UploadReclaimed ==
    \A t \in Types \ {"task"} :
        cloud[t] # "none" /\ record = "gone"
            ~> cloud[t] = "none" \/ {t, "image"} \cap notOurs # {} \/ way = "openstack"
=============================================================================
