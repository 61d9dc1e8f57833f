---------------------------- MODULE ImageBuilder ----------------------------
(***************************************************************************)
(* The builders' handling of one diskimage: BuildWorkers that build it,    *)
(* UploadWorkers that upload builds to providers, and CleanupWorkers that  *)
(* delete what is no longer needed, over the build and upload records and  *)
(* the locks in ZooKeeper.  A builder is one process with one ZooKeeper    *)
(* session, a BuildWorker, a CleanupWorker and some UploadWorkers; images  *)
(* do not interact.                                                        *)
(***************************************************************************)
EXTENDS Naturals, FiniteSets

CONSTANTS
    Builders,           \* builder processes
    UploadWorkers, Host, \* Host[w] is the builder that UploadWorker w belongs to
    Providers,          \* providers the image is uploaded to
    Builds,             \* build ids; reused once nothing mentions them
    Uploads,            \* upload ids; reused likewise
    DeleteAfterUpload,  \* the diskimage's delete-after-upload
    MaxEvents,          \* bound: crashes, lost sessions, manual requests and
                        \* deletions, changes of a configuration, together
    LateLoss,           \* may one be lost between a build's end and its store?
    None,
    Dead                \* holds the locks of a process that is gone

ASSUME BuilderAssumption ==
    /\ DeleteAfterUpload \in BOOLEAN /\ LateLoss \in BOOLEAN
    /\ MaxEvents \in Nat
    /\ Host \in [UploadWorkers -> Builders]
    /\ None # Providers /\ None # Dead
    /\ {None, Dead} \cap (Builders \cup UploadWorkers \cup Providers \cup Builds \cup Uploads) = {}

(* A znode without data ("blank") is what remains when a path below a      *)
(* deleted record is created: its JSON cannot be read.                     *)
BuildStates == {"absent", "blank", "BUILDING", "READY", "FAILED", "DELETING"}
UploadStates == {"absent", "UPLOADING", "READY", "FAILED", "DELETING"}
Workers == {"build", "upload", "clean"}

VARIABLES
    build,      \* [Builds -> BuildStates]: the build records
    buildOrder, \* <<i, j>>: of the READY builds, i has the earlier state_time
    upload,     \* [Uploads -> record]: the upload records
    uploadOrder,\* likewise of the READY uploads
    cloud,      \* uploads whose image exists at the provider
    files,      \* [Builders -> SUBSET Builds]: image files on local disk
    request,    \* a manual build request exists
    buildLock,  \* the builder that holds the image's build lock
    uploadLock, \* [Builds \X Providers -> UploadWorkers \cup {None}]
    builder,    \* the BuildWorkers
    uploader,   \* the UploadWorkers
    cleaner,    \* the CleanupWorkers
    config,     \* [Builders -> [Workers -> ...]]: providers with the image;
                \* None once the diskimage has gone from the configuration
    crashes, losses, requests, userDeletes, reconfigs

zkBuilds == <<build, buildOrder, buildLock>>
zkUploads == <<upload, uploadOrder, uploadLock>>
workers == <<builder, uploader, cleaner>>
bounds == <<crashes, losses, requests, userDeletes, reconfigs>>
vars == <<zkBuilds, zkUploads, cloud, files, request, workers, config, bounds>>

NoUpload == [state |-> "absent", build |-> None, provider |-> None, ext |-> FALSE]
IdleBuilder == [step |-> "idle", saw |-> None, manual |-> FALSE, id |-> None,
                result |-> "absent", lost |-> FALSE]
IdleUploader == [step |-> "idle", build |-> None, provider |-> None, id |-> None,
                 result |-> "absent"]
IdleCleaner == [step |-> "idle", recent |-> {}, snap |-> [i \in Builds |-> "absent"],
                keep |-> {}, todo |-> {}, cur |-> None, stage |-> "none",
                uploads |-> {}, held |-> None, seen |-> NoUpload]

ReadyBuilds == {i \in Builds : build[i] = "READY"}

Ordered(order, S) ==
    /\ order \subseteq S \X S
    /\ \A x \in S : <<x, x>> \notin order
    /\ \A x, y \in S : x = y \/ <<x, y>> \in order \/ <<y, x>> \in order
    /\ \A x, y, z \in S : <<x, y>> \in order /\ <<y, z>> \in order => <<x, z>> \in order

UploadRecords == [state : UploadStates, build : Builds \cup {None},
                  provider : Providers \cup {None}, ext : BOOLEAN]

Results == {"absent", "READY", "FAILED"}

BuilderRecords ==
    [step : {"idle", "due", "building", "built"}, saw : Builds \cup {None},
     manual : BOOLEAN, id : Builds \cup {None}, result : Results, lost : BOOLEAN]

UploaderRecords ==
    [step : {"idle", "found", "checked", "uploading", "done"},
     build : Builds \cup {None}, provider : Providers \cup {None},
     id : Uploads \cup {None}, result : Results]

CleanerRecords ==
    [step : {"idle", "table", "list", "check", "recheck", "drop", "mark", "cloud",
             "erase", "delete", "remove", "local"},
     recent : SUBSET Uploads, snap : [Builds -> BuildStates], keep : SUBSET Builds,
     todo : SUBSET Builds, cur : Builds \cup {None}, stage : {"none", "current", "old"},
     uploads : SUBSET Uploads, held : Uploads \cup {None}, seen : UploadRecords]

TypeOK ==
    /\ build \in [Builds -> BuildStates]
    /\ Ordered(buildOrder, ReadyBuilds)
    /\ upload \in [Uploads -> UploadRecords]
    /\ Ordered(uploadOrder, {u \in Uploads : upload[u].state = "READY"})
    /\ cloud \subseteq Uploads
    /\ files \in [Builders -> SUBSET Builds]
    /\ request \in BOOLEAN
    /\ buildLock \in Builders \cup {Dead, None}
    /\ uploadLock \in [Builds \X Providers -> UploadWorkers \cup {Dead, None}]
    /\ builder \in [Builders -> BuilderRecords]
    /\ uploader \in [UploadWorkers -> UploaderRecords]
    /\ cleaner \in [Builders -> CleanerRecords]
    /\ config \in [Builders -> [Workers -> (SUBSET Providers) \cup {None}]]
    /\ {crashes, losses, requests, userDeletes, reconfigs} \subseteq 0..MaxEvents

Init ==
    /\ build = [i \in Builds |-> "absent"] /\ buildOrder = {}
    /\ upload = [u \in Uploads |-> NoUpload] /\ uploadOrder = {}
    /\ cloud = {} /\ files = [b \in Builders |-> {}] /\ request = FALSE
    /\ buildLock = None
    /\ uploadLock = [x \in Builds \X Providers |-> None]
    /\ builder = [b \in Builders |-> IdleBuilder]
    /\ uploader = [w \in UploadWorkers |-> IdleUploader]
    /\ cleaner = [b \in Builders |-> IdleCleaner]
    /\ config = [b \in Builders |-> [w \in Workers |-> Providers]]
    /\ crashes = 0 /\ losses = 0 /\ requests = 0 /\ userDeletes = 0 /\ reconfigs = 0
----------------------------------------------------------------------------
(* Records *)

(* The last one, and the last two, of a set in an order *)
Newest ==
    LET last == {i \in ReadyBuilds : \A j \in ReadyBuilds \ {i} : <<j, i>> \in buildOrder}
    IN  IF last = {} THEN None ELSE CHOOSE i \in last : TRUE
LastTwo(order, S) ==
    {x \in S : \A y, z \in S : <<x, y>> \in order /\ <<x, z>> \in order => y = z}

LatestBuilds == LastTwo(buildOrder, ReadyBuilds)

(* x is no longer READY, or is so since now: it comes after all the others *)
Without(order, x) == {p \in order : x \notin {p[1], p[2]}}
MadeLast(order, S, x) == Without(order, x) \cup {<<y, x>> : y \in S \ {x}}

Wanted(b, w) == IF config[b][w] = None THEN {} ELSE config[b][w]
UploadsOf(i) == {u \in Uploads : upload[u].build = i}
ReadyUploads(i, q) ==
    {u \in UploadsOf(i) : upload[u].provider = q /\ upload[u].state = "READY"}

(* Mutant: a build that is no longer READY is still listed as such. *)
SetBuild_Unlisted(i, s) ==
    /\ build' = [build EXCEPT ![i] = s]
    /\ buildOrder' = IF s = "READY" THEN MadeLast(buildOrder, ReadyBuilds, i) ELSE buildOrder

SetBuild(i, s) ==
    /\ build' = [build EXCEPT ![i] = s]
    /\ buildOrder' = IF s = "READY" THEN MadeLast(buildOrder, ReadyBuilds, i)
                                    ELSE Without(buildOrder, i)

SetUpload(u, rec) ==
    /\ upload' = [upload EXCEPT ![u] = rec]
    /\ uploadOrder' = IF rec.state = "READY"
                      THEN MadeLast(uploadOrder,
                                    {v \in Uploads : upload[v].state = "READY"}, u)
                      ELSE Without(uploadOrder, u)

(* A lock, or an upload record, below a build that is gone brings its      *)
(* znode back without data.                                                *)
Touch(i) ==
    /\ build' = [build EXCEPT ![i] = IF @ = "absent" THEN "blank" ELSE @]
    /\ UNCHANGED buildOrder

FreshBuild(i) ==
    /\ build[i] = "absent" /\ UploadsOf(i) = {}
    /\ \A b \in Builders :
          /\ i \notin files[b] /\ i \notin {builder[b].id, builder[b].saw}
          /\ cleaner[b].snap[i] = "absent"
    /\ \A w \in UploadWorkers : i # uploader[w].build

FreshUpload(u) ==
    /\ upload[u].state = "absent" /\ u \notin cloud
    /\ \A w \in UploadWorkers : u # uploader[w].id
    /\ \A b \in Builders :
          u \notin cleaner[b].recent \cup cleaner[b].uploads \cup {cleaner[b].held}
----------------------------------------------------------------------------
(* BuildWorker *)

BuilderDone(b) == builder' = [builder EXCEPT ![b] = IdleBuilder]

(* The newest READY build is found aged, incomplete or missing ...         *)
BuildDue(b) ==
    /\ builder[b].step = "idle" /\ config[b]["build"] # None
    /\ builder' = [builder EXCEPT ![b] = [@ EXCEPT !.step = "due", !.saw = Newest]]
    /\ UNCHANGED <<zkBuilds, zkUploads, cloud, files, request, uploader, cleaner,
                   config, bounds>>

(* ... or there is a manual request. *)
ManualDue(b) ==
    /\ builder[b].step = "idle" /\ config[b]["build"] # None /\ request
    /\ builder' = [builder EXCEPT ![b] = [@ EXCEPT !.step = "due", !.manual = TRUE]]
    /\ UNCHANGED <<zkBuilds, zkUploads, cloud, files, request, uploader, cleaner,
                   config, bounds>>

(* With the build lock, the check is repeated.  (Where no build was seen   *)
(* and one is there now, builds[0] raises, to the same effect.)            *)
StillDue(b) ==
    IF builder[b].manual THEN request
                         ELSE Newest \in {None, builder[b].saw}

SkipBuild(b) ==
    /\ builder[b].step = "due"
    /\ buildLock # None \/ ~StillDue(b)
    /\ BuilderDone(b)
    /\ UNCHANGED <<zkBuilds, zkUploads, cloud, files, request, uploader, cleaner,
                   config, bounds>>

(* _buildWrapper records the build; dib starts to write its files. *)
StartBuild(b, i) ==
    /\ builder[b].step = "due" /\ buildLock = None /\ StillDue(b) /\ FreshBuild(i)
    /\ buildLock' = b /\ SetBuild(i, "BUILDING")
    /\ builder' = [builder EXCEPT ![b] = [@ EXCEPT !.step = "building", !.id = i,
                                                   !.lost = FALSE]]
    /\ UNCHANGED <<zkUploads, cloud, files, request, uploader, cleaner, config, bounds>>

(* dib ends; a build during which the session was lost has FAILED.  Files  *)
(* of a failed build may remain.                                           *)
BuildEnds(b) ==
    /\ builder[b].step = "building"
    /\ \E result \in IF builder[b].lost THEN {"FAILED"} ELSE {"READY", "FAILED"},
          written \in {{}, {builder[b].id}} :
          /\ result = "READY" => written # {}
          /\ builder' = [builder EXCEPT ![b] = [@ EXCEPT !.step = "built",
                                                         !.result = result]]
          /\ files' = [files EXCEPT ![b] = @ \cup written]
    /\ UNCHANGED <<zkBuilds, zkUploads, cloud, request, uploader, cleaner, config,
                   bounds>>

(* The result is stored and the lock released; a manual request is removed *)
(* when the build is READY.  If the record is gone, so must the files be.  *)
StoreBuild(b) ==
    /\ builder[b].step = "built"
    /\ LET i == builder[b].id
       IN  IF build[i] # "absent"
           THEN /\ SetBuild(i, builder[b].result)
                /\ request' = (request /\ ~(/\ builder[b].manual
                                            /\ builder[b].result = "READY"))
                /\ UNCHANGED files
           ELSE /\ files' = [files EXCEPT ![b] = @ \ {i}]
                /\ UNCHANGED <<build, buildOrder, request>>
    /\ buildLock' = IF buildLock = b THEN None ELSE buildLock
    /\ BuilderDone(b)
    /\ UNCHANGED <<zkUploads, cloud, uploader, cleaner, config, bounds>>
----------------------------------------------------------------------------
(* UploadWorker *)

UploaderDone(w) == uploader' = [uploader EXCEPT ![w] = IdleUploader]

ReleaseUpload(w, i) ==
    uploadLock' = [x \in DOMAIN uploadLock |->
                     IF x[1] = i /\ uploadLock[x] = w THEN None ELSE uploadLock[x]]

(* The newest READY build is on this builder's disk and not yet uploaded   *)
(* to the provider.                                                        *)
FindUpload(w, q) ==
    /\ uploader[w].step = "idle" /\ q \in Wanted(Host[w], "upload")
    /\ LET i == Newest
       IN  /\ i # None /\ i \in files[Host[w]] /\ ReadyUploads(i, q) = {}
           /\ uploader' = [uploader EXCEPT ![w] = [@ EXCEPT !.step = "found",
                                                   !.build = i, !.provider = q]]
    /\ UNCHANGED <<zkBuilds, zkUploads, cloud, files, request, builder, cleaner,
                   config, bounds>>

(* The upload lock is held by another: skipped. *)
SkipUpload(w) ==
    /\ uploader[w].step = "found"
    /\ uploadLock[<<uploader[w].build, uploader[w].provider>>] # None
    /\ UploaderDone(w)
    /\ UNCHANGED <<zkBuilds, zkUploads, cloud, files, request, builder, cleaner,
                   config, bounds>>

(* The lock is taken, which creates its path; another upload may be READY  *)
(* now, or the build be deleted.                                           *)
LockUpload(w) ==
    LET i == uploader[w].build
        q == uploader[w].provider
    IN  /\ uploader[w].step = "found" /\ uploadLock[<<i, q>>] = None
        /\ Touch(i)
        /\ IF ReadyUploads(i, q) # {} \/ build[i] \in {"absent", "blank", "DELETING"}
           THEN UploaderDone(w) /\ UNCHANGED uploadLock
           ELSE /\ uploadLock' = [uploadLock EXCEPT ![<<i, q>>] = w]
                /\ uploader' = [uploader EXCEPT ![w] = [@ EXCEPT !.step = "checked"]]
        /\ UNCHANGED <<buildLock, upload, uploadOrder, cloud, files, request, builder,
                       cleaner, config, bounds>>

(* storeImageUpload creates the upload's record, and its path. *)
StartUpload(w, u) ==
    /\ uploader[w].step = "checked" /\ FreshUpload(u)
    /\ Touch(uploader[w].build)
    /\ SetUpload(u, [state |-> "UPLOADING", build |-> uploader[w].build,
                     provider |-> uploader[w].provider, ext |-> FALSE])
    /\ uploader' = [uploader EXCEPT ![w] = [@ EXCEPT !.step = "uploading", !.id = u]]
    /\ UNCHANGED <<buildLock, uploadLock, cloud, files, request, builder, cleaner,
                   config, bounds>>

(* The provider has the image, or the upload failed (as it does when the   *)
(* files have gone).                                                       *)
UploadEnds(w) ==
    /\ uploader[w].step = "uploading"
    /\ \/ /\ uploader[w].build \in files[Host[w]]
          /\ cloud' = cloud \cup {uploader[w].id}
          /\ uploader' = [uploader EXCEPT ![w] = [@ EXCEPT !.step = "done",
                                                           !.result = "READY"]]
       \/ /\ uploader' = [uploader EXCEPT ![w] = [@ EXCEPT !.step = "done",
                                                           !.result = "FAILED"]]
          /\ UNCHANGED cloud
    /\ UNCHANGED <<zkBuilds, zkUploads, files, request, builder, cleaner, config,
                   bounds>>

(* The post-upload hook fails: deleteImage, called without the image's id, *)
(* raises, and the image stays at the provider.                            *)
UploadHookFails(w) ==
    /\ uploader[w].step = "uploading" /\ uploader[w].build \in files[Host[w]]
    /\ cloud' = cloud \cup {uploader[w].id}
    /\ uploader' = [uploader EXCEPT ![w] = [@ EXCEPT !.step = "done",
                                                     !.result = "FAILED"]]
    /\ UNCHANGED <<zkBuilds, zkUploads, files, request, builder, cleaner, config,
                   bounds>>

(* No file has the provider's format: _uploadImage raises, and the record  *)
(* stays as it is.                                                         *)
UploadRaises(w) ==
    /\ uploader[w].step = "uploading"
    /\ ReleaseUpload(w, uploader[w].build)
    /\ UploaderDone(w)
    /\ UNCHANGED <<zkBuilds, upload, uploadOrder, cloud, files, request, builder,
                   cleaner, config, bounds>>

(* The result is stored, unless the record is gone (then the store raises),*)
(* and the lock released.                                                  *)
StoreUpload(w) ==
    /\ uploader[w].step = "done"
    /\ LET u == uploader[w].id
       IN  IF upload[u].state = "absent"
           THEN UNCHANGED <<upload, uploadOrder>>
           ELSE SetUpload(u, [upload[u] EXCEPT !.state = uploader[w].result,
                                               !.ext = (uploader[w].result = "READY")])
    /\ ReleaseUpload(w, uploader[w].build)
    /\ UploaderDone(w)
    /\ UNCHANGED <<zkBuilds, cloud, files, request, builder, cleaner, config, bounds>>
----------------------------------------------------------------------------
(* CleanupWorker *)

CleanerGoes(c, step) == cleaner' = [cleaner EXCEPT ![c].step = step]
CleanerIn(c, step) == cleaner[c].step = step
OnlyCleaner == UNCHANGED <<zkBuilds, zkUploads, cloud, files, request, builder,
                           uploader, config, bounds>>
Unprocessed == UNCHANGED <<buildLock, uploadLock, files, request, builder, uploader,
                           config, bounds>>

(* _buildUploadRecencyTable: the two most recent READY uploads to each     *)
(* provider, of builds that are READY.                                     *)
RecentUploads ==
    UNION {LastTwo(uploadOrder,
                   {u \in Uploads : /\ upload[u].state = "READY"
                                    /\ upload[u].provider = q
                                    /\ build[upload[u].build] = "READY"}) :
           q \in Providers}

StartPass(c) ==
    /\ CleanerIn(c, "idle")
    /\ cleaner' = [cleaner EXCEPT ![c] = [@ EXCEPT !.step = "table",
                                                   !.recent = RecentUploads]]
    /\ OnlyCleaner

(* _cleanupImage reads the builds once for the pass and keeps the two      *)
(* newest READY ones.  A record that cannot be read ends it: when they are *)
(* sorted, or, with the diskimage gone, when it is that build's turn.      *)
ListBuilds(c) ==
    /\ CleanerIn(c, "table")
    /\ IF config[c]["clean"] # None /\ \E i \in Builds : build[i] = "blank"
       THEN CleanerGoes(c, "local")
       ELSE cleaner' = [cleaner EXCEPT ![c] =
                          [@ EXCEPT !.step = "list", !.snap = build,
                             !.todo = {i \in Builds : build[i] # "absent"},
                             !.keep = IF config[c]["clean"] = None THEN {}
                                      ELSE LatestBuilds]]
    /\ OnlyCleaner

(* The uploads of the next build: first those that are obsolete or cruft.  *)
NextBuild(c) ==
    /\ CleanerIn(c, "list") /\ cleaner[c].cur = None
    /\ \/ /\ cleaner[c].todo = {} \/ \E i \in cleaner[c].todo : cleaner[c].snap[i] = "blank"
          /\ CleanerGoes(c, "local")
       \/ \E i \in cleaner[c].todo :
             /\ cleaner[c].snap[i] # "blank"
             /\ cleaner' = [cleaner EXCEPT ![c] =
                              [cleaner[c] EXCEPT !.cur = i, !.stage = "current",
                                    !.todo = @ \ {i}, !.uploads = UploadsOf(i)]]
    /\ OnlyCleaner

Deletable(c, u) ==
    LET q == upload[u].provider
        i == cleaner[c].cur
    IN  IF cleaner[c].stage = "current"
        THEN \/ q \notin Wanted(c, "clean")
             \/ i \in cleaner[c].keep
                /\ upload[u].state \in {"UPLOADING", "DELETING", "FAILED"}
        ELSE u \notin cleaner[c].recent

(* An upload is read, and what it is then decides what is done with it.    *)
ReadUpload(c, u) ==
    /\ CleanerIn(c, "list") /\ u \in cleaner[c].uploads
    /\ LET rest == [cleaner[c] EXCEPT !.uploads = @ \ {u}]
           take == /\ upload[u].build = cleaner[c].cur
                   /\ upload[u].state # "absent" /\ Deletable(c, u)
       IN  cleaner' = [cleaner EXCEPT ![c] =
              IF ~take THEN rest
              ELSE [rest EXCEPT !.held = u, !.seen = upload[u],
                                !.step = CASE upload[u].state = "UPLOADING" -> "check"
                                           [] upload[u].state = "DELETING" -> "cloud"
                                           [] OTHER -> "mark"]]
    /\ OnlyCleaner

Released(c) == [cleaner[c] EXCEPT !.step = "list", !.held = None, !.seen = NoUpload]

(* Cruft of a build that is kept is removed record and all, after a second *)
(* look; any other dead upload is marked.                                  *)
Cruft(c) == /\ cleaner[c].stage = "current"
            /\ cleaner[c].seen.provider \in Wanted(c, "clean")

(* _inProgressUpload: an UPLOADING upload whose lock is held is left alone.*)
CheckUpload(c) ==
    /\ CleanerIn(c, "check")
    /\ LET rec == cleaner[c].seen
       IN  IF uploadLock[<<rec.build, rec.provider>>] # None
           THEN cleaner' = [cleaner EXCEPT ![c] = Released(c)] /\ UNCHANGED <<build, buildOrder>>
           ELSE /\ CleanerGoes(c, IF Cruft(c) THEN "recheck" ELSE "mark")
                /\ Touch(rec.build)
    /\ UNCHANGED <<upload, uploadOrder, cloud>> /\ Unprocessed

(* Mutant: no second look. *)
RecheckUpload_Skipped(c) ==
    /\ CleanerIn(c, "recheck") /\ CleanerGoes(c, "drop") /\ OnlyCleaner

RecheckUpload(c) ==
    /\ CleanerIn(c, "recheck")
    /\ IF upload[cleaner[c].held].state = "UPLOADING"
       THEN CleanerGoes(c, "drop")
       ELSE cleaner' = [cleaner EXCEPT ![c] = Released(c)]
    /\ OnlyCleaner

DropUpload(c) ==
    /\ CleanerIn(c, "drop")
    /\ SetUpload(cleaner[c].held, NoUpload)
    /\ cleaner' = [cleaner EXCEPT ![c] = Released(c)]
    /\ UNCHANGED <<build, buildOrder, cloud>> /\ Unprocessed

(* Mutant: the upload is not marked before it is deleted. *)
MarkUpload_Unmarked(c) ==
    /\ CleanerIn(c, "mark") /\ CleanerGoes(c, "cloud") /\ OnlyCleaner

(* _deleteUpload stores what was read before as DELETING ... *)
MarkUpload(c) ==
    /\ CleanerIn(c, "mark")
    /\ SetUpload(cleaner[c].held, [cleaner[c].seen EXCEPT !.state = "DELETING"])
    /\ Touch(cleaner[c].seen.build)
    /\ CleanerGoes(c, "cloud")
    /\ UNCHANGED cloud /\ Unprocessed

(* ... has the provider delete the image, which may fail ... *)
DeleteImage(c) ==
    /\ CleanerIn(c, "cloud")
    /\ \/ /\ cleaner[c].seen.ext
          /\ cloud' = cloud \ {cleaner[c].held} /\ CleanerGoes(c, "erase")
       \/ /\ cleaner[c].seen.ext
          /\ cleaner' = [cleaner EXCEPT ![c] = Released(c)] /\ UNCHANGED cloud
       \/ /\ ~cleaner[c].seen.ext
          /\ CleanerGoes(c, "erase") /\ UNCHANGED cloud
    /\ UNCHANGED <<build, buildOrder, upload, uploadOrder>> /\ Unprocessed

(* ... and erases the record, under its lock. *)
EraseUpload(c) ==
    /\ CleanerIn(c, "erase")
    /\ SetUpload(cleaner[c].held, NoUpload)
    /\ Touch(cleaner[c].seen.build)
    /\ cleaner' = [cleaner EXCEPT ![c] = Released(c)]
    /\ UNCHANGED cloud /\ Unprocessed
----------------------------------------------------------------------------
(* What was read of this build is not needed again. *)
Finished(c) == [cleaner[c] EXCEPT !.step = "list", !.cur = None, !.stage = "none",
                                  !.snap[cleaner[c].cur] = "absent",
                                  !.keep = @ \ {cleaner[c].cur}]
ListedDone(c, stage) == /\ CleanerIn(c, "list") /\ cleaner[c].stage = stage
                        /\ cleaner[c].uploads = {}

(* Mutant: the state is not read again under the lock. *)
InProgressBuild_NoRecheck(i) == buildLock # None

(* _inProgressBuild: the lock is held, or the build is over since it was   *)
(* listed.                                                                 *)
InProgressBuild(i) ==
    buildLock # None \/ build[i] \notin {"absent", "blank", "BUILDING"}

(* A build that is kept, or in progress, is left; of any other build the   *)
(* uploads that are not recent are deleted.                                *)
JudgeBuild(c) ==
    /\ ListedDone(c, "current")
    /\ LET i == cleaner[c].cur
           seen == cleaner[c].snap[i]
       IN  cleaner' = [cleaner EXCEPT ![c] =
              IF /\ seen # "DELETING"
                 /\ i \in cleaner[c].keep \/ (seen = "BUILDING" /\ InProgressBuild(i))
              THEN Finished(c)
              ELSE [@ EXCEPT !.stage = "old", !.uploads = UploadsOf(i)]]
    /\ OnlyCleaner

(* The build is marked DELETING when all its uploads are, and deleted when *)
(* it has none.                                                            *)
MarkBuild(c) ==
    /\ ListedDone(c, "old")
    /\ LET i == cleaner[c].cur
           none == UploadsOf(i) = {}
           all == \A u \in UploadsOf(i) : upload[u].state = "DELETING"
       IN  /\ IF all /\ cleaner[c].snap[i] # "DELETING"
              THEN SetBuild(i, "DELETING") ELSE UNCHANGED <<build, buildOrder>>
           /\ cleaner' = [cleaner EXCEPT ![c] =
                            IF none THEN [@ EXCEPT !.step = "delete"] ELSE Finished(c)]
    /\ UNCHANGED <<upload, uploadOrder, cloud>> /\ Unprocessed

(* deleteBuild looks for uploads once more ... *)
CheckNoUploads(c) ==
    /\ CleanerIn(c, "delete")
    /\ cleaner' = [cleaner EXCEPT ![c] =
                     IF UploadsOf(@.cur) = {} THEN [@ EXCEPT !.step = "remove"]
                                              ELSE Finished(c)]
    /\ OnlyCleaner

(* ... and then deletes the record and everything below it. *)
DeleteBuild(c) ==
    /\ CleanerIn(c, "remove")
    /\ LET i == cleaner[c].cur
       IN  /\ SetBuild(i, "absent")
           /\ upload' = [u \in Uploads |-> IF upload[u].build = i THEN NoUpload
                                                                  ELSE upload[u]]
           /\ uploadOrder' = {p \in uploadOrder : upload[p[1]].build # i
                                                  /\ upload[p[2]].build # i}
           /\ uploadLock' = [x \in DOMAIN uploadLock |-> IF x[1] = i THEN None
                                                                     ELSE uploadLock[x]]
    /\ cleaner' = [cleaner EXCEPT ![c] = Finished(c)]
    /\ UNCHANGED <<buildLock, cloud, files, request, builder, uploader, config, bounds>>

(* _pruneLocalBuildFormats: the image is uploaded wherever it is wanted. *)
Prunable(c, i) ==
    /\ DeleteAfterUpload /\ build[i] = "READY" /\ config[c]["clean"] # None
    /\ \A q \in Wanted(c, "clean") : ReadyUploads(i, q) # {}

(* Mutant: files of a build that failed or is being built go as well. *)
Disposable_NotReady(c, i) == build[i] # "READY" \/ Prunable(c, i)

Disposable(c, i) ==
    build[i] \in {"absent", "blank", "DELETING"} \/ Prunable(c, i)

CleanLocalBuilds(c) ==
    /\ CleanerIn(c, "local")
    /\ files' = [files EXCEPT ![c] = {i \in @ : ~Disposable(c, i)}]
    /\ cleaner' = [cleaner EXCEPT ![c] = IdleCleaner]
    /\ UNCHANGED <<zkBuilds, zkUploads, cloud, request, builder, uploader, config,
                   bounds>>
----------------------------------------------------------------------------
(* Operators, configuration and failures *)

Happens == crashes + losses + requests + userDeletes + reconfigs < MaxEvents

SubmitBuildRequest ==
    /\ Happens /\ requests' = requests + 1
    /\ ~request /\ request' = TRUE
    /\ UNCHANGED <<zkBuilds, zkUploads, cloud, files, workers, config, crashes,
                   losses, userDeletes, reconfigs>>

UserDeletes == /\ Happens /\ userDeletes' = userDeletes + 1
               /\ UNCHANGED <<crashes, losses, requests, reconfigs>>

dib_image_delete(i) ==
    /\ build[i] \in {"READY", "FAILED"} /\ UserDeletes
    /\ SetBuild(i, "DELETING")
    /\ UNCHANGED <<buildLock, zkUploads, cloud, files, request, workers, config>>

image_delete(u) ==
    /\ upload[u].state \in {"READY", "FAILED"} /\ UserDeletes
    /\ SetUpload(u, [upload[u] EXCEPT !.state = "DELETING"])
    /\ UNCHANGED <<zkBuilds, uploadLock, cloud, files, request, workers, config>>

(* A worker reads a configuration in which a provider has lost the image   *)
(* or the diskimage has gone (which are the same to an UploadWorker; a     *)
(* BuildWorker looks at the latter only).  Each reads it in its own time,  *)
(* a CleanupWorker between two passes.                                     *)
Reconfigure(b, w) ==
    /\ Happens /\ reconfigs' = reconfigs + 1
    /\ config[b][w] # None
    /\ w = "clean" => CleanerIn(b, "idle")
    /\ \E new \in (IF w = "build" THEN {} ELSE {config[b][w] \ {q} : q \in config[b][w]})
                   \cup (IF w = "upload" THEN {} ELSE {None}) :
          config' = [config EXCEPT ![b][w] = new]
    /\ UNCHANGED <<zkBuilds, zkUploads, cloud, files, request, workers, crashes,
                   losses, requests, userDeletes>>

Uploaders(b) == {w \in UploadWorkers : Host[w] = b}

LocksPassTo(b, holder) ==
    /\ buildLock' = IF buildLock = b THEN holder ELSE buildLock
    /\ uploadLock' = [x \in DOMAIN uploadLock |->
                         IF uploadLock[x] \in Uploaders(b) THEN holder ELSE uploadLock[x]]

(* The session is lost: the locks are gone, the workers go on, and the     *)
(* BuildWorker is told.                                                    *)
LoseSession(b) ==
    /\ Happens /\ losses' = losses + 1
    /\ LateLoss \/ builder[b].step # "built"
    /\ LocksPassTo(b, None)
    /\ builder' = [builder EXCEPT ![b].lost = (@ \/ builder[b].step = "building")]
    /\ UNCHANGED <<build, buildOrder, upload, uploadOrder, cloud, files, request, uploader,
                   cleaner, config, crashes, requests, userDeletes, reconfigs>>

(* The process dies and is started again; what it wrote to disk remains,   *)
(* and its locks do until its session expires.                             *)
Crash(b) ==
    /\ Happens /\ crashes' = crashes + 1
    /\ LocksPassTo(b, Dead)
    /\ \E left \in {{}, {builder[b].id} \ {None}} :
          files' = [files EXCEPT ![b] = @ \cup left]
    /\ \E sent \in SUBSET {uploader[w].id : w \in {v \in Uploaders(b) :
                                               uploader[v].step = "uploading"}} :
          cloud' = cloud \cup sent
    /\ builder' = [builder EXCEPT ![b] = IdleBuilder]
    /\ uploader' = [w \in UploadWorkers |-> IF Host[w] = b THEN IdleUploader ELSE uploader[w]]
    /\ cleaner' = [cleaner EXCEPT ![b] = IdleCleaner]
    /\ UNCHANGED <<build, buildOrder, upload, uploadOrder, request, config, losses,
                   requests, userDeletes, reconfigs>>

SessionExpires ==
    /\ \/ buildLock = Dead
       \/ \E x \in DOMAIN uploadLock : uploadLock[x] = Dead
    /\ buildLock' = IF buildLock = Dead THEN None ELSE buildLock
    /\ uploadLock' = [x \in DOMAIN uploadLock |-> IF uploadLock[x] = Dead THEN None
                                                                          ELSE uploadLock[x]]
    /\ UNCHANGED <<build, buildOrder, upload, uploadOrder, cloud, files, request, workers,
                   config, bounds>>
----------------------------------------------------------------------------
BuildWorkerStep(b) ==
    \/ BuildDue(b) \/ ManualDue(b) \/ SkipBuild(b)
    \/ \E i \in Builds : StartBuild(b, i)
    \/ BuildEnds(b) \/ StoreBuild(b)

UploadWorkerStep(w) ==
    \/ \E q \in Providers : FindUpload(w, q)
    \/ SkipUpload(w) \/ LockUpload(w)
    \/ \E u \in Uploads : StartUpload(w, u)
    \/ UploadEnds(w) \/ UploadHookFails(w) \/ UploadRaises(w) \/ StoreUpload(w)

CleanupWorkerStep(c) ==
    \/ StartPass(c) \/ ListBuilds(c) \/ NextBuild(c)
    \/ \E u \in Uploads : ReadUpload(c, u)
    \/ CheckUpload(c) \/ RecheckUpload(c) \/ DropUpload(c)
    \/ MarkUpload(c) \/ DeleteImage(c) \/ EraseUpload(c)
    \/ JudgeBuild(c) \/ MarkBuild(c) \/ CheckNoUploads(c) \/ DeleteBuild(c)
    \/ CleanLocalBuilds(c)

Environment ==
    \/ SubmitBuildRequest \/ SessionExpires
    \/ \E i \in Builds : dib_image_delete(i)
    \/ \E u \in Uploads : image_delete(u)
    \/ \E b \in Builders : \/ \E w \in Workers : Reconfigure(b, w)
                           \/ LoseSession(b) \/ Crash(b)

Next ==
    \/ \E b \in Builders : BuildWorkerStep(b) \/ CleanupWorkerStep(b)
    \/ \E w \in UploadWorkers : UploadWorkerStep(w)
    \/ Environment

Spec == Init /\ [][Next]_vars
----------------------------------------------------------------------------
(* Properties *)

(* As long as no operator deletes anything and no configuration changes,   *)
(* a READY build ceases to be READY only when two newer READY builds       *)
(* exist: _cleanupImage, whose list of builds may be old, keeps the        *)
(* current build and the previous one, and one that became READY since,    *)
(* and a build that lost its session (before dib ended: LateLoss) does not *)
(* become READY when the cleanup has begun to delete it.                   *)
TwoBuildsKept ==
    [][userDeletes' = 0 /\ reconfigs' = 0
       => \A i \in Builds : build[i] = "READY" /\ build'[i] # "READY"
                            => i \notin LatestBuilds]_vars

(* Neither does, without a lost session, an upload of these two builds:    *)
(* _cleanupCurrentProviderUploads takes an UPLOADING upload for dead only  *)
(* if nobody holds its lock and it is still UPLOADING.                     *)
CurrentUploadsKept ==
    [][userDeletes' = 0 /\ reconfigs' = 0 /\ losses' = 0
       => \A u \in Uploads : upload[u].state = "READY" /\ upload'[u].state # "READY"
                             => upload[u].build \notin LatestBuilds]_vars

(* A READY upload has its image at the provider: _deleteUpload marks the   *)
(* record before it deletes the image, whatever other workers do to it.    *)
ReadyUploadInCloud ==
    \A u \in Uploads : upload[u].state = "READY" => u \in cloud

(* The current build and the previous one are not lost: their files are on *)
(* a disk, or, with delete-after-upload, every provider has a READY upload *)
(* (_cleanup's and _pruneLocalBuildFormats' deletions from local disk, with*)
(* all that may meanwhile happen to the uploads).                          *)
CurrentBuildSomewhere ==
    userDeletes + reconfigs + losses = 0 =>
       \A i \in LatestBuilds :
          \/ \E b \in Builders : i \in files[b]
          \/ DeleteAfterUpload /\ \A q \in Providers : ReadyUploads(i, q) # {}

(* Every build that ZooKeeper lists has data that can be read: getBuilds   *)
(* returns ImageBuild objects, and storeImageUpload stores no upload of a  *)
(* build that does not exist.                                              *)
BuildsReadable == \A i \in Builds : build[i] # "blank"
=============================================================================
