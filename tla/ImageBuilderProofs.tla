------------------------- MODULE ImageBuilderProofs ---------------------------
(***************************************************************************)
(* Proofs about ImageBuilder: types, READY uploads that have their image,  *)
(* and current builds that keep their state, their uploads and their data. *)
(*                                                                         *)
(* The invariant has three layers.  AlwaysInv says who is at which build   *)
(* and upload and what a pass of a CleanupWorker knows, whatever happens.  *)
(* QuietInv holds until an operator deletes something or a configuration   *)
(* changes: a build that a pass has judged old is Doomed, which is to say  *)
(* not among the latest two and never to be again.  LosslessInv needs the  *)
(* locks as well, which a lost session gives up: a CleanupWorker takes an  *)
(* upload of a build that is not doomed only if no UploadWorker is at it.  *)
(***************************************************************************)
EXTENDS ImageBuilder, TLAPS

(* A BuildWorker that is at a build, with the lock or as if it had it: one *)
(* that lost it during the build will not store READY.                     *)
AtBuild(b) == builder[b].step \in {"building", "built"}
Holder(b) ==
    \/ builder[b].step = "building" /\ ~builder[b].lost
    \/ builder[b].step = "built" /\ builder[b].result = "READY"

(* A build record has at most one BuildWorker at it, which has not stored it. *)
BuilderInv(b) ==
    /\ AtBuild(b) => builder[b].id \in Builds /\ build[builder[b].id] # "READY"
    /\ builder[b].step = "built" => builder[b].result # "absent"
    /\ builder[b].lost /\ builder[b].step = "built" => builder[b].result = "FAILED"
    /\ \A o \in Builders \ {b} : AtBuild(b) /\ AtBuild(o) => builder[b].id # builder[o].id

(* An UploadWorker that is at an upload *)
AtUpload(w, u) == uploader[w].step \in {"uploading", "done"} /\ uploader[w].id = u

UploaderInv(w) ==
    LET up == uploader[w] IN
    /\ up.step # "idle" => up.build \in Builds /\ up.provider \in Providers
    /\ up.step \in {"uploading", "done"} =>
          /\ up.id \in Uploads
          /\ upload[up.id].state \in {"absent", "UPLOADING", "DELETING"}
          /\ ~upload[up.id].ext
          /\ upload[up.id].state # "absent" =>
                upload[up.id].build = up.build /\ upload[up.id].provider = up.provider
          /\ \A o \in UploadWorkers \ {w} : ~AtUpload(o, up.id)
    /\ up.step = "done" =>
          /\ up.result # "absent"
          /\ up.result = "READY" => up.id \in cloud

(* A record has its build and provider; one of a READY upload its image. *)
RecordInv(u) ==
    /\ upload[u].state = "absent" => upload[u] = NoUpload
    /\ upload[u].state # "absent" => upload[u].build \in Builds /\ upload[u].provider \in Providers
    /\ upload[u].state = "READY" => u \in cloud /\ upload[u].ext

Holding == {"check", "recheck", "drop", "mark", "cloud", "erase"}

(* Where a pass is: the build it is at is one that it has listed.          *)
PassInv(c) ==
    LET cl == cleaner[c] IN
    /\ cl.cur = None <=> cl.stage = "none"
    /\ cl.step \in {"idle", "table", "local"} => cl.cur = None
    /\ cl.step \in Holding \cup {"delete", "remove"} => cl.cur # None
    /\ cl.step \in {"delete", "remove"} => cl.stage = "old"
    /\ cl.cur # None => cl.snap[cl.cur] \notin {"absent", "blank"}
    /\ \A i \in cl.todo : cl.snap[i] # "absent" /\ i # cl.cur

(* The upload a CleanupWorker holds is the one whose record it has read.   *)
SeenInv(c) ==
    LET cl == cleaner[c] IN
    cl.step \in Holding =>
       /\ cl.held \in Uploads
       /\ cl.seen.state # "absent" /\ cl.seen.build = cl.cur /\ cl.seen.provider \in Providers
       /\ upload[cl.held].state # "absent" =>
             upload[cl.held].build = cl.cur /\ upload[cl.held].provider = cl.seen.provider
       /\ \A w \in UploadWorkers : AtUpload(w, cl.held) =>
             uploader[w].build = cl.cur /\ uploader[w].provider = cl.seen.provider
       /\ \A o \in Builders : cleaner[o].step \in Holding /\ cleaner[o].held = cl.held =>
             cleaner[o].cur = cl.cur /\ cleaner[o].seen.provider = cl.seen.provider
       /\ cl.seen.ext =>
            /\ \A w \in UploadWorkers : ~AtUpload(w, cl.held)
            /\ cl.step \in {"cloud", "erase"} => upload[cl.held].state # "READY"

(* No operator, and no change of a configuration, has interfered. *)
Undisturbed == userDeletes = 0 /\ reconfigs = 0 /\ (LateLoss => losses = 0)

ConfigInv == reconfigs = 0 => \A b \in Builders, w \in Workers : config[b][w] = Providers

(* The build is not among the latest and will not be. *)
Doomed(i) ==
    /\ i \notin LatestBuilds
    /\ \A b \in Builders : Holder(b) => builder[b].id # i

HolderInv(b) ==
    Holder(b) =>
        /\ buildLock = b /\ build[builder[b].id] = "BUILDING"
        /\ builder[b].step = "built" => builder[b].id \in files[b]

JudgedInv(c) ==
    LET cl == cleaner[c] IN
    /\ \A i \in cl.keep : cl.snap[i] = "READY"
    /\ \A i \in Builds \ cl.keep : cl.snap[i] \in {"READY", "FAILED", "DELETING"} => Doomed(i)
    /\ cl.stage = "old" => Doomed(cl.cur)

LockedInv(w) ==
    LET up == uploader[w] IN
    /\ up.step \in {"checked", "uploading", "done"} =>
          uploadLock[<<up.build, up.provider>>] = w \/ Doomed(up.build)
    /\ up.step \in {"uploading", "done"} /\ upload[up.id].state = "DELETING" => Doomed(up.build)

HeldInv(c) ==
    LET cl == cleaner[c] IN
    cl.step \in Holding \ {"check"} =>
        \/ Doomed(cl.cur)
        \/ /\ \A w \in UploadWorkers : ~AtUpload(w, cl.held)
           /\ cl.step # "recheck" => upload[cl.held].state # "READY"

(* What holds whatever happens ... *)
AlwaysInv ==
    /\ TypeOK /\ ConfigInv
    /\ \A b \in Builders : BuilderInv(b) /\ PassInv(b) /\ SeenInv(b)
    /\ \A w \in UploadWorkers : UploaderInv(w)
    /\ \A u \in Uploads : RecordInv(u)

(* ... undisturbed ...                                                     *)
QuietInv == \A b \in Builders : HolderInv(b) /\ JudgedInv(b)

(* ... and with no session lost. *)
LosslessInv ==
    /\ \A b \in Builders : HeldInv(b)
    /\ \A w \in UploadWorkers : LockedInv(w)
    /\ CurrentBuildSomewhere

IInv ==
    /\ AlwaysInv
    /\ Undisturbed => QuietInv
    /\ Undisturbed /\ losses = 0 => LosslessInv
-----------------------------------------------------------------------------
(* The fields of the records *)
LEMMA BuilderFields ==
    ASSUME TypeOK, NEW b \in Builders
    PROVE  /\ builder[b] \in BuilderRecords
           /\ builder[b].step \in {"idle", "due", "building", "built"}
           /\ builder[b].saw \in Builds \cup {None} /\ builder[b].manual \in BOOLEAN
           /\ builder[b].id \in Builds \cup {None} /\ builder[b].result \in Results
           /\ builder[b].lost \in BOOLEAN
<1>1. builder[b] \in BuilderRecords
  BY DEF TypeOK
<1> QED BY <1>1 DEF BuilderRecords

(* Likewise of an UploadWorker, *)
LEMMA UploaderFields ==
    ASSUME TypeOK, NEW w \in UploadWorkers
    PROVE  /\ uploader[w] \in UploaderRecords
           /\ uploader[w].step \in {"idle", "found", "checked", "uploading", "done"}
           /\ uploader[w].build \in Builds \cup {None}
           /\ uploader[w].provider \in Providers \cup {None}
           /\ uploader[w].id \in Uploads \cup {None} /\ uploader[w].result \in Results
<1>1. uploader[w] \in UploaderRecords
  BY DEF TypeOK
<1> QED BY <1>1 DEF UploaderRecords

(* of a CleanupWorker *)
LEMMA CleanerFields ==
    ASSUME TypeOK, NEW c \in Builders
    PROVE  /\ cleaner[c] \in CleanerRecords
           /\ cleaner[c].step \in {"idle", "table", "list", "check", "recheck", "drop",
                                   "mark", "cloud", "erase", "delete", "remove", "local"}
           /\ cleaner[c].recent \subseteq Uploads
           /\ cleaner[c].snap \in [Builds -> BuildStates]
           /\ cleaner[c].keep \subseteq Builds /\ cleaner[c].todo \subseteq Builds
           /\ cleaner[c].cur \in Builds \cup {None}
           /\ cleaner[c].stage \in {"none", "current", "old"}
           /\ cleaner[c].uploads \subseteq Uploads
           /\ cleaner[c].held \in Uploads \cup {None}
           /\ cleaner[c].seen \in UploadRecords
<1>1. cleaner[c] \in CleanerRecords
  BY DEF TypeOK
<1> QED BY <1>1 DEF CleanerRecords

(* and of an upload. *)
LEMMA UploadFields ==
    ASSUME NEW r \in UploadRecords
    PROVE  /\ r.state \in UploadStates /\ r.build \in Builds \cup {None}
           /\ r.provider \in Providers \cup {None} /\ r.ext \in BOOLEAN
BY DEF UploadRecords

(* Nothing is done yet. *)
LEMMA IdleRecords ==
    /\ NoUpload \in UploadRecords /\ IdleBuilder \in BuilderRecords
    /\ IdleUploader \in UploaderRecords /\ IdleCleaner \in CleanerRecords
<1>1. NoUpload \in UploadRecords
  BY DEF NoUpload, UploadRecords, UploadStates
<1>2. IdleBuilder \in BuilderRecords /\ IdleUploader \in UploaderRecords
  BY DEF IdleBuilder, BuilderRecords, IdleUploader, UploaderRecords, Results
<1>3. IdleCleaner \in CleanerRecords
  BY <1>1 DEF IdleCleaner, CleanerRecords, BuildStates
<1> QED BY <1>1, <1>2, <1>3
-----------------------------------------------------------------------------
(* Orders *)

(* Taking one element out, or *)
LEMMA OrderedWithout ==
    ASSUME NEW S, NEW order, Ordered(order, S), NEW x
    PROVE  Ordered(Without(order, x), S \ {x})
BY DEF Ordered, Without

(* making one the last, leaves an order, *)
LEMMA OrderedLast ==
    ASSUME NEW S, NEW order, Ordered(order, S), NEW x
    PROVE  Ordered(MadeLast(order, S, x), S \cup {x})
<1> DEFINE o == MadeLast(order, S, x)
<1>1. \A y, z : <<y, z>> \in o <=> (<<y, z>> \in order /\ x # y /\ x # z)
                                   \/ (y \in S \ {x} /\ z = x)
  BY DEF MadeLast, Without
<1>2. o \subseteq (S \cup {x}) \X (S \cup {x})
  BY DEF MadeLast, Without, Ordered
<1> SUFFICES Ordered(o, S \cup {x})
  OBVIOUS
<1> HIDE DEF o
<1>3. \A y \in S \cup {x} : <<y, y>> \notin o
  BY <1>1 DEF Ordered
<1>4. \A y, z \in S \cup {x} : y = z \/ <<y, z>> \in o \/ <<z, y>> \in o
  BY <1>1 DEF Ordered
<1>5. ASSUME NEW a \in S \cup {x}, NEW b \in S \cup {x}, NEW c \in S \cup {x},
             <<a, b>> \in o, <<b, c>> \in o
      PROVE  <<a, c>> \in o
  <2>1. a \in S \ {x} /\ b \in S \ {x} /\ <<a, b>> \in order
    BY <1>1, <1>5
  <2>2. CASE c = x
    BY <1>1, <2>1, <2>2
  <2>3. CASE c # x
    BY <1>1, <1>5, <2>1, <2>3 DEF Ordered
  <2> QED BY <2>2, <2>3
<1> QED BY <1>2, <1>3, <1>4, <1>5 DEF Ordered

(* and so does leaving only some. *)
LEMMA OrderedPart ==
    ASSUME NEW S, NEW order, Ordered(order, S), NEW T, T \subseteq S
    PROVE  Ordered({p \in order : p[1] \in T /\ p[2] \in T}, T)
BY DEF Ordered

(* What is not among the last two is not so when something comes after it, *)
(* and neither when something goes that was not among them itself.         *)
LEMMA LatestWithout ==
    ASSUME NEW S, NEW order, Ordered(order, S), NEW x, x \notin LastTwo(order, S),
           NEW y, y \notin LastTwo(order, S)
    PROVE  y \notin LastTwo(Without(order, x), S \ {x})
<1> SUFFICES ASSUME y \in S \ {x}
             PROVE  \E j, k \in S \ {x} : /\ <<y, j>> \in Without(order, x)
                                          /\ <<y, k>> \in Without(order, x) /\ j # k
  BY DEF LastTwo
<1>1. PICK j, k \in S : <<y, j>> \in order /\ <<y, k>> \in order /\ j # k
  BY DEF LastTwo
<1>2. CASE x \notin S \/ x \notin {j, k}
  BY <1>1, <1>2 DEF Without
<1>3. CASE x \in S /\ x \in {j, k}
  <2>1. PICK j1, k1 \in S : <<x, j1>> \in order /\ <<x, k1>> \in order /\ j1 # k1
    BY <1>3 DEF LastTwo
  <2>2. <<y, x>> \in order /\ j1 # x /\ k1 # x
    BY <1>1, <1>3, <2>1 DEF Ordered
  <2>3. <<y, j1>> \in order /\ <<y, k1>> \in order
    BY <1>3, <2>1, <2>2 DEF Ordered
  <2> QED BY <2>1, <2>2, <2>3 DEF Without
<1> QED BY <1>2, <1>3

(* ... (the case of something that comes after it). *)
LEMMA LatestLast ==
    ASSUME NEW S, NEW order, NEW x, x \notin S, NEW y \in S, y \notin LastTwo(order, S)
    PROVE  y \notin LastTwo(MadeLast(order, S, x), S \cup {x})
<1>1. PICK j, k \in S : <<y, j>> \in order /\ <<y, k>> \in order /\ j # k
  BY DEF LastTwo
<1>2. <<y, j>> \in MadeLast(order, S, x) /\ <<y, k>> \in MadeLast(order, S, x)
  BY <1>1 DEF MadeLast, Without
<1> QED BY <1>1, <1>2 DEF LastTwo
-----------------------------------------------------------------------------
(* What the operations on records keep *)

ReadyUps == {u \in Uploads : upload[u].state = "READY"}

BuildTypes == build \in [Builds -> BuildStates] /\ Ordered(buildOrder, ReadyBuilds)
UploadTypes == upload \in [Uploads -> UploadRecords] /\ Ordered(uploadOrder, ReadyUps)

(* Storing a build, *)
LEMMA SetBuildTypes ==
    ASSUME BuildTypes, NEW i \in Builds, NEW s \in BuildStates, SetBuild(i, s)
    PROVE  BuildTypes'
<1>1. build' = [build EXCEPT ![i] = s] /\ build' \in [Builds -> BuildStates]
  BY DEF SetBuild, BuildTypes
<1>2. CASE s = "READY"
  <2>1. ReadyBuilds' = ReadyBuilds \cup {i}
    BY <1>1, <1>2 DEF ReadyBuilds, BuildTypes
  <2> QED BY <1>1, <1>2, <2>1, OrderedLast DEF SetBuild, BuildTypes
<1>3. CASE s # "READY"
  <2>1. ReadyBuilds' = ReadyBuilds \ {i}
    BY <1>1, <1>3 DEF ReadyBuilds, BuildTypes
  <2> QED BY <1>1, <1>3, <2>1, OrderedWithout DEF SetBuild, BuildTypes
<1> QED BY <1>2, <1>3

(* creating the path of a lock below it, *)
LEMMA TouchTypes ==
    ASSUME BuildTypes, NEW i, Touch(i)
    PROVE  BuildTypes' /\ ReadyBuilds' = ReadyBuilds
<1>1. build' \in [Builds -> BuildStates]
  BY DEF Touch, BuildTypes, BuildStates
<1>2. ReadyBuilds' = ReadyBuilds
  BY DEF Touch, BuildTypes, ReadyBuilds
<1> QED BY <1>1, <1>2 DEF Touch, BuildTypes

(* and storing an upload. *)
LEMMA SetUploadTypes ==
    ASSUME UploadTypes, NEW u \in Uploads, NEW r \in UploadRecords, SetUpload(u, r)
    PROVE  UploadTypes'
<1>1. upload' = [upload EXCEPT ![u] = r] /\ upload' \in [Uploads -> UploadRecords]
  BY DEF SetUpload, UploadTypes
<1>2. CASE r.state = "READY"
  <2>1. ReadyUps' = ReadyUps \cup {u}
    BY <1>1, <1>2 DEF ReadyUps, UploadTypes
  <2> QED BY <1>1, <1>2, <2>1, OrderedLast DEF SetUpload, UploadTypes, ReadyUps
<1>3. CASE r.state # "READY"
  <2>1. ReadyUps' = ReadyUps \ {u}
    BY <1>1, <1>3 DEF ReadyUps, UploadTypes
  <2> QED BY <1>1, <1>3, <2>1, OrderedWithout DEF SetUpload, UploadTypes
<1> QED BY <1>2, <1>3
-----------------------------------------------------------------------------
(* What the steps of a worker leave alone *)

(* What a step of a BuildWorker leaves as it is, *)
LEMMA BuildWorkerLeaves ==
    ASSUME TypeOK, NEW b \in Builders, BuildWorkerStep(b)
    PROVE  /\ UNCHANGED <<zkUploads, cloud, uploader, cleaner, config, bounds>>
           /\ \A o \in Builders \ {b} : builder'[o] = builder[o] /\ files'[o] = files[o]
<1> USE DEF zkUploads, bounds
<1>1. CASE BuildDue(b) \/ ManualDue(b) \/ SkipBuild(b) \/ \E i \in Builds : StartBuild(b, i)
  BY <1>1 DEF BuildDue, ManualDue, SkipBuild, StartBuild, BuilderDone, TypeOK
<1>2. CASE BuildEnds(b)
  BY <1>2 DEF BuildEnds, TypeOK
<1>3. CASE StoreBuild(b)
  BY <1>3 DEF StoreBuild, BuilderDone, TypeOK
<1> QED BY <1>1, <1>2, <1>3 DEF BuildWorkerStep

(* what one of an UploadWorker does, *)
LEMMA UploadWorkerLeaves ==
    ASSUME TypeOK, NEW w \in UploadWorkers, UploadWorkerStep(w)
    PROVE  /\ UNCHANGED <<buildLock, buildOrder, files, request, builder, cleaner, config,
                         bounds>>
           /\ UNCHANGED build \/ Touch(uploader[w].build)
           /\ \A o \in UploadWorkers \ {w} : uploader'[o] = uploader[o]
           /\ cloud \subseteq cloud'
<1> USE DEF zkBuilds, zkUploads, bounds, UploaderDone
<1>1. CASE (\E q \in Providers : FindUpload(w, q)) \/ SkipUpload(w)
  BY <1>1 DEF FindUpload, SkipUpload, TypeOK
<1>2. CASE LockUpload(w) \/ \E u \in Uploads : StartUpload(w, u)
  BY <1>2 DEF LockUpload, StartUpload, Touch, TypeOK
<1>3. CASE UploadEnds(w) \/ UploadHookFails(w)
  BY <1>3 DEF UploadEnds, UploadHookFails, TypeOK
<1>4. CASE UploadRaises(w) \/ StoreUpload(w)
  BY <1>4 DEF UploadRaises, StoreUpload, TypeOK
<1> QED BY <1>1, <1>2, <1>3, <1>4 DEF UploadWorkerStep

(* and one of a CleanupWorker. *)
LEMMA CleanupWorkerLeaves ==
    ASSUME TypeOK, NEW c \in Builders, CleanupWorkerStep(c)
    PROVE  /\ UNCHANGED <<buildLock, request, builder, uploader, config, bounds>>
           /\ UNCHANGED files \/ CleanLocalBuilds(c)
           /\ UNCHANGED uploadLock \/ DeleteBuild(c)
           /\ UNCHANGED cloud \/ DeleteImage(c)
           /\ \A o \in Builders \ {c} : cleaner'[o] = cleaner[o]
<1> USE DEF OnlyCleaner, Unprocessed, CleanerGoes, zkBuilds, zkUploads, bounds
<1>1. CASE StartPass(c) \/ ListBuilds(c) \/ NextBuild(c)
  BY <1>1 DEF StartPass, ListBuilds, NextBuild, TypeOK
<1>2. CASE (\E u \in Uploads : ReadUpload(c, u)) \/ CheckUpload(c)
  BY <1>2 DEF ReadUpload, CheckUpload, TypeOK
<1>3. CASE RecheckUpload(c) \/ DropUpload(c) \/ MarkUpload(c)
  BY <1>3 DEF RecheckUpload, DropUpload, MarkUpload, TypeOK
<1>4. CASE DeleteImage(c) \/ EraseUpload(c)
  BY <1>4 DEF DeleteImage, EraseUpload, TypeOK
<1>5. CASE JudgeBuild(c) \/ MarkBuild(c) \/ CheckNoUploads(c)
  BY <1>5 DEF JudgeBuild, MarkBuild, CheckNoUploads, TypeOK
<1>6. CASE DeleteBuild(c) \/ CleanLocalBuilds(c)
  BY <1>6 DEF DeleteBuild, CleanLocalBuilds, TypeOK
<1> QED BY <1>1, <1>2, <1>3, <1>4, <1>5, <1>6 DEF CleanupWorkerStep
-----------------------------------------------------------------------------
(* Types *)

(* The steps of a BuildWorker, *)
LEMMA TypeBuildWorker ==
    ASSUME TypeOK, NEW b \in Builders, BuilderInv(b), BuildWorkerStep(b)
    PROVE  TypeOK'
<1> USE DEF zkUploads, bounds
<1>1. ASSUME NEW r \in BuilderRecords, NEW i \in Builds \cup {None}, NEW t \in {"READY", "FAILED"}
      PROVE  /\ [r EXCEPT !.step = "due", !.saw = i] \in BuilderRecords
             /\ [r EXCEPT !.step = "due", !.manual = TRUE] \in BuilderRecords
             /\ [r EXCEPT !.step = "building", !.id = i, !.lost = FALSE] \in BuilderRecords
             /\ [r EXCEPT !.step = "built", !.result = t] \in BuilderRecords
  BY <1>1 DEF BuilderRecords, Results
<1>2. Newest \in Builds \cup {None}
  BY DEF Newest, ReadyBuilds
<1>3. BuildTypes
  BY DEF TypeOK, BuildTypes
<1>4. UNCHANGED <<zkUploads, cloud, uploader, cleaner, config, bounds>>
  BY BuildWorkerLeaves
<1>R. ASSUME NEW r \in BuilderRecords
      PROVE  [builder EXCEPT ![b] = r] \in [Builders -> BuilderRecords]
  BY <1>R DEF TypeOK
<1>5. CASE BuildDue(b) \/ ManualDue(b) \/ SkipBuild(b)
  <2>1. \E r \in BuilderRecords : builder' = [builder EXCEPT ![b] = r]
    <3>1. CASE BuildDue(b)
      <4>1. builder' = [builder EXCEPT ![b] = [builder[b] EXCEPT !.step = "due", !.saw = Newest]]
        BY <3>1 DEF BuildDue, TypeOK
      <4> QED BY <1>1, <1>2, <4>1, BuilderFields
    <3>2. CASE ManualDue(b)
      <4>1. builder' = [builder EXCEPT ![b] = [builder[b] EXCEPT !.step = "due", !.manual = TRUE]]
        BY <3>2 DEF ManualDue, TypeOK
      <4> QED BY <1>1, <1>2, <4>1, BuilderFields
    <3>3. CASE SkipBuild(b)
      BY <3>3, IdleRecords DEF SkipBuild, BuilderDone
    <3> QED BY <1>5, <3>1, <3>2, <3>3
  <2>2. UNCHANGED <<build, buildOrder, buildLock, files, request>>
    BY <1>5 DEF BuildDue, ManualDue, SkipBuild, zkBuilds
  <2> QED BY <1>4, <1>R, <2>1, <2>2 DEF TypeOK, ReadyBuilds
<1>6. ASSUME NEW i \in Builds, StartBuild(b, i)
      PROVE  TypeOK'
  <2> DEFINE r == [builder[b] EXCEPT !.step = "building", !.id = i, !.lost = FALSE]
  <2>0. builder' = [builder EXCEPT ![b] = r]
    BY <1>6 DEF StartBuild, TypeOK
  <2>1. builder' \in [Builders -> BuilderRecords]
    BY <1>1, <1>R, <2>0, BuilderFields
  <2>2. BuildTypes'
    BY <1>3, <1>6, SetBuildTypes DEF StartBuild, BuildStates
  <2> QED BY <1>4, <1>6, <2>1, <2>2 DEF TypeOK, StartBuild, BuildTypes
<1>7. CASE BuildEnds(b)
  <2>1. PICK t \in {"READY", "FAILED"}, written \in {{}, {builder[b].id}} :
           /\ builder' = [builder EXCEPT ![b] = [@ EXCEPT !.step = "built", !.result = t]]
           /\ files' = [files EXCEPT ![b] = @ \cup written]
    BY <1>7 DEF BuildEnds
  <2> DEFINE r == [builder[b] EXCEPT !.step = "built", !.result = t]
  <2>0. builder' = [builder EXCEPT ![b] = r]
    BY <2>1 DEF TypeOK
  <2>2. builder' \in [Builders -> BuilderRecords]
    BY <1>1, <1>R, <2>0, BuilderFields
  <2>3. files' \in [Builders -> SUBSET Builds]
    BY <1>7, <2>1 DEF BuildEnds, BuilderInv, AtBuild, TypeOK
  <2> QED BY <1>4, <1>7, <2>2, <2>3 DEF TypeOK, BuildEnds, ReadyBuilds, zkBuilds
<1>8. CASE StoreBuild(b)
  <2>1. builder' \in [Builders -> BuilderRecords]
    BY <1>8, IdleRecords DEF StoreBuild, BuilderDone, TypeOK
  <2>2. builder[b].id \in Builds /\ builder[b].result \in BuildStates
    BY <1>8, BuilderFields DEF StoreBuild, BuilderInv, AtBuild, Results, BuildStates
  <2>3. BuildTypes'
    BY <1>3, <1>8, <2>2, SetBuildTypes DEF StoreBuild, BuildTypes, ReadyBuilds
  <2>4. buildLock' \in Builders \cup {Dead, None}
    BY <1>8 DEF StoreBuild, TypeOK
  <2>5. files' \in [Builders -> SUBSET Builds]
    BY <1>8 DEF StoreBuild, TypeOK
  <2>6. request' \in BOOLEAN
    BY <1>8, Zenon DEF StoreBuild, TypeOK
  <2> QED BY <1>4, <2>1, <2>3, <2>4, <2>5, <2>6 DEF TypeOK, BuildTypes
<1> QED BY <1>5, <1>6, <1>7, <1>8 DEF BuildWorkerStep

(* of an UploadWorker, *)
LEMMA TypeUploadWorker ==
    ASSUME TypeOK, NEW w \in UploadWorkers, UploaderInv(w), UploadWorkerStep(w)
    PROVE  TypeOK'
<1> USE DEF zkBuilds, bounds
<1>1. ASSUME NEW r \in UploaderRecords
      PROVE  /\ \A i \in Builds \cup {None}, q \in Providers :
                   [r EXCEPT !.step = "found", !.build = i, !.provider = q] \in UploaderRecords
             /\ [r EXCEPT !.step = "checked"] \in UploaderRecords
             /\ \A u \in Uploads : [r EXCEPT !.step = "uploading", !.id = u] \in UploaderRecords
             /\ \A t \in {"READY", "FAILED"} :
                   [r EXCEPT !.step = "done", !.result = t] \in UploaderRecords
  BY <1>1 DEF UploaderRecords, Results
<1>2. Newest \in Builds \cup {None}
  BY DEF Newest, ReadyBuilds
<1>3. BuildTypes /\ UploadTypes
  BY DEF TypeOK, BuildTypes, UploadTypes, ReadyUps
<1>4. UNCHANGED <<buildLock, files, request, builder, cleaner, config, bounds>>
  BY UploadWorkerLeaves
<1>5. BuildTypes'
  <2>1. CASE UNCHANGED <<build, buildOrder>>
    BY <1>3, <2>1 DEF BuildTypes, ReadyBuilds
  <2> QED BY <1>3, <2>1, TouchTypes, UploadWorkerLeaves
<1>6. ASSUME NEW S, NEW v \in UploadWorkers \cup {None}
      PROVE  [x \in DOMAIN uploadLock |-> IF x \in S THEN v ELSE uploadLock[x]]
                \in [Builds \X Providers -> UploadWorkers \cup {Dead, None}]
  BY <1>6 DEF TypeOK
<1>R. ASSUME NEW r \in UploaderRecords
      PROVE  [uploader EXCEPT ![w] = r] \in [UploadWorkers -> UploaderRecords]
  BY <1>R DEF TypeOK
<1>7. CASE (\E q \in Providers : FindUpload(w, q)) \/ SkipUpload(w)
  <2>1. \E r \in UploaderRecords : uploader' = [uploader EXCEPT ![w] = r]
    <3>1. ASSUME NEW q \in Providers, FindUpload(w, q)
          PROVE  \E r \in UploaderRecords : uploader' = [uploader EXCEPT ![w] = r]
      <4>1. uploader' = [uploader EXCEPT ![w] = [uploader[w] EXCEPT
                            !.step = "found", !.build = Newest, !.provider = q]]
        BY <3>1 DEF FindUpload, TypeOK
      <4> QED BY <1>1, <1>2, <4>1, UploaderFields
    <3>2. CASE SkipUpload(w)
      BY <3>2, IdleRecords DEF SkipUpload, UploaderDone
    <3> QED BY <1>7, <3>1, <3>2
  <2> QED BY <1>R, <1>7, <2>1 DEF FindUpload, SkipUpload, TypeOK, ReadyBuilds, zkUploads
<1>8. CASE LockUpload(w)
  <2>0. \/ uploader' = [uploader EXCEPT ![w] = IdleUploader]
        \/ uploader' = [uploader EXCEPT ![w] = [uploader[w] EXCEPT !.step = "checked"]]
    BY <1>8 DEF LockUpload, UploaderDone, TypeOK
  <2>c. [uploader[w] EXCEPT !.step = "checked"] \in UploaderRecords
    BY <1>1, UploaderFields
  <2>1. uploader' \in [UploadWorkers -> UploaderRecords]
    BY <1>R, <2>0, <2>c, IdleRecords
  <2>2. uploadLock' \in [Builds \X Providers -> UploadWorkers \cup {Dead, None}]
    <3>1. \/ UNCHANGED uploadLock
          \/ uploadLock' = [uploadLock EXCEPT ![<<uploader[w].build, uploader[w].provider>>] = w]
      BY <1>8 DEF LockUpload
    <3>2. uploadLock \in [Builds \X Providers -> UploadWorkers \cup {Dead, None}]
      BY DEF TypeOK
    <3> QED BY <3>1, <3>2
  <2> QED BY <1>4, <1>5, <1>8, <2>1, <2>2 DEF LockUpload, TypeOK, BuildTypes
<1>9. ASSUME NEW u \in Uploads, StartUpload(w, u)
      PROVE  TypeOK'
  <2>0. uploader' = [uploader EXCEPT ![w] =
                        [uploader[w] EXCEPT !.step = "uploading", !.id = u]]
    BY <1>9 DEF StartUpload, TypeOK
  <2>1. uploader' \in [UploadWorkers -> UploaderRecords]
    BY <1>1, <1>R, <2>0, UploaderFields
  <2>2. [state |-> "UPLOADING", build |-> uploader[w].build,
         provider |-> uploader[w].provider, ext |-> FALSE] \in UploadRecords
    BY UploaderFields DEF UploadRecords, UploadStates
  <2>3. UploadTypes'
    BY <1>3, <1>9, <2>2, SetUploadTypes DEF StartUpload
  <2> QED
    BY <1>4, <1>5, <1>9, <2>1, <2>3
       DEF StartUpload, TypeOK, BuildTypes, UploadTypes, ReadyUps
<1>10. CASE UploadEnds(w) \/ UploadHookFails(w)
  <2>0. \E t \in {"READY", "FAILED"} : uploader' =
           [uploader EXCEPT ![w] = [uploader[w] EXCEPT !.step = "done", !.result = t]]
    BY <1>10 DEF UploadEnds, UploadHookFails, TypeOK
  <2>c. \A t \in {"READY", "FAILED"} :
          [uploader[w] EXCEPT !.step = "done", !.result = t] \in UploaderRecords
    BY <1>1, UploaderFields
  <2>1. uploader' \in [UploadWorkers -> UploaderRecords]
    BY <1>R, <2>0, <2>c
  <2>2. cloud' \subseteq Uploads
    BY <1>10 DEF UploadEnds, UploadHookFails, UploaderInv, TypeOK
  <2> QED
    BY <1>10, <2>1, <2>2
       DEF UploadEnds, UploadHookFails, TypeOK, ReadyBuilds, zkUploads
<1>11. CASE UploadRaises(w) \/ StoreUpload(w)
  <2>1. uploader' \in [UploadWorkers -> UploaderRecords]
    BY <1>11, IdleRecords DEF UploadRaises, StoreUpload, UploaderDone, TypeOK
  <2>2. uploadLock' \in [Builds \X Providers -> UploadWorkers \cup {Dead, None}]
    BY <1>11 DEF UploadRaises, StoreUpload, ReleaseUpload, TypeOK
  <2>3. UploadTypes'
    <3>1. CASE UNCHANGED <<upload, uploadOrder>>
      BY <1>3, <3>1 DEF UploadTypes, ReadyUps
    <3>2. CASE StoreUpload(w) /\ ~UNCHANGED <<upload, uploadOrder>>
      <4> DEFINE u == uploader[w].id
                 r == [upload[u] EXCEPT !.state = uploader[w].result,
                                        !.ext = (uploader[w].result = "READY")]
      <4>1. u \in Uploads /\ uploader[w].result \in UploadStates /\ SetUpload(u, r)
        BY <3>2, UploaderFields DEF StoreUpload, UploaderInv, Results, UploadStates
      <4>2. ASSUME NEW v \in UploadRecords, NEW t \in UploadStates, NEW e \in BOOLEAN
            PROVE  [v EXCEPT !.state = t, !.ext = e] \in UploadRecords
        BY <4>2 DEF UploadRecords
      <4>3. r \in UploadRecords
        BY <4>1, <4>2 DEF TypeOK
      <4> QED BY <1>3, <4>1, <4>3, SetUploadTypes
    <3> QED BY <1>11, <3>1, <3>2 DEF UploadRaises
  <2> QED
    BY <1>4, <1>11, <2>1, <2>2, <2>3
       DEF UploadRaises, StoreUpload, TypeOK, UploadTypes, ReadyUps, ReadyBuilds
<1> QED BY <1>7, <1>8, <1>9, <1>10, <1>11 DEF UploadWorkerStep

CleanerSteps == {"idle", "table", "list", "check", "recheck", "drop", "mark", "cloud",
                 "erase", "delete", "remove", "local"}

(* the updates of a CleanupWorker's record, *)
LEMMA CleanerUpdates ==
    ASSUME NEW r \in CleanerRecords
    PROVE  /\ \A s \in CleanerSteps : [r EXCEPT !.step = s] \in CleanerRecords
           /\ \A U \in SUBSET Uploads :
                /\ [r EXCEPT !.step = "table", !.recent = U] \in CleanerRecords
                /\ [r EXCEPT !.stage = "old", !.uploads = U] \in CleanerRecords
           /\ \A t \in [Builds -> BuildStates], T, K \in SUBSET Builds :
                [r EXCEPT !.step = "list", !.snap = t, !.todo = T, !.keep = K]
                   \in CleanerRecords
           /\ \A i \in Builds, U \in SUBSET Uploads :
                [r EXCEPT !.cur = i, !.stage = "current", !.todo = @ \ {i}, !.uploads = U]
                   \in CleanerRecords
           /\ \A u \in Uploads, v \in UploadRecords, s \in CleanerSteps :
                [[r EXCEPT !.uploads = @ \ {u}] EXCEPT !.held = u, !.seen = v, !.step = s]
                   \in CleanerRecords
           /\ \A u : [r EXCEPT !.uploads = @ \ {u}] \in CleanerRecords
           /\ [r EXCEPT !.step = "list", !.held = None, !.seen = NoUpload] \in CleanerRecords
           /\ \A i : [r EXCEPT !.step = "list", !.cur = None, !.stage = "none",
                               !.snap[i] = "absent", !.keep = @ \ {i}] \in CleanerRecords
<1> USE DEF CleanerRecords, CleanerSteps
<1>1. \A s \in CleanerSteps : [r EXCEPT !.step = s] \in CleanerRecords
  OBVIOUS
<1>2. ASSUME NEW U \in SUBSET Uploads
      PROVE  /\ [r EXCEPT !.step = "table", !.recent = U] \in CleanerRecords
             /\ [r EXCEPT !.stage = "old", !.uploads = U] \in CleanerRecords
  OBVIOUS
<1>3. ASSUME NEW t \in [Builds -> BuildStates], NEW T \in SUBSET Builds, NEW K \in SUBSET Builds
      PROVE  [r EXCEPT !.step = "list", !.snap = t, !.todo = T, !.keep = K] \in CleanerRecords
  OBVIOUS
<1>4. ASSUME NEW i \in Builds, NEW U \in SUBSET Uploads
      PROVE  [r EXCEPT !.cur = i, !.stage = "current", !.todo = @ \ {i}, !.uploads = U]
                \in CleanerRecords
  OBVIOUS
<1>5. ASSUME NEW u
      PROVE  [r EXCEPT !.uploads = @ \ {u}] \in CleanerRecords
  OBVIOUS
<1>6. ASSUME NEW u \in Uploads, NEW v \in UploadRecords, NEW s \in CleanerSteps
      PROVE  [[r EXCEPT !.uploads = @ \ {u}] EXCEPT !.held = u, !.seen = v, !.step = s]
                \in CleanerRecords
  OBVIOUS
<1>7. [r EXCEPT !.step = "list", !.held = None, !.seen = NoUpload] \in CleanerRecords
  BY IdleRecords
<1>8. ASSUME NEW i
      PROVE  [r EXCEPT !.step = "list", !.cur = None, !.stage = "none",
                       !.snap[i] = "absent", !.keep = @ \ {i}] \in CleanerRecords
  <2>1. [r.snap EXCEPT ![i] = "absent"] \in [Builds -> BuildStates]
    BY DEF BuildStates
  <2> QED BY <2>1
<1> QED BY <1>1, <1>2, <1>3, <1>4, <1>5, <1>6, <1>7, <1>8

(* which its steps consist of, *)
LEMMA RecordOfCleaner ==
    ASSUME TypeOK, NEW c \in Builders, PassInv(c), SeenInv(c), CleanupWorkerStep(c)
    PROVE  \E r \in CleanerRecords : cleaner' = [cleaner EXCEPT ![c] = r]
<1> DEFINE Moves == \E r \in CleanerRecords : cleaner' = [cleaner EXCEPT ![c] = r]
<1> SUFFICES Moves
  OBVIOUS
<1> USE DEF CleanerSteps
<1>1. cleaner[c] \in CleanerRecords /\ IdleCleaner \in CleanerRecords
  BY CleanerFields, IdleRecords
<1>2. ASSUME NEW s \in CleanerSteps, CleanerGoes(c, s)
      PROVE  Moves
  <2>1. [cleaner[c] EXCEPT !.step = s] \in CleanerRecords
    BY <1>1, CleanerUpdates
  <2>2. cleaner' = [cleaner EXCEPT ![c] = [cleaner[c] EXCEPT !.step = s]]
    BY <1>2 DEF CleanerGoes, TypeOK
  <2> QED BY <2>1, <2>2
<1>3. ASSUME cleaner' = [cleaner EXCEPT ![c] = Released(c)]
      PROVE  Moves
  BY <1>1, <1>3, CleanerUpdates DEF Released
<1>4. Finished(c) \in CleanerRecords
  BY <1>1, CleanerUpdates DEF Finished
<1>5. CASE StartPass(c)
  <2>1. RecentUploads \in SUBSET Uploads
    BY DEF RecentUploads, LastTwo
  <2>2. [cleaner[c] EXCEPT !.step = "table", !.recent = RecentUploads] \in CleanerRecords
    BY <1>1, <2>1, CleanerUpdates
  <2>3. cleaner' = [cleaner EXCEPT ![c] =
           [cleaner[c] EXCEPT !.step = "table", !.recent = RecentUploads]]
    BY <1>5 DEF StartPass, TypeOK
  <2> QED BY <2>2, <2>3
<1>6. CASE ListBuilds(c)
  <2> DEFINE T == {i \in Builds : build[i] # "absent"}
             K == IF config[c]["clean"] = None THEN {} ELSE LatestBuilds
             r == [cleaner[c] EXCEPT !.step = "list", !.snap = build, !.todo = T, !.keep = K]
  <2>1. T \in SUBSET Builds /\ K \in SUBSET Builds /\ build \in [Builds -> BuildStates]
    BY DEF LatestBuilds, LastTwo, ReadyBuilds, TypeOK
  <2>2. r \in CleanerRecords
    BY <1>1, <2>1, CleanerUpdates
  <2>3. CleanerGoes(c, "local") \/ cleaner' = [cleaner EXCEPT ![c] = r]
    BY <1>6 DEF ListBuilds, TypeOK
  <2> QED BY <1>2, <2>2, <2>3
<1>7. CASE NextBuild(c)
  <2> DEFINE r(i) == [cleaner[c] EXCEPT !.cur = i, !.stage = "current", !.todo = @ \ {i},
                                        !.uploads = UploadsOf(i)]
  <2>1. ASSUME NEW i \in Builds
        PROVE  r(i) \in CleanerRecords
    <3>1. UploadsOf(i) \in SUBSET Uploads
      BY DEF UploadsOf
    <3> QED BY <1>1, <3>1, CleanerUpdates
  <2>2. CleanerGoes(c, "local")
        \/ \E i \in cleaner[c].todo : cleaner' = [cleaner EXCEPT ![c] = r(i)]
    BY <1>7 DEF NextBuild, TypeOK
  <2> HIDE DEF r
  <2> QED BY <1>2, <2>1, <2>2, CleanerFields
<1>8. ASSUME NEW u \in Uploads, ReadUpload(c, u)
      PROVE  Moves
  <2> DEFINE rest == [cleaner[c] EXCEPT !.uploads = @ \ {u}]
  <2>1. upload[u] \in UploadRecords
    BY DEF TypeOK
  <2>2. ASSUME NEW s \in CleanerSteps
        PROVE  [rest EXCEPT !.held = u, !.seen = upload[u], !.step = s] \in CleanerRecords
    BY <1>1, <2>1, CleanerUpdates
  <2>3. rest \in CleanerRecords
    BY <1>1, CleanerUpdates
  <2>4. \/ cleaner' = [cleaner EXCEPT ![c] = rest]
        \/ \E s \in CleanerSteps : cleaner' = [cleaner EXCEPT ![c] =
              [rest EXCEPT !.held = u, !.seen = upload[u], !.step = s]]
    BY <1>8 DEF ReadUpload
  <2> HIDE DEF rest
  <2> QED BY <2>2, <2>3, <2>4
<1>9. CASE CheckUpload(c) \/ RecheckUpload(c) \/ DropUpload(c)
  BY <1>2, <1>3, <1>9 DEF CheckUpload, RecheckUpload, DropUpload
<1>10. CASE MarkUpload(c) \/ DeleteImage(c) \/ EraseUpload(c)
  BY <1>2, <1>3, <1>10 DEF MarkUpload, DeleteImage, EraseUpload
<1>11. CASE JudgeBuild(c)
  <2>1. UploadsOf(cleaner[c].cur) \in SUBSET Uploads
    BY DEF UploadsOf
  <2> DEFINE r == [cleaner[c] EXCEPT !.stage = "old", !.uploads = UploadsOf(cleaner[c].cur)]
  <2>2. r \in CleanerRecords
    BY <1>1, <2>1, CleanerUpdates
  <2>3. cleaner' = [cleaner EXCEPT ![c] = Finished(c)] \/ cleaner' = [cleaner EXCEPT ![c] = r]
    BY <1>11 DEF JudgeBuild, TypeOK
  <2> QED BY <1>4, <2>2, <2>3
<1>12. CASE MarkBuild(c) \/ CheckNoUploads(c)
  <2> DEFINE r(s) == [cleaner[c] EXCEPT !.step = s]
  <2>1. r("delete") \in CleanerRecords /\ r("remove") \in CleanerRecords
    BY <1>1, CleanerUpdates
  <2>2. \/ cleaner' = [cleaner EXCEPT ![c] = Finished(c)]
        \/ cleaner' = [cleaner EXCEPT ![c] = r("delete")]
        \/ cleaner' = [cleaner EXCEPT ![c] = r("remove")]
    BY <1>12 DEF MarkBuild, CheckNoUploads, TypeOK
  <2> HIDE DEF r
  <2> QED BY <1>4, <2>1, <2>2
<1>13. CASE DeleteBuild(c) \/ CleanLocalBuilds(c)
  BY <1>1, <1>4, <1>13 DEF DeleteBuild, CleanLocalBuilds
<1> QED
  BY <1>5, <1>6, <1>7, <1>8, <1>9, <1>10, <1>11, <1>12, <1>13
     DEF CleanupWorkerStep

(* the steps of a CleanupWorker, *)
LEMMA TypeCleanupWorker ==
    ASSUME TypeOK, NEW c \in Builders, PassInv(c), SeenInv(c), CleanupWorkerStep(c)
    PROVE  TypeOK'
<1>1. cleaner' \in [Builders -> CleanerRecords]
  BY RecordOfCleaner DEF TypeOK
<1>2. BuildTypes /\ UploadTypes
  BY DEF TypeOK, BuildTypes, UploadTypes, ReadyUps
<1>3. UNCHANGED <<buildLock, request, builder, uploader, config, bounds>>
  BY CleanupWorkerLeaves
<1>4. files' \in [Builders -> SUBSET Builds]
  <2>1. CASE UNCHANGED files
    BY <2>1 DEF TypeOK
  <2>2. CASE CleanLocalBuilds(c)
    BY <2>2 DEF CleanLocalBuilds, TypeOK
  <2> QED BY <2>1, <2>2, CleanupWorkerLeaves
<1>5. uploadLock' \in [Builds \X Providers -> UploadWorkers \cup {Dead, None}]
  BY CleanupWorkerLeaves DEF DeleteBuild, TypeOK
<1>6. cloud' \subseteq Uploads
  BY CleanupWorkerLeaves DEF DeleteImage, TypeOK
<1>7. BuildTypes' /\ UploadTypes'
  <2> USE DEF OnlyCleaner, zkBuilds, zkUploads, CleanerIn, ListedDone
  <2>1. ASSUME UNCHANGED <<build, buildOrder>>
        PROVE  BuildTypes'
    BY <1>2, <2>1 DEF BuildTypes, ReadyBuilds
  <2>2. ASSUME UNCHANGED <<upload, uploadOrder>>
        PROVE  UploadTypes'
    BY <1>2, <2>2 DEF UploadTypes, ReadyUps
  <2>3. NoUpload \in UploadRecords
    BY IdleRecords
  <2>4. CASE StartPass(c) \/ ListBuilds(c) \/ NextBuild(c) \/ (\E u \in Uploads : ReadUpload(c, u))
    BY <2>1, <2>2, <2>4 DEF StartPass, ListBuilds, NextBuild, ReadUpload
  <2>5. CASE CheckUpload(c) \/ RecheckUpload(c) \/ DeleteImage(c)
    BY <1>2, <2>1, <2>2, <2>5, TouchTypes DEF CheckUpload, RecheckUpload, DeleteImage
  <2>6. CASE DropUpload(c)
    <3>1. cleaner[c].held \in Uploads
      BY <2>6 DEF DropUpload, SeenInv, Holding
    <3> QED BY <1>2, <2>1, <2>3, <2>6, <3>1, SetUploadTypes DEF DropUpload
  <2>7. CASE MarkUpload(c)
    <3>1. cleaner[c].held \in Uploads
      BY <2>7 DEF MarkUpload, SeenInv, Holding
    <3>2. [cleaner[c].seen EXCEPT !.state = "DELETING"] \in UploadRecords
      BY CleanerFields DEF UploadRecords, UploadStates
    <3> QED BY <1>2, <2>7, <3>1, <3>2, SetUploadTypes, TouchTypes DEF MarkUpload
  <2>8. CASE EraseUpload(c)
    <3>1. cleaner[c].held \in Uploads
      BY <2>8 DEF EraseUpload, SeenInv, Holding
    <3> QED BY <1>2, <2>3, <2>8, <3>1, SetUploadTypes, TouchTypes DEF EraseUpload
  <2>9. CASE JudgeBuild(c) \/ CheckNoUploads(c)
    BY <2>1, <2>2, <2>9 DEF JudgeBuild, CheckNoUploads
  <2>10. CASE MarkBuild(c)
    <3>1. cleaner[c].cur \in Builds
      BY <2>10, CleanerFields DEF MarkBuild, PassInv
    <3> QED BY <1>2, <2>1, <2>2, <2>10, <3>1, SetBuildTypes DEF MarkBuild, BuildStates
  <2>11. CASE DeleteBuild(c)
    <3> DEFINE i == cleaner[c].cur
    <3>1. i \in Builds
      BY <2>11, CleanerFields DEF DeleteBuild, PassInv, Holding
    <3>2. BuildTypes'
      BY <1>2, <2>11, <3>1, SetBuildTypes DEF DeleteBuild, BuildStates
    <3>3. upload' \in [Uploads -> UploadRecords]
      BY <1>2, <2>3, <2>11 DEF DeleteBuild, UploadTypes
    <3>4. ReadyUps' = {u \in ReadyUps : upload[u].build # i}
      BY <1>2, <2>11 DEF DeleteBuild, UploadTypes, ReadyUps, NoUpload
    <3>5. uploadOrder' = {p \in uploadOrder : p[1] \in ReadyUps' /\ p[2] \in ReadyUps'}
      BY <1>2, <2>11, <3>4 DEF DeleteBuild, UploadTypes, Ordered
    <3>6. Ordered(uploadOrder', ReadyUps')
      BY <1>2, <3>4, <3>5, OrderedPart DEF UploadTypes
    <3> QED BY <3>2, <3>3, <3>6 DEF UploadTypes
  <2>12. CASE CleanLocalBuilds(c)
    BY <2>1, <2>2, <2>12 DEF CleanLocalBuilds
  <2> QED
    BY <2>4, <2>5, <2>6, <2>7, <2>8, <2>9, <2>10, <2>11, <2>12
       DEF CleanupWorkerStep
<1> QED
  BY <1>1, <1>3, <1>4, <1>5, <1>6, <1>7
     DEF TypeOK, BuildTypes, UploadTypes, ReadyUps, bounds

(* The counters of events *)
LEMMA Bounds ==
    ASSUME TypeOK
    PROVE  crashes \in Nat /\ losses \in Nat /\ requests \in Nat /\ userDeletes \in Nat
           /\ reconfigs \in Nat
BY BuilderAssumption DEF TypeOK

(* An event is counted. *)
LEMMA TypeBounds ==
    ASSUME TypeOK, Happens,
           \/ crashes' = crashes + 1 /\ UNCHANGED <<losses, requests, userDeletes, reconfigs>>
           \/ losses' = losses + 1 /\ UNCHANGED <<crashes, requests, userDeletes, reconfigs>>
           \/ requests' = requests + 1 /\ UNCHANGED <<crashes, losses, userDeletes, reconfigs>>
           \/ userDeletes' = userDeletes + 1 /\ UNCHANGED <<crashes, losses, requests, reconfigs>>
           \/ reconfigs' = reconfigs + 1 /\ UNCHANGED <<crashes, losses, requests, userDeletes>>
    PROVE  {crashes, losses, requests, userDeletes, reconfigs}' \subseteq 0..MaxEvents
<1>1. {crashes, losses, requests, userDeletes, reconfigs} \subseteq 0..MaxEvents
  BY DEF TypeOK
<1>2. MaxEvents \in Nat
  BY BuilderAssumption
<1>3. /\ crashes' \in 0..MaxEvents /\ losses' \in 0..MaxEvents /\ requests' \in 0..MaxEvents
      /\ userDeletes' \in 0..MaxEvents /\ reconfigs' \in 0..MaxEvents
  BY <1>1, <1>2 DEF Happens
<1> QED BY <1>3

(* the steps of operators and failures, *)
LEMMA TypeEnvironment ==
    ASSUME TypeOK, \A b \in Builders : BuilderInv(b),
           \A w \in UploadWorkers : UploaderInv(w), Environment
    PROVE  TypeOK'
<1> USE DEF zkBuilds, zkUploads, workers
<1>1. BuildTypes /\ UploadTypes
  BY DEF TypeOK, BuildTypes, UploadTypes, ReadyUps
<1>2. ASSUME UNCHANGED <<build, buildOrder>>
      PROVE  BuildTypes'
  BY <1>1, <1>2 DEF BuildTypes, ReadyBuilds
<1>3. ASSUME UNCHANGED <<upload, uploadOrder>>
      PROVE  UploadTypes'
  BY <1>1, <1>3 DEF UploadTypes, ReadyUps
<1> USE DEF BuildTypes, UploadTypes, ReadyUps
<1>4. CASE SubmitBuildRequest
  BY <1>2, <1>3, <1>4, TypeBounds DEF SubmitBuildRequest, TypeOK
<1>5. CASE SessionExpires
  <2>1. buildLock' \in Builders \cup {Dead, None}
    BY <1>5 DEF SessionExpires, TypeOK
  <2>2. uploadLock' \in [Builds \X Providers -> UploadWorkers \cup {Dead, None}]
    BY <1>5 DEF SessionExpires, TypeOK
  <2> QED BY <1>2, <1>3, <1>5, <2>1, <2>2 DEF SessionExpires, TypeOK, bounds
<1>6. ASSUME NEW i \in Builds, dib_image_delete(i)
      PROVE  TypeOK'
  <2>1. BuildTypes'
    BY <1>1, <1>6, SetBuildTypes DEF dib_image_delete, BuildStates
  <2> QED BY <1>3, <1>6, <2>1, TypeBounds DEF dib_image_delete, UserDeletes, TypeOK
<1>7. ASSUME NEW u \in Uploads, image_delete(u)
      PROVE  TypeOK'
  <2>1. [upload[u] EXCEPT !.state = "DELETING"] \in UploadRecords
    <3>1. upload[u] \in UploadRecords
      BY DEF TypeOK
    <3> QED BY <3>1 DEF UploadRecords, UploadStates
  <2>2. UploadTypes'
    BY <1>1, <1>7, <2>1, SetUploadTypes DEF image_delete
  <2> QED BY <1>2, <1>7, <2>2, TypeBounds DEF image_delete, UserDeletes, TypeOK
<1>8. ASSUME NEW b \in Builders, NEW w \in Workers, Reconfigure(b, w)
      PROVE  TypeOK'
  <2>1. config[b][w] \in SUBSET Providers
    BY <1>8 DEF Reconfigure, TypeOK
  <2>2. PICK new \in (SUBSET Providers) \cup {None} : config' = [config EXCEPT ![b][w] = new]
    BY <1>8, <2>1 DEF Reconfigure
  <2>3. config' \in [Builders -> [Workers -> (SUBSET Providers) \cup {None}]]
    BY <2>2 DEF TypeOK
  <2> QED BY <1>2, <1>3, <1>8, <2>3, TypeBounds DEF Reconfigure, TypeOK
<1>9. ASSUME NEW b \in Builders, NEW holder \in {Dead, None}, LocksPassTo(b, holder)
      PROVE  /\ buildLock' \in Builders \cup {Dead, None}
             /\ uploadLock' \in [Builds \X Providers -> UploadWorkers \cup {Dead, None}]
  <2>1. buildLock' \in Builders \cup {Dead, None}
    BY <1>9 DEF LocksPassTo, TypeOK
  <2>2. uploadLock' \in [Builds \X Providers -> UploadWorkers \cup {Dead, None}]
    BY <1>9 DEF LocksPassTo, TypeOK
  <2> QED BY <2>1, <2>2
<1>10. ASSUME NEW b \in Builders, LoseSession(b)
       PROVE  TypeOK'
  <2>1. builder' = [builder EXCEPT ![b] =
           [builder[b] EXCEPT !.lost = (builder[b].lost \/ builder[b].step = "building")]]
    BY <1>10 DEF LoseSession, TypeOK
  <2>2. ASSUME NEW r \in BuilderRecords, NEW l \in BOOLEAN
        PROVE  [r EXCEPT !.lost = l] \in BuilderRecords
    BY <2>2 DEF BuilderRecords
  <2>3. builder' \in [Builders -> BuilderRecords]
    <3>1. (builder[b].lost \/ builder[b].step = "building") \in BOOLEAN
      BY Zenon
    <3>2. [builder[b] EXCEPT !.lost = (builder[b].lost \/ builder[b].step = "building")]
             \in BuilderRecords
      BY <2>2, <3>1, BuilderFields
    <3> QED BY <2>1, <3>2 DEF TypeOK
  <2> QED BY <1>2, <1>9, <1>10, <2>3, TypeBounds DEF LoseSession, TypeOK
<1>11. ASSUME NEW b \in Builders, Crash(b)
       PROVE  TypeOK'
  <2>1. builder' \in [Builders -> BuilderRecords]
    BY <1>11, IdleRecords DEF Crash, TypeOK
  <2>2. uploader' \in [UploadWorkers -> UploaderRecords]
    BY <1>11, IdleRecords DEF Crash, TypeOK
  <2>3. cleaner' \in [Builders -> CleanerRecords]
    BY <1>11, IdleRecords DEF Crash, TypeOK
  <2>4. files' \in [Builders -> SUBSET Builds]
    BY <1>11, BuilderFields DEF Crash, TypeOK
  <2>5. cloud' \subseteq Uploads
    <3>1. PICK sent \in SUBSET {uploader[w].id : w \in {v \in Uploaders(b) :
                                                    uploader[v].step = "uploading"}} :
             cloud' = cloud \cup sent
      BY <1>11 DEF Crash
    <3>2. ASSUME NEW w \in UploadWorkers, uploader[w].step = "uploading"
          PROVE  uploader[w].id \in Uploads
      BY <3>2 DEF UploaderInv
    <3>3. sent \subseteq Uploads
      BY <3>1, <3>2 DEF Uploaders
    <3> QED BY <3>1, <3>3 DEF TypeOK
  <2> QED
    BY <1>2, <1>3, <1>9, <1>11, <2>1, <2>2, <2>3, <2>4, <2>5, TypeBounds
       DEF Crash, TypeOK
<1> QED BY <1>4, <1>5, <1>6, <1>7, <1>8, <1>10, <1>11 DEF Environment

(* and all steps. *)
LEMMA TypeStep ==
    ASSUME TypeOK, \A b \in Builders : BuilderInv(b) /\ PassInv(b) /\ SeenInv(b),
           \A w \in UploadWorkers : UploaderInv(w), [Next]_vars
    PROVE  TypeOK'
<1>1. CASE UNCHANGED vars
  BY <1>1 DEF vars, zkBuilds, zkUploads, workers, bounds, TypeOK, ReadyBuilds
<1>2. CASE Next
  BY <1>2, TypeBuildWorker, TypeCleanupWorker, TypeUploadWorker, TypeEnvironment
     DEF Next
<1> QED BY <1>1, <1>2
-----------------------------------------------------------------------------
(* The steps that change build records *)
LEMMA BuildsStep ==
    ASSUME TypeOK, [Next]_vars
    PROVE  \/ UNCHANGED <<build, buildOrder>>
           \/ \E i : Touch(i)
           \/ \E b \in Builders, i \in Builds : StartBuild(b, i)
           \/ \E b \in Builders : StoreBuild(b)
           \/ \E c \in Builders : MarkBuild(c) /\ SetBuild(cleaner[c].cur, "DELETING")
           \/ \E c \in Builders : DeleteBuild(c) /\ SetBuild(cleaner[c].cur, "absent")
           \/ \E i \in Builds : dib_image_delete(i)
<1> USE DEF zkBuilds
<1>1. CASE UNCHANGED vars
  BY <1>1 DEF vars
<1>2. ASSUME NEW b \in Builders, BuildWorkerStep(b)
      PROVE  \/ UNCHANGED <<build, buildOrder>>
             \/ \E i \in Builds : StartBuild(b, i)
             \/ StoreBuild(b)
  BY <1>2 DEF BuildWorkerStep, BuildDue, ManualDue, SkipBuild, BuildEnds
<1>3. ASSUME NEW c \in Builders, CleanupWorkerStep(c)
      PROVE  \/ UNCHANGED <<build, buildOrder>>
             \/ \E i : Touch(i)
             \/ MarkBuild(c) /\ SetBuild(cleaner[c].cur, "DELETING")
             \/ DeleteBuild(c) /\ SetBuild(cleaner[c].cur, "absent")
  <2> USE DEF OnlyCleaner
  <2>1. CASE StartPass(c) \/ ListBuilds(c) \/ NextBuild(c) \/ \E u \in Uploads : ReadUpload(c, u)
    BY <2>1 DEF StartPass, ListBuilds, NextBuild, ReadUpload
  <2>2. CASE CheckUpload(c) \/ RecheckUpload(c) \/ DropUpload(c)
    BY <2>2 DEF CheckUpload, RecheckUpload, DropUpload
  <2>3. CASE MarkUpload(c) \/ DeleteImage(c) \/ EraseUpload(c)
    BY <2>3 DEF MarkUpload, DeleteImage, EraseUpload
  <2>4. CASE JudgeBuild(c) \/ CheckNoUploads(c) \/ CleanLocalBuilds(c)
    BY <2>4 DEF JudgeBuild, CheckNoUploads, CleanLocalBuilds
  <2>5. CASE MarkBuild(c)
    BY <2>5 DEF MarkBuild
  <2>6. CASE DeleteBuild(c)
    BY <2>6 DEF DeleteBuild
  <2> QED BY <1>3, <2>1, <2>2, <2>3, <2>4, <2>5, <2>6 DEF CleanupWorkerStep
<1>4. ASSUME NEW w \in UploadWorkers, UploadWorkerStep(w)
      PROVE  UNCHANGED <<build, buildOrder>> \/ \E i : Touch(i)
  BY <1>4, UploadWorkerLeaves
<1>5. CASE Environment
  BY <1>5
     DEF Environment, SubmitBuildRequest, SessionExpires, image_delete, Reconfigure,
         LoseSession, Crash
<1> QED BY <1>1, <1>2, <1>3, <1>4, <1>5 DEF Next

(* The steps that change an upload record *)
LEMMA UploadsStep ==
    ASSUME TypeOK, [Next]_vars
    PROVE  \/ UNCHANGED <<upload, uploadOrder>>
           \/ \E w \in UploadWorkers, u \in Uploads : StartUpload(w, u)
           \/ \E w \in UploadWorkers : StoreUpload(w) /\ upload[uploader[w].id].state # "absent"
           \/ \E c \in Builders : DropUpload(c) \/ MarkUpload(c) \/ EraseUpload(c) \/ DeleteBuild(c)
           \/ \E u \in Uploads : image_delete(u)
<1> USE DEF zkUploads
<1>1. CASE UNCHANGED vars
  BY <1>1 DEF vars
<1>2. ASSUME NEW b \in Builders, BuildWorkerStep(b)
      PROVE  UNCHANGED <<upload, uploadOrder>>
  BY <1>2, BuildWorkerLeaves
<1>3. ASSUME NEW c \in Builders, CleanupWorkerStep(c)
      PROVE  \/ UNCHANGED <<upload, uploadOrder>>
             \/ DropUpload(c) \/ MarkUpload(c) \/ EraseUpload(c) \/ DeleteBuild(c)
  <2> USE DEF OnlyCleaner
  <2>1. CASE StartPass(c) \/ ListBuilds(c) \/ NextBuild(c) \/ \E u \in Uploads : ReadUpload(c, u)
    BY <2>1 DEF StartPass, ListBuilds, NextBuild, ReadUpload
  <2>2. CASE CheckUpload(c) \/ RecheckUpload(c) \/ DeleteImage(c)
    BY <2>2 DEF CheckUpload, RecheckUpload, DeleteImage
  <2>3. CASE JudgeBuild(c) \/ CheckNoUploads(c) \/ CleanLocalBuilds(c) \/ MarkBuild(c)
    BY <2>3 DEF JudgeBuild, CheckNoUploads, CleanLocalBuilds, MarkBuild
  <2> QED BY <1>3, <2>1, <2>2, <2>3 DEF CleanupWorkerStep
<1>4. ASSUME NEW w \in UploadWorkers, UploadWorkerStep(w)
      PROVE  \/ UNCHANGED <<upload, uploadOrder>>
             \/ \E u \in Uploads : StartUpload(w, u)
             \/ StoreUpload(w) /\ upload[uploader[w].id].state # "absent"
  <2>1. CASE (\E q \in Providers : FindUpload(w, q)) \/ SkipUpload(w) \/ LockUpload(w)
    BY <2>1 DEF FindUpload, SkipUpload, LockUpload
  <2>2. CASE UploadEnds(w) \/ UploadHookFails(w) \/ UploadRaises(w)
    BY <2>2 DEF UploadEnds, UploadHookFails, UploadRaises
  <2>3. CASE StoreUpload(w)
    BY <2>3 DEF StoreUpload
  <2> QED BY <1>4, <2>1, <2>2, <2>3 DEF UploadWorkerStep
<1>5. CASE Environment
  BY <1>5
     DEF Environment, SubmitBuildRequest, SessionExpires, dib_image_delete, Reconfigure,
         LoseSession, Crash
<1> QED BY <1>1, <1>2, <1>3, <1>4, <1>5 DEF Next
-----------------------------------------------------------------------------
(* BuildWorkers *)

(* The steps that change a BuildWorker *)
LEMMA BuilderMoves ==
    ASSUME TypeOK, [Next]_vars, NEW b \in Builders
    PROVE  \/ builder'[b] = builder[b]
           \/ BuildWorkerStep(b)
           \/ LoseSession(b)
           \/ Crash(b)
<1>1. CASE UNCHANGED vars
  BY <1>1 DEF vars, workers
<1>2. ASSUME NEW o \in Builders, BuildWorkerStep(o)
      PROVE  builder'[b] = builder[b] \/ BuildWorkerStep(b)
  BY <1>2, BuildWorkerLeaves
<1>3. ASSUME NEW c \in Builders, CleanupWorkerStep(c)
      PROVE  builder'[b] = builder[b]
  BY <1>3, CleanupWorkerLeaves
<1>4. ASSUME NEW w \in UploadWorkers, UploadWorkerStep(w)
      PROVE  builder'[b] = builder[b]
  BY <1>4, UploadWorkerLeaves
<1>5. CASE Environment
  <2>1. ASSUME NEW o \in Builders, LoseSession(o)
        PROVE  builder'[b] = builder[b] \/ LoseSession(b)
    BY <2>1 DEF LoseSession, TypeOK
  <2>2. ASSUME NEW o \in Builders, Crash(o)
        PROVE  builder'[b] = builder[b] \/ Crash(b)
    BY <2>2 DEF Crash, TypeOK
  <2> QED
    BY <1>5, <2>1, <2>2
       DEF Environment, SubmitBuildRequest, SessionExpires, dib_image_delete,
           image_delete, Reconfigure, workers
<1> QED BY <1>1, <1>2, <1>3, <1>4, <1>5 DEF Next

(* What a step makes of the BuildWorker that takes it *)
LEMMA BuilderGoes ==
    ASSUME TypeOK, NEW b \in Builders, BuildWorkerStep(b) \/ LoseSession(b) \/ Crash(b)
    PROVE  \/ builder'[b].step \in {"idle", "due"}
           \/ \E i \in Builds :
                /\ StartBuild(b, i) /\ builder'[b].step = "building"
                /\ builder'[b].id = i /\ builder'[b].lost = FALSE
           \/ /\ BuildEnds(b) /\ builder'[b].step = "built"
              /\ builder'[b].id = builder[b].id /\ builder'[b].lost = builder[b].lost
              /\ builder'[b].result \in {"READY", "FAILED"}
              /\ builder[b].lost => builder'[b].result = "FAILED"
           \/ /\ LoseSession(b)
              /\ builder'[b].step = builder[b].step /\ builder'[b].id = builder[b].id
              /\ builder'[b].result = builder[b].result
              /\ builder'[b].lost <=> (builder[b].lost \/ builder[b].step = "building")
<1> USE BuilderFields
<1>1. CASE BuildDue(b) \/ ManualDue(b) \/ SkipBuild(b) \/ StoreBuild(b)
  <2>1. CASE BuildDue(b)
    BY <2>1 DEF BuildDue, TypeOK, BuilderRecords
  <2>2. CASE ManualDue(b)
    BY <2>2 DEF ManualDue, TypeOK, BuilderRecords
  <2>3. CASE SkipBuild(b) \/ StoreBuild(b)
    BY <2>3 DEF SkipBuild, StoreBuild, BuilderDone, IdleBuilder, TypeOK
  <2> QED BY <1>1, <2>1, <2>2, <2>3
<1>2. ASSUME NEW i \in Builds, StartBuild(b, i)
      PROVE  /\ builder'[b].step = "building"
             /\ builder'[b].id = i /\ builder'[b].lost = FALSE
  BY <1>2 DEF StartBuild, TypeOK, BuilderRecords
<1>3. ASSUME BuildEnds(b)
      PROVE  /\ builder'[b].step = "built"
             /\ builder'[b].id = builder[b].id /\ builder'[b].lost = builder[b].lost
             /\ builder'[b].result \in {"READY", "FAILED"}
             /\ builder[b].lost => builder'[b].result = "FAILED"
  BY <1>3 DEF BuildEnds, TypeOK, BuilderRecords
<1>4. ASSUME LoseSession(b)
      PROVE  /\ builder'[b].step = builder[b].step /\ builder'[b].id = builder[b].id
             /\ builder'[b].result = builder[b].result
             /\ builder'[b].lost <=> (builder[b].lost \/ builder[b].step = "building")
  BY <1>4 DEF LoseSession, TypeOK, BuilderRecords
<1>5. CASE Crash(b)
  BY <1>5 DEF Crash, IdleBuilder, TypeOK
<1> QED BY <1>1, <1>2, <1>3, <1>4, <1>5 DEF BuildWorkerStep

(* Only StoreBuild makes a build READY. *)
LEMMA NotReadyStays ==
    ASSUME TypeOK, [Next]_vars, NEW i \in Builds, build[i] # "READY",
           \A b \in Builders : StoreBuild(b) => builder[b].id # i
    PROVE  build'[i] # "READY"
<1>1. ASSUME NEW j, NEW s, SetBuild(j, s), j # i \/ s # "READY"
      PROVE  build'[i] # "READY"
  BY <1>1 DEF SetBuild, TypeOK
<1>2. ASSUME NEW j, Touch(j)
      PROVE  build'[i] # "READY"
  BY <1>2 DEF Touch, TypeOK
<1>3. ASSUME NEW b \in Builders, StoreBuild(b)
      PROVE  build'[i] # "READY"
  BY <1>1, <1>3 DEF StoreBuild
<1>4. CASE UNCHANGED <<build, buildOrder>>
  BY <1>4
<1> QED BY <1>1, <1>2, <1>3, <1>4, BuildsStep DEF StartBuild, dib_image_delete

(* BuilderInv: StartBuild takes a new id, and only StoreBuild stores       *)
(* READY.                                                                  *)
LEMMA BuilderStep ==
    ASSUME TypeOK, \A o \in Builders : BuilderInv(o), [Next]_vars, NEW b \in Builders
    PROVE  BuilderInv(b)'
<1> USE DEF AtBuild
(* Two BuildWorkers at work are at different builds. *)
<1>1. ASSUME NEW o \in Builders, NEW p \in Builders, o # p, AtBuild(o)', AtBuild(p)'
      PROVE  builder'[o].id # builder'[p].id
  <2>1. ASSUME NEW x \in Builders, AtBuild(x)'
        PROVE  \/ AtBuild(x) /\ builder'[x].id = builder[x].id
               \/ \E i \in Builds : StartBuild(x, i) /\ builder'[x].id = i
    <3>1. CASE builder'[x] = builder[x]
      BY <2>1, <3>1
    <3>2. CASE BuildWorkerStep(x) \/ LoseSession(x) \/ Crash(x)
      BY <2>1, <3>2, BuilderGoes DEF BuildEnds
    <3> QED BY <3>1, <3>2, BuilderMoves
  <2>2. ASSUME NEW x \in Builders, NEW y \in Builders, x # y, NEW i \in Builds,
               StartBuild(x, i)
        PROVE  builder[y].id # i /\ builder'[y] = builder[y]
    BY <2>2, BuildWorkerLeaves DEF StartBuild, FreshBuild, BuildWorkerStep
  <2>3. CASE (\E i \in Builds : StartBuild(o, i) /\ builder'[o].id = i)
             \/ (\E i \in Builds : StartBuild(p, i) /\ builder'[p].id = i)
    BY <1>1, <2>2, <2>3
  <2> QED BY <1>1, <2>1, <2>3 DEF BuilderInv
<1>2. AtBuild(b)' => builder'[b].id \in Builds /\ build'[builder'[b].id] # "READY"
  <2> SUFFICES ASSUME AtBuild(b)'
               PROVE  builder'[b].id \in Builds /\ build'[builder'[b].id] # "READY"
    OBVIOUS
  <2>1. CASE AtBuild(b) /\ builder'[b].id = builder[b].id
    <3>1. ASSUME NEW o \in Builders, StoreBuild(o)
          PROVE  builder[o].id # builder[b].id
      <4>1. AtBuild(o) /\ ~AtBuild(o)'
        BY <3>1 DEF StoreBuild, BuilderDone, IdleBuilder, TypeOK
      <4> QED BY <2>1, <4>1 DEF BuilderInv
    <3> QED BY <2>1, <3>1, NotReadyStays DEF BuilderInv
  <2>2. CASE \E i \in Builds : StartBuild(b, i) /\ builder'[b].id = i
    BY <2>2 DEF StartBuild, SetBuild, TypeOK
  <2>3. CASE builder'[b] = builder[b]
    BY <2>1, <2>3
  <2> QED BY <2>1, <2>2, <2>3, BuilderMoves, BuilderGoes DEF BuildEnds
<1>3. /\ builder'[b].step = "built" => builder'[b].result # "absent"
      /\ builder'[b].lost /\ builder'[b].step = "built" => builder'[b].result = "FAILED"
  <2>1. CASE builder'[b] = builder[b]
    BY <2>1 DEF BuilderInv
  <2>2. CASE BuildWorkerStep(b) \/ LoseSession(b) \/ Crash(b)
    BY <2>2, BuilderGoes DEF BuilderInv
  <2> QED BY <2>1, <2>2, BuilderMoves
<1> QED BY <1>1, <1>2, <1>3 DEF BuilderInv
-----------------------------------------------------------------------------
(* UploadWorkers and upload records *)

(* The steps that change an UploadWorker *)
LEMMA UploaderMoves ==
    ASSUME TypeOK, [Next]_vars, NEW w \in UploadWorkers
    PROVE  uploader'[w] = uploader[w] \/ UploadWorkerStep(w) \/ uploader'[w] = IdleUploader
<1>1. CASE UNCHANGED vars
  BY <1>1 DEF vars, workers
<1>2. ASSUME NEW b \in Builders, BuildWorkerStep(b)
      PROVE  uploader'[w] = uploader[w]
  BY <1>2, BuildWorkerLeaves
<1>3. ASSUME NEW c \in Builders, CleanupWorkerStep(c)
      PROVE  uploader'[w] = uploader[w]
  BY <1>3, CleanupWorkerLeaves
<1>4. ASSUME NEW v \in UploadWorkers, UploadWorkerStep(v)
      PROVE  uploader'[w] = uploader[w] \/ UploadWorkerStep(w)
  BY <1>4, UploadWorkerLeaves
<1>5. CASE Environment
  BY <1>5
     DEF Environment, SubmitBuildRequest, SessionExpires, dib_image_delete,
         image_delete, Reconfigure, LoseSession, Crash, workers
<1> QED BY <1>1, <1>2, <1>3, <1>4, <1>5 DEF Next

(* What a step makes of the UploadWorker that takes it *)
LEMMA UploaderGoes ==
    ASSUME TypeOK, NEW w \in UploadWorkers, UploadWorkerStep(w)
    PROVE  \/ uploader'[w].step = "idle"
           \/ /\ uploader'[w].step = "found"
              /\ uploader'[w].build \in Builds /\ uploader'[w].provider \in Providers
           \/ /\ uploader'[w].build = uploader[w].build
              /\ uploader'[w].provider = uploader[w].provider
              /\ \/ LockUpload(w) /\ uploader'[w].step = "checked"
                    /\ uploadLock' = [uploadLock EXCEPT
                                        ![<<uploader[w].build, uploader[w].provider>>] = w]
                 \/ \E u \in Uploads : /\ StartUpload(w, u)
                                       /\ uploader'[w].step = "uploading"
                                       /\ uploader'[w].id = u
                 \/ /\ UploadEnds(w) \/ UploadHookFails(w)
                    /\ uploader[w].step = "uploading" /\ uploader'[w].step = "done"
                    /\ uploader'[w].id = uploader[w].id
                    /\ uploader'[w].result \in {"READY", "FAILED"}
                    /\ uploader'[w].result = "READY" => uploader'[w].id \in cloud'
<1> USE UploaderFields
<1>1. ASSUME NEW q \in Providers, FindUpload(w, q)
      PROVE  /\ uploader'[w].step = "found"
             /\ uploader'[w].build \in Builds /\ uploader'[w].provider \in Providers
  <2>1. Newest \in Builds
    BY <1>1 DEF FindUpload, Newest, ReadyBuilds
  <2> QED BY <1>1, <2>1 DEF FindUpload, TypeOK, UploaderRecords
<1>2. CASE SkipUpload(w) \/ UploadRaises(w) \/ StoreUpload(w)
  BY <1>2 DEF SkipUpload, UploadRaises, StoreUpload, UploaderDone, IdleUploader, TypeOK
<1>3. CASE LockUpload(w)
  BY <1>3 DEF LockUpload, UploaderDone, IdleUploader, TypeOK, UploaderRecords
<1>4. ASSUME NEW u \in Uploads, StartUpload(w, u)
      PROVE  /\ uploader'[w].build = uploader[w].build
             /\ uploader'[w].provider = uploader[w].provider
             /\ uploader'[w].step = "uploading" /\ uploader'[w].id = u
  BY <1>4 DEF StartUpload, TypeOK, UploaderRecords
<1>5. CASE UploadEnds(w)
  <2>1. PICK t \in {"READY", "FAILED"} :
           /\ uploader' = [uploader EXCEPT ![w] = [@ EXCEPT !.step = "done", !.result = t]]
           /\ t = "READY" => uploader[w].id \in cloud'
    BY <1>5 DEF UploadEnds
  <2>2. uploader'[w] = [uploader[w] EXCEPT !.step = "done", !.result = t]
    BY <2>1 DEF TypeOK
  <2>3. /\ uploader'[w].step = "done" /\ uploader'[w].id = uploader[w].id
        /\ uploader'[w].build = uploader[w].build /\ uploader'[w].result = t
        /\ uploader'[w].provider = uploader[w].provider
    BY <2>2 DEF UploaderRecords
  <2> QED BY <1>5, <2>1, <2>3 DEF UploadEnds
<1>6. CASE UploadHookFails(w)
  BY <1>6 DEF UploadHookFails, TypeOK, UploaderRecords
<1> QED BY <1>1, <1>2, <1>3, <1>4, <1>5, <1>6 DEF UploadWorkerStep

Started(w) == [state |-> "UPLOADING", build |-> uploader[w].build,
               provider |-> uploader[w].provider, ext |-> FALSE]

(* What becomes of an upload's record *)
LEMMA UploadMoves ==
    ASSUME TypeOK, \A w \in UploadWorkers : UploaderInv(w),
           \A c \in Builders : SeenInv(c), [Next]_vars,
           NEW u \in Uploads, upload'[u] # upload[u]
    PROVE  \/ \E w \in UploadWorkers : StartUpload(w, u) /\ upload'[u] = Started(w)
           \/ \E w \in UploadWorkers :
                /\ StoreUpload(w) /\ uploader[w].step = "done" /\ AtUpload(w, u)
                /\ upload[u].state # "absent" /\ upload'[u].state = uploader[w].result
                /\ upload'[u].build = upload[u].build
                /\ upload'[u].provider = upload[u].provider
                /\ upload'[u].ext = (uploader[w].result = "READY")
           \/ /\ upload'[u] = NoUpload
              /\ \E c \in Builders :
                   \/ (DropUpload(c) \/ EraseUpload(c)) /\ cleaner[c].held = u
                   \/ DeleteBuild(c) /\ upload[u].build = cleaner[c].cur
           \/ \E c \in Builders :
                /\ MarkUpload(c) /\ cleaner[c].held = u /\ upload'[u].state = "DELETING"
                /\ upload'[u].build = cleaner[c].seen.build
                /\ upload'[u].provider = cleaner[c].seen.provider
                /\ upload'[u].ext = cleaner[c].seen.ext
           \/ /\ image_delete(u) /\ upload[u].state \in {"READY", "FAILED"}
              /\ upload'[u].state = "DELETING" /\ upload'[u].build = upload[u].build
              /\ upload'[u].provider = upload[u].provider /\ upload'[u].ext = upload[u].ext
<1>1. ASSUME NEW v \in Uploads, NEW r, SetUpload(v, r)
      PROVE  v = u /\ upload'[u] = r
  BY <1>1 DEF SetUpload, TypeOK
<1>2. ASSUME NEW w \in UploadWorkers, NEW v \in Uploads, StartUpload(w, v)
      PROVE  StartUpload(w, u) /\ upload'[u] = Started(w)
  BY <1>1, <1>2 DEF StartUpload, Started
<1>3. ASSUME NEW w \in UploadWorkers, StoreUpload(w), upload[uploader[w].id].state # "absent"
      PROVE  /\ uploader[w].step = "done" /\ AtUpload(w, u)
             /\ upload[u].state # "absent" /\ upload'[u].state = uploader[w].result
             /\ upload'[u].build = upload[u].build
             /\ upload'[u].provider = upload[u].provider
             /\ upload'[u].ext = (uploader[w].result = "READY")
  <2> DEFINE v == uploader[w].id
             r == [upload[v] EXCEPT !.state = uploader[w].result,
                                    !.ext = (uploader[w].result = "READY")]
  <2>1. v \in Uploads /\ SetUpload(v, r) /\ uploader[w].step = "done"
    BY <1>3 DEF StoreUpload, UploaderInv
  <2>2. v = u /\ upload'[u] = r
    BY <1>1, <2>1
  <2>3. upload[u] \in UploadRecords
    BY DEF TypeOK
  <2> QED BY <1>3, <2>1, <2>2, <2>3 DEF AtUpload, UploadRecords
<1>4. ASSUME NEW c \in Builders, DropUpload(c) \/ EraseUpload(c)
      PROVE  upload'[u] = NoUpload /\ cleaner[c].held = u
  <2>1. cleaner[c].held \in Uploads
    BY <1>4 DEF DropUpload, EraseUpload, CleanerIn, SeenInv, Holding
  <2> QED BY <1>1, <1>4, <2>1 DEF DropUpload, EraseUpload
<1>5. ASSUME NEW c \in Builders, DeleteBuild(c)
      PROVE  upload'[u] = NoUpload /\ upload[u].build = cleaner[c].cur
  BY <1>5 DEF DeleteBuild
<1>6. ASSUME NEW c \in Builders, MarkUpload(c)
      PROVE  /\ cleaner[c].held = u /\ upload'[u].state = "DELETING"
             /\ upload'[u].build = cleaner[c].seen.build
             /\ upload'[u].provider = cleaner[c].seen.provider
             /\ upload'[u].ext = cleaner[c].seen.ext
  <2>1. cleaner[c].held \in Uploads
    BY <1>6 DEF MarkUpload, CleanerIn, SeenInv, Holding
  <2>2. cleaner[c].seen \in UploadRecords
    BY CleanerFields
  <2> QED BY <1>1, <1>6, <2>1, <2>2 DEF MarkUpload, UploadRecords
<1>7. ASSUME NEW v \in Uploads, image_delete(v)
      PROVE  /\ image_delete(u) /\ upload[u].state \in {"READY", "FAILED"}
             /\ upload'[u].state = "DELETING" /\ upload'[u].build = upload[u].build
             /\ upload'[u].provider = upload[u].provider /\ upload'[u].ext = upload[u].ext
  <2>1. upload[v] \in UploadRecords
    BY DEF TypeOK
  <2> QED BY <1>1, <1>7, <2>1 DEF image_delete, UploadRecords
<1> QED BY <1>2, <1>3, <1>4, <1>5, <1>6, <1>7, UploadsStep

(* An UploadWorker is at an upload since it began it. *)
LEMMA AtUploadMoves ==
    ASSUME TypeOK, [Next]_vars, NEW w \in UploadWorkers, NEW u, AtUpload(w, u)'
    PROVE  \/ StartUpload(w, u) /\ u \in Uploads
           \/ /\ AtUpload(w, u) /\ ~StoreUpload(w) /\ uploader[w].step # "idle"
              /\ uploader'[w].build = uploader[w].build
              /\ uploader'[w].provider = uploader[w].provider
<1> USE DEF AtUpload
<1>1. ~StoreUpload(w) \/ ~AtUpload(w, u)'
  BY DEF StoreUpload, UploaderDone, IdleUploader, TypeOK
<1>2. CASE uploader'[w] = uploader[w]
  BY <1>1, <1>2
<1>3. CASE UploadWorkerStep(w)
  BY <1>1, <1>3, UploaderGoes
<1>4. CASE uploader'[w] = IdleUploader
  BY <1>4 DEF IdleUploader
<1> QED BY <1>2, <1>3, <1>4, UploaderMoves

(* No one else is at an upload that is begun. *)
LEMMA FreshToUploaders ==
    ASSUME TypeOK, NEW w \in UploadWorkers, NEW u \in Uploads, StartUpload(w, u),
           NEW o \in UploadWorkers
    PROVE  ~AtUpload(o, u) /\ (o # w => ~AtUpload(o, u)')
<1>1. UploadWorkerStep(w)
  BY DEF UploadWorkerStep
<1>2. uploader[o].id # u
  BY DEF StartUpload, FreshUpload
<1> QED BY <1>1, <1>2, UploadWorkerLeaves DEF AtUpload

(* Only DeleteImage deletes an image. *)
LEMMA CloudStays ==
    ASSUME TypeOK, [Next]_vars, NEW u \in cloud, u \notin cloud'
    PROVE  \E c \in Builders : /\ DeleteImage(c) /\ cleaner[c].held = u /\ cleaner[c].seen.ext
                               /\ cleaner[c].step = "cloud"
<1>1. ASSUME NEW c \in Builders, CleanupWorkerStep(c)
      PROVE  /\ DeleteImage(c) /\ cleaner[c].held = u /\ cleaner[c].seen.ext
             /\ cleaner[c].step = "cloud"
  BY <1>1, CleanupWorkerLeaves DEF DeleteImage, CleanerIn
<1>2. ASSUME Environment
      PROVE  FALSE
  BY <1>2
     DEF Environment, SubmitBuildRequest, SessionExpires, dib_image_delete,
         image_delete, Reconfigure, LoseSession, Crash
<1>3. ASSUME UNCHANGED vars
      PROVE  FALSE
  BY <1>3 DEF vars
<1> QED BY <1>1, <1>2, <1>3, BuildWorkerLeaves, UploadWorkerLeaves DEF Next

(* UploaderInv: no one else stores a result for the upload it is at. *)
LEMMA UploaderStep ==
    ASSUME TypeOK, \A v \in UploadWorkers : UploaderInv(v), \A c \in Builders : SeenInv(c),
           [Next]_vars, NEW w \in UploadWorkers
    PROVE  UploaderInv(w)'
<1>0. PICK u : u = uploader'[w].id
  OBVIOUS
<1>1. uploader'[w].step # "idle" =>
         uploader'[w].build \in Builds /\ uploader'[w].provider \in Providers
  <2>1. CASE uploader'[w] = uploader[w]
    BY <2>1 DEF UploaderInv
  <2>2. CASE UploadWorkerStep(w)
    BY <2>2, UploaderGoes DEF UploaderInv, LockUpload, StartUpload
  <2>3. CASE uploader'[w] = IdleUploader
    BY <2>3 DEF IdleUploader
  <2> QED BY <2>1, <2>2, <2>3, UploaderMoves
<1>2. ASSUME uploader'[w].step \in {"uploading", "done"}
      PROVE  /\ u \in Uploads
             /\ upload'[u].state \in {"absent", "UPLOADING", "DELETING"}
             /\ ~upload'[u].ext
             /\ upload'[u].state # "absent" =>
                   upload'[u].build = uploader'[w].build
                   /\ upload'[u].provider = uploader'[w].provider
             /\ \A o \in UploadWorkers \ {w} : ~AtUpload(o, u)'
  <2>1. AtUpload(w, u)'
    BY <1>0, <1>2 DEF AtUpload
  <2>2. CASE StartUpload(w, u) /\ u \in Uploads
    <3>1. upload'[u] = Started(w)
      BY <2>2 DEF StartUpload, SetUpload, Started, TypeOK
    <3>2. uploader'[w].build = uploader[w].build /\ uploader'[w].provider = uploader[w].provider
      BY <2>2, UploaderFields DEF StartUpload, TypeOK, UploaderRecords
    <3> QED BY <2>2, <3>1, <3>2, FreshToUploaders DEF Started
  <2>3. CASE /\ AtUpload(w, u) /\ ~StoreUpload(w) /\ uploader[w].step # "idle"
             /\ uploader'[w].build = uploader[w].build
             /\ uploader'[w].provider = uploader[w].provider
    <3>1. /\ u \in Uploads
          /\ upload[u].state \in {"absent", "UPLOADING", "DELETING"} /\ ~upload[u].ext
          /\ upload[u].state # "absent" =>
                upload[u].build = uploader[w].build
                /\ upload[u].provider = uploader[w].provider
          /\ \A o \in UploadWorkers \ {w} : ~AtUpload(o, u)
      BY <2>3 DEF UploaderInv, AtUpload
    <3>2. \A o \in UploadWorkers \ {w} : ~AtUpload(o, u)'
      BY <2>3, <3>1, AtUploadMoves, FreshToUploaders
    <3>3. CASE upload'[u] = upload[u]
      BY <2>3, <3>1, <3>2, <3>3
    <3>4. CASE upload'[u] # upload[u]
      <4>1. ~\E v \in UploadWorkers : StartUpload(v, u)
        BY <2>3, <3>1, FreshToUploaders
      <4>2. ~\E v \in UploadWorkers : StoreUpload(v) /\ AtUpload(v, u)
        BY <2>3, <3>1
      <4>3. CASE upload'[u] = NoUpload
        BY <3>1, <3>2, <4>3 DEF NoUpload
      <4>4. ASSUME NEW c \in Builders, MarkUpload(c), cleaner[c].held = u
            PROVE  /\ ~cleaner[c].seen.ext
                   /\ cleaner[c].seen.build = uploader[w].build
                   /\ cleaner[c].seen.provider = uploader[w].provider
        BY <2>3, <4>4 DEF SeenInv, Holding, MarkUpload, CleanerIn
      <4> QED BY <2>3, <3>1, <3>2, <3>4, <4>1, <4>2, <4>3, <4>4, UploadMoves
    <3> QED BY <3>3, <3>4
  <2> QED BY <2>1, <2>2, <2>3, AtUploadMoves
<1>3. ASSUME uploader'[w].step = "done"
      PROVE  uploader'[w].result # "absent" /\ (uploader'[w].result = "READY" => u \in cloud')
  <2>1. CASE uploader'[w] = uploader[w]
    <3>1. AtUpload(w, u) /\ (uploader[w].result = "READY" => u \in cloud)
          /\ uploader[w].result # "absent"
      BY <1>0, <1>3, <2>1 DEF UploaderInv, AtUpload
    <3>2. ASSUME u \in cloud, u \notin cloud'
          PROVE  FALSE
      <4>1. PICK c \in Builders : /\ cleaner[c].held = u /\ cleaner[c].seen.ext
                                  /\ cleaner[c].step = "cloud"
        BY <3>2, CloudStays
      <4> QED BY <3>1, <4>1 DEF SeenInv, Holding
    <3> QED BY <2>1, <3>1, <3>2
  <2>2. CASE UploadWorkerStep(w)
    BY <1>0, <1>3, <2>2, UploaderGoes
  <2>3. CASE uploader'[w] = IdleUploader
    BY <1>3, <2>3 DEF IdleUploader
  <2> QED BY <2>1, <2>2, <2>3, UploaderMoves
<1> QED BY <1>0, <1>1, <1>2, <1>3 DEF UploaderInv

(* RecordInv: a READY record is written after the upload, and DeleteImage  *)
(* comes after the mark.                                                   *)
LEMMA RecordStep ==
    ASSUME TypeOK, \A v \in UploadWorkers : UploaderInv(v),
           \A c \in Builders : PassInv(c) /\ SeenInv(c), [Next]_vars,
           NEW u \in Uploads, RecordInv(u)
    PROVE  RecordInv(u)'
<1>1. CASE upload'[u] = upload[u]
  <2>1. ASSUME upload[u].state = "READY", u \notin cloud'
        PROVE  FALSE
    <3>1. u \in cloud
      BY <2>1 DEF RecordInv
    <3>2. PICK c \in Builders : /\ cleaner[c].held = u /\ cleaner[c].seen.ext
                                /\ cleaner[c].step = "cloud"
      BY <2>1, <3>1, CloudStays
    <3> QED BY <2>1, <3>2 DEF SeenInv, Holding
  <2> QED BY <1>1, <2>1 DEF RecordInv, NoUpload
<1>2. CASE upload'[u] # upload[u]
  <2>1. ASSUME NEW w \in UploadWorkers, StartUpload(w, u), upload'[u] = Started(w)
        PROVE  RecordInv(u)'
    BY <2>1 DEF StartUpload, UploaderInv, RecordInv, Started
  <2>2. ASSUME NEW w \in UploadWorkers, StoreUpload(w), uploader[w].step = "done",
               AtUpload(w, u), upload[u].state # "absent",
               upload'[u].state = uploader[w].result,
               upload'[u].build = upload[u].build, upload'[u].provider = upload[u].provider,
               upload'[u].ext = (uploader[w].result = "READY")
        PROVE  RecordInv(u)'
    <3>1. cloud' = cloud
      BY <2>2 DEF StoreUpload
    <3> QED BY <2>2, <3>1 DEF RecordInv, UploaderInv, AtUpload
  <2>3. CASE upload'[u] = NoUpload
    BY <2>3 DEF RecordInv, NoUpload
  <2>4. ASSUME NEW c \in Builders, MarkUpload(c), upload'[u].state = "DELETING",
               upload'[u].build = cleaner[c].seen.build,
               upload'[u].provider = cleaner[c].seen.provider
        PROVE  RecordInv(u)'
    <3>1. cleaner[c].seen.build \in Builds /\ cleaner[c].seen.provider \in Providers
      BY <2>4, CleanerFields DEF PassInv, SeenInv, Holding, MarkUpload, CleanerIn
    <3> QED BY <2>4, <3>1 DEF RecordInv
  <2>5. ASSUME upload[u].state \in {"READY", "FAILED"},
               upload'[u].state = "DELETING", upload'[u].build = upload[u].build,
               upload'[u].provider = upload[u].provider
        PROVE  RecordInv(u)'
    BY <2>5 DEF RecordInv
  <2> QED BY <1>2, <2>1, <2>2, <2>3, <2>4, <2>5, UploadMoves
<1> QED BY <1>1, <1>2
-----------------------------------------------------------------------------
(* CleanupWorkers *)

(* The steps that change a CleanupWorker *)
LEMMA CleanerMoves ==
    ASSUME TypeOK, [Next]_vars, NEW c \in Builders
    PROVE  cleaner'[c] = cleaner[c] \/ CleanupWorkerStep(c) \/ cleaner'[c] = IdleCleaner
<1>1. CASE UNCHANGED vars
  BY <1>1 DEF vars, workers
<1>2. ASSUME NEW b \in Builders, BuildWorkerStep(b)
      PROVE  cleaner'[c] = cleaner[c]
  BY <1>2, BuildWorkerLeaves
<1>3. ASSUME NEW d \in Builders, CleanupWorkerStep(d)
      PROVE  cleaner'[c] = cleaner[c] \/ CleanupWorkerStep(c)
  BY <1>3, CleanupWorkerLeaves
<1>4. ASSUME NEW v \in UploadWorkers, UploadWorkerStep(v)
      PROVE  cleaner'[c] = cleaner[c]
  BY <1>4, UploadWorkerLeaves
<1>5. CASE Environment
  <2>1. ASSUME NEW b \in Builders, Crash(b)
        PROVE  cleaner'[c] = cleaner[c] \/ cleaner'[c] = IdleCleaner
    BY <2>1 DEF Crash, TypeOK
  <2> QED
    BY <1>5, <2>1
       DEF Environment, SubmitBuildRequest, SessionExpires, dib_image_delete,
           image_delete, Reconfigure, LoseSession, workers
<1> QED BY <1>1, <1>2, <1>3, <1>4, <1>5 DEF Next

SamePass(c) ==
    /\ cleaner'[c].cur = cleaner[c].cur /\ cleaner'[c].stage = cleaner[c].stage
    /\ cleaner'[c].snap = cleaner[c].snap /\ cleaner'[c].keep = cleaner[c].keep
    /\ cleaner'[c].todo = cleaner[c].todo

(* To go to another step, *)
LEMMA GoesSamePass ==
    ASSUME TypeOK, NEW c \in Builders, NEW s, CleanerGoes(c, s)
    PROVE  /\ SamePass(c) /\ cleaner'[c].step = s
           /\ cleaner'[c].held = cleaner[c].held /\ cleaner'[c].seen = cleaner[c].seen
<1>1. cleaner'[c] = [cleaner[c] EXCEPT !.step = s]
  BY DEF CleanerGoes, TypeOK
<1> QED BY <1>1, CleanerFields DEF SamePass, CleanerRecords

(* or to let an upload go, changes nothing else in a pass. *)
LEMMA ReleasedSamePass ==
    ASSUME TypeOK, NEW c \in Builders, cleaner' = [cleaner EXCEPT ![c] = Released(c)]
    PROVE  SamePass(c) /\ cleaner'[c].step = "list"
<1>1. cleaner'[c] = [cleaner[c] EXCEPT !.step = "list", !.held = None, !.seen = NoUpload]
  BY DEF Released, TypeOK
<1>2. cleaner[c] \in CleanerRecords
  BY CleanerFields
<1>3. ASSUME NEW r \in CleanerRecords, NEW v,
             v = [r EXCEPT !.step = "list", !.held = None, !.seen = NoUpload]
      PROVE  /\ v.cur = r.cur /\ v.stage = r.stage /\ v.snap = r.snap /\ v.keep = r.keep
             /\ v.todo = r.todo /\ v.step = "list"
  BY <1>3 DEF CleanerRecords
<1> QED BY <1>1, <1>2, <1>3 DEF SamePass

(* The CleanupWorker has done with the build it is at. *)
FinishedPass(c) ==
    /\ cleaner'[c].step = "list" /\ cleaner'[c].cur = None /\ cleaner'[c].stage = "none"
    /\ cleaner'[c].snap = [cleaner[c].snap EXCEPT ![cleaner[c].cur] = "absent"]
    /\ cleaner'[c].keep = cleaner[c].keep \ {cleaner[c].cur}
    /\ cleaner'[c].todo = cleaner[c].todo

(* That is what Finished does. *)
LEMMA FinishedIsPass ==
    ASSUME TypeOK, NEW c \in Builders, cleaner' = [cleaner EXCEPT ![c] = Finished(c)]
    PROVE  FinishedPass(c)
<1>1. cleaner'[c] = [cleaner[c] EXCEPT !.step = "list", !.cur = None, !.stage = "none",
                        !.snap = [cleaner[c].snap EXCEPT ![cleaner[c].cur] = "absent"],
                        !.keep = cleaner[c].keep \ {cleaner[c].cur}]
  BY DEF Finished, TypeOK
<1>2. cleaner[c] \in CleanerRecords
  BY CleanerFields
<1> DEFINE t == [cleaner[c].snap EXCEPT ![cleaner[c].cur] = "absent"]
           K == cleaner[c].keep \ {cleaner[c].cur}
<1>4. cleaner'[c] = [cleaner[c] EXCEPT !.step = "list", !.cur = None, !.stage = "none",
                                       !.snap = t, !.keep = K]
  BY <1>1
<1> HIDE DEF t, K
<1>3. ASSUME NEW r \in CleanerRecords, NEW v,
             v = [r EXCEPT !.step = "list", !.cur = None, !.stage = "none", !.snap = t,
                           !.keep = K]
      PROVE  /\ v.step = "list" /\ v.cur = None /\ v.stage = "none" /\ v.snap = t
             /\ v.keep = K /\ v.todo = r.todo
  BY <1>3 DEF CleanerRecords
<1>5. /\ cleaner'[c].step = "list" /\ cleaner'[c].cur = None /\ cleaner'[c].stage = "none"
      /\ cleaner'[c].snap = t /\ cleaner'[c].keep = K
      /\ cleaner'[c].todo = cleaner[c].todo
  BY <1>2, <1>3, <1>4
<1> QED BY <1>5 DEF FinishedPass, t, K

(* What a step makes of the pass of the CleanupWorker that takes it *)
LEMMA CleanerPasses ==
    ASSUME TypeOK, NEW c \in Builders, PassInv(c), CleanupWorkerStep(c)
    PROVE  \/ cleaner'[c] = IdleCleaner
           \/ /\ SamePass(c)
              /\ \/ cleaner[c].step \in {"idle", "table"}
                    /\ cleaner'[c].step \in {"table", "local"}
                 \/ cleaner[c].step = "list" /\ cleaner[c].cur = None
                    /\ cleaner'[c].step = "local"
                 \/ (\E u \in Uploads : ReadUpload(c, u))
                    /\ cleaner'[c].step \in {"list", "check", "mark", "cloud"}
                    /\ (cleaner'[c].step # "list" =>
                           \E u \in Uploads : upload[u].build = cleaner[c].cur
                                              /\ upload[u].state # "absent")
                 \/ cleaner[c].step \in Holding /\ cleaner'[c].step \in {"list"} \cup Holding
                 \/ cleaner[c].stage = "old" /\ cleaner[c].step \in {"list", "delete"}
                    /\ cleaner'[c].step \in {"delete", "remove"}
           \/ /\ ListBuilds(c) /\ cleaner[c].step = "table" /\ cleaner'[c].step = "list"
              /\ cleaner'[c].snap = build
              /\ cleaner'[c].todo = {i \in Builds : build[i] # "absent"}
              /\ cleaner'[c].keep = (IF config[c]["clean"] = None THEN {} ELSE LatestBuilds)
              /\ cleaner'[c].cur = cleaner[c].cur /\ cleaner'[c].stage = cleaner[c].stage
           \/ /\ NextBuild(c) /\ cleaner[c].cur = None /\ cleaner'[c].step = "list"
              /\ \E i \in cleaner[c].todo :
                    /\ cleaner[c].snap[i] # "blank" /\ cleaner'[c].cur = i
                    /\ cleaner'[c].todo = cleaner[c].todo \ {i}
              /\ cleaner'[c].stage = "current" /\ cleaner'[c].snap = cleaner[c].snap
              /\ cleaner'[c].keep = cleaner[c].keep
           \/ FinishedPass(c)
           \/ /\ JudgeBuild(c) /\ cleaner[c].step = "list" /\ cleaner[c].stage = "current"
              /\ cleaner'[c].step = "list" /\ cleaner'[c].stage = "old"
              /\ cleaner'[c].cur = cleaner[c].cur /\ cleaner'[c].snap = cleaner[c].snap
              /\ cleaner'[c].keep = cleaner[c].keep /\ cleaner'[c].todo = cleaner[c].todo
              /\ \/ cleaner[c].snap[cleaner[c].cur] = "DELETING"
                 \/ /\ cleaner[c].cur \notin cleaner[c].keep
                    /\ \/ cleaner[c].snap[cleaner[c].cur] # "BUILDING"
                       \/ ~InProgressBuild(cleaner[c].cur)
<1> USE DEF CleanerIn
<1>0. cleaner[c] \in CleanerRecords
  BY CleanerFields
<1>1. ASSUME StartPass(c)
      PROVE  SamePass(c) /\ cleaner[c].step = "idle" /\ cleaner'[c].step = "table"
  <2>1. cleaner'[c] = [cleaner[c] EXCEPT !.step = "table", !.recent = RecentUploads]
    BY <1>1 DEF StartPass, TypeOK
  <2>2. /\ cleaner'[c].cur = cleaner[c].cur /\ cleaner'[c].stage = cleaner[c].stage
        /\ cleaner'[c].snap = cleaner[c].snap /\ cleaner'[c].keep = cleaner[c].keep
        /\ cleaner'[c].todo = cleaner[c].todo /\ cleaner'[c].step = "table"
    BY <1>0, <2>1 DEF CleanerRecords
  <2> QED BY <1>1, <2>2 DEF StartPass, SamePass
<1>2. ASSUME ListBuilds(c)
      PROVE  /\ cleaner[c].step = "table"
             /\ \/ SamePass(c) /\ cleaner'[c].step = "local"
                \/ /\ cleaner'[c].step = "list" /\ cleaner'[c].snap = build
                   /\ cleaner'[c].todo = {i \in Builds : build[i] # "absent"}
                   /\ cleaner'[c].keep =
                         (IF config[c]["clean"] = None THEN {} ELSE LatestBuilds)
                   /\ cleaner'[c].cur = cleaner[c].cur
                   /\ cleaner'[c].stage = cleaner[c].stage
  <2>1. CASE CleanerGoes(c, "local")
    BY <1>2, <2>1, GoesSamePass DEF ListBuilds
  <2>2. CASE ~CleanerGoes(c, "local")
    <3> DEFINE K == IF config[c]["clean"] = None THEN {} ELSE LatestBuilds
               T == {i \in Builds : build[i] # "absent"}
    <3>1. cleaner'[c] = [cleaner[c] EXCEPT !.step = "list", !.snap = build,
                                           !.todo = T, !.keep = K]
      BY <1>2, <2>2 DEF ListBuilds, TypeOK
    <3> HIDE DEF K, T
    <3>2. /\ cleaner'[c].step = "list" /\ cleaner'[c].snap = build
          /\ cleaner'[c].todo = T /\ cleaner'[c].keep = K
          /\ cleaner'[c].cur = cleaner[c].cur /\ cleaner'[c].stage = cleaner[c].stage
      BY <1>0, <3>1 DEF CleanerRecords
    <3> QED BY <1>2, <3>2 DEF ListBuilds, K, T
  <2> QED BY <2>1, <2>2
<1>3. ASSUME NextBuild(c)
      PROVE  /\ cleaner[c].cur = None /\ cleaner[c].step = "list"
             /\ \/ SamePass(c) /\ cleaner'[c].step = "local"
                \/ /\ cleaner'[c].step = "list"
                   /\ \E i \in cleaner[c].todo :
                         /\ cleaner[c].snap[i] # "blank" /\ cleaner'[c].cur = i
                         /\ cleaner'[c].todo = cleaner[c].todo \ {i}
                   /\ cleaner'[c].stage = "current" /\ cleaner'[c].snap = cleaner[c].snap
                   /\ cleaner'[c].keep = cleaner[c].keep
  <2>1. CASE CleanerGoes(c, "local")
    BY <1>3, <2>1, GoesSamePass DEF NextBuild
  <2>2. CASE ~CleanerGoes(c, "local")
    <3>1. PICK i \in cleaner[c].todo :
             /\ cleaner[c].snap[i] # "blank"
             /\ cleaner' = [cleaner EXCEPT ![c] =
                              [cleaner[c] EXCEPT !.cur = i, !.stage = "current",
                                        !.todo = @ \ {i}, !.uploads = UploadsOf(i)]]
      BY <1>3, <2>2 DEF NextBuild
    <3>2. cleaner'[c] = [cleaner[c] EXCEPT !.cur = i, !.stage = "current",
                                 !.todo = @ \ {i}, !.uploads = UploadsOf(i)]
      BY <3>1 DEF TypeOK
    <3>3. /\ cleaner'[c].step = cleaner[c].step /\ cleaner'[c].cur = i
          /\ cleaner'[c].todo = cleaner[c].todo \ {i}
          /\ cleaner'[c].stage = "current" /\ cleaner'[c].snap = cleaner[c].snap
          /\ cleaner'[c].keep = cleaner[c].keep
      BY <1>0, <3>2 DEF CleanerRecords
    <3> QED BY <1>3, <3>1, <3>3 DEF NextBuild
  <2> QED BY <2>1, <2>2
<1>4. ASSUME NEW u \in Uploads, ReadUpload(c, u)
      PROVE  /\ SamePass(c) /\ cleaner'[c].step \in {"list", "check", "mark", "cloud"}
             /\ cleaner'[c].step # "list" => upload[u].build = cleaner[c].cur
                                             /\ upload[u].state # "absent"
  <2> DEFINE rest == [cleaner[c] EXCEPT !.uploads = @ \ {u}]
             take == /\ upload[u].build = cleaner[c].cur
                     /\ upload[u].state # "absent" /\ Deletable(c, u)
  <2>1. rest \in CleanerRecords /\ rest.step = cleaner[c].step
        /\ rest.cur = cleaner[c].cur /\ rest.stage = cleaner[c].stage
        /\ rest.snap = cleaner[c].snap /\ rest.keep = cleaner[c].keep
        /\ rest.todo = cleaner[c].todo
    <3>1. rest \in CleanerRecords
      BY <1>0, CleanerUpdates
    <3> QED BY <1>0, <3>1 DEF CleanerRecords
  <2>2. \/ ~take /\ cleaner'[c] = rest
        \/ /\ take
           /\ \E s \in {"check", "mark", "cloud"} :
                 cleaner'[c] = [rest EXCEPT !.held = u, !.seen = upload[u], !.step = s]
    BY <1>4 DEF ReadUpload, TypeOK
  <2> HIDE DEF rest
  <2>3. CASE ~take /\ cleaner'[c] = rest
    BY <1>4, <2>1, <2>3 DEF SamePass, ReadUpload
  <2>4. ASSUME take, NEW s \in {"check", "mark", "cloud"},
               cleaner'[c] = [rest EXCEPT !.held = u, !.seen = upload[u], !.step = s]
        PROVE  SamePass(c) /\ cleaner'[c].step = s
    BY <2>1, <2>4 DEF SamePass, CleanerRecords
  <2> QED BY <2>2, <2>3, <2>4
<1>5. ASSUME \/ CheckUpload(c) \/ RecheckUpload(c) \/ DropUpload(c)
             \/ MarkUpload(c) \/ DeleteImage(c) \/ EraseUpload(c)
      PROVE  /\ SamePass(c) /\ cleaner[c].step \in Holding
             /\ cleaner'[c].step \in {"list"} \cup Holding
  BY <1>5, GoesSamePass, ReleasedSamePass
     DEF CheckUpload, RecheckUpload, DropUpload, MarkUpload, DeleteImage, EraseUpload,
         Holding
<1>6. ASSUME JudgeBuild(c)
      PROVE  \/ FinishedPass(c)
             \/ /\ cleaner[c].step = "list" /\ cleaner[c].stage = "current"
                /\ cleaner'[c].step = "list" /\ cleaner'[c].stage = "old"
                /\ cleaner'[c].cur = cleaner[c].cur /\ cleaner'[c].snap = cleaner[c].snap
                /\ cleaner'[c].keep = cleaner[c].keep /\ cleaner'[c].todo = cleaner[c].todo
                /\ \/ cleaner[c].snap[cleaner[c].cur] = "DELETING"
                   \/ /\ cleaner[c].cur \notin cleaner[c].keep
                      /\ \/ cleaner[c].snap[cleaner[c].cur] # "BUILDING"
                         \/ ~InProgressBuild(cleaner[c].cur)
  <2> DEFINE i == cleaner[c].cur
             kept == /\ cleaner[c].snap[i] # "DELETING"
                     /\ i \in cleaner[c].keep
                        \/ (cleaner[c].snap[i] = "BUILDING" /\ InProgressBuild(i))
  <2>1. CASE kept
    <3>1. cleaner' = [cleaner EXCEPT ![c] = Finished(c)]
      BY <1>6, <2>1 DEF JudgeBuild
    <3> QED BY <3>1, FinishedIsPass
  <2>2. CASE ~kept
    <3>1. cleaner'[c] = [cleaner[c] EXCEPT !.stage = "old", !.uploads = UploadsOf(i)]
      BY <1>6, <2>2 DEF JudgeBuild, TypeOK
    <3>2. /\ cleaner'[c].step = cleaner[c].step /\ cleaner'[c].stage = "old"
          /\ cleaner'[c].cur = cleaner[c].cur /\ cleaner'[c].snap = cleaner[c].snap
          /\ cleaner'[c].keep = cleaner[c].keep /\ cleaner'[c].todo = cleaner[c].todo
      BY <1>0, <3>1 DEF CleanerRecords
    <3>3. cleaner[c].step = "list" /\ cleaner[c].stage = "current"
      BY <1>6 DEF JudgeBuild, ListedDone
    <3> QED BY <2>2, <3>2, <3>3
  <2> QED BY <2>1, <2>2
<1>7. ASSUME MarkBuild(c)
      PROVE  \/ FinishedPass(c)
             \/ /\ SamePass(c) /\ cleaner[c].stage = "old" /\ cleaner[c].step = "list"
                /\ cleaner'[c].step = "delete"
  <2>1. \/ cleaner' = [cleaner EXCEPT ![c] = Finished(c)]
        \/ CleanerGoes(c, "delete")
    BY <1>7 DEF MarkBuild, CleanerGoes
  <2> QED BY <1>7, <2>1, FinishedIsPass, GoesSamePass DEF MarkBuild, ListedDone
<1>8. ASSUME CheckNoUploads(c)
      PROVE  \/ FinishedPass(c)
             \/ /\ SamePass(c) /\ cleaner[c].stage = "old" /\ cleaner[c].step = "delete"
                /\ cleaner'[c].step = "remove"
  <2>1. \/ cleaner' = [cleaner EXCEPT ![c] = Finished(c)]
        \/ CleanerGoes(c, "remove")
    BY <1>8 DEF CheckNoUploads, CleanerGoes
  <2> QED BY <1>8, <2>1, FinishedIsPass, GoesSamePass DEF CheckNoUploads, PassInv
<1>9. ASSUME DeleteBuild(c)
      PROVE  FinishedPass(c)
  BY <1>9, FinishedIsPass DEF DeleteBuild
<1>10. ASSUME CleanLocalBuilds(c)
       PROVE  cleaner'[c] = IdleCleaner
  BY <1>10 DEF CleanLocalBuilds, TypeOK
<1> QED
  BY <1>1, <1>2, <1>3, <1>4, <1>5, <1>6, <1>7, <1>8, <1>9, <1>10
     DEF CleanupWorkerStep

(* PassInv: what a pass is at was listed by it. *)
LEMMA PassStep ==
    ASSUME TypeOK, \A u \in Uploads : RecordInv(u), [Next]_vars,
           NEW c \in Builders, PassInv(c)
    PROVE  PassInv(c)'
<1> DEFINE cl == cleaner[c]
           cn == cleaner'[c]
<1> USE DEF Holding
<1>0. /\ None \notin Builds /\ cl.todo \subseteq Builds /\ cl.cur \in Builds \cup {None}
      /\ cl.snap \in [Builds -> BuildStates]
  BY BuilderAssumption, CleanerFields
<1>1. CASE cleaner'[c] = cleaner[c]
  BY <1>1 DEF PassInv
<1>2. CASE cleaner'[c] = IdleCleaner
  BY <1>2 DEF PassInv, IdleCleaner
<1>3. CASE CleanupWorkerStep(c)
  <2>1. CASE SamePass(c)
    <3>1. /\ cn.cur = cl.cur /\ cn.stage = cl.stage /\ cn.snap = cl.snap
          /\ cn.todo = cl.todo
      BY <2>1 DEF SamePass
    <3>2. ASSUME /\ cn.step \in {"idle", "table", "local"} => cl.cur = None
                 /\ cn.step \in Holding \cup {"delete", "remove"} => cl.cur # None
                 /\ cn.step \in {"delete", "remove"} => cl.stage = "old"
          PROVE  PassInv(c)'
      BY <3>1, <3>2 DEF PassInv
    <3>3. ASSUME NEW u \in Uploads, upload[u].build = cl.cur, upload[u].state # "absent"
          PROVE  cl.cur # None
      BY <1>0, <3>3 DEF RecordInv
    <3>4. CASE \/ cl.step \in {"idle", "table"} /\ cn.step \in {"table", "local"}
               \/ cl.step = "list" /\ cl.cur = None /\ cn.step = "local"
      BY <3>2, <3>4 DEF PassInv
    <3>5. CASE /\ cn.step \in {"list", "check", "mark", "cloud"}
               /\ (cn.step # "list" => \E u \in Uploads : upload[u].build = cl.cur
                                                          /\ upload[u].state # "absent")
      BY <3>2, <3>3, <3>5
    <3>6. CASE cl.step \in Holding /\ cn.step \in {"list"} \cup Holding
      BY <3>2, <3>6 DEF PassInv
    <3>7. CASE cl.stage = "old" /\ cn.step \in {"delete", "remove"}
      BY <3>2, <3>7 DEF PassInv
    <3>8. CASE FinishedPass(c) \/ cn = IdleCleaner \/ cn.step = "list"
      BY <3>2, <3>8 DEF FinishedPass, IdleCleaner, PassInv
    <3> HIDE DEF Holding
    <3>9. \/ cn = IdleCleaner \/ cn.step = "list"
          \/ cl.step \in {"idle", "table"} /\ cn.step \in {"table", "local"}
          \/ cl.step = "list" /\ cl.cur = None /\ cn.step = "local"
          \/ /\ cn.step \in {"list", "check", "mark", "cloud"}
             /\ (cn.step # "list" => \E u \in Uploads : upload[u].build = cl.cur
                                                        /\ upload[u].state # "absent")
          \/ cl.step \in Holding /\ cn.step \in {"list"} \cup Holding
          \/ cl.stage = "old" /\ cn.step \in {"delete", "remove"}
      BY <1>3, CleanerPasses DEF FinishedPass
    <3>10. CASE cn = IdleCleaner
      BY <1>2, <3>10
    <3>11. CASE cn.step = "list"
      BY <3>8, <3>11
    <3> QED BY <3>4, <3>5, <3>6, <3>7, <3>9, <3>10, <3>11
  <2>2. CASE /\ cl.step = "table" /\ cn.step = "list" /\ cn.snap = build
             /\ cn.todo = {i \in Builds : build[i] # "absent"}
             /\ cn.cur = cl.cur /\ cn.stage = cl.stage
    BY <1>0, <2>2 DEF PassInv
  <2>3. CASE /\ cl.cur = None /\ cn.step = "list"
             /\ \E i \in cl.todo : /\ cl.snap[i] # "blank" /\ cn.cur = i
                                   /\ cn.todo = cl.todo \ {i}
             /\ cn.stage = "current" /\ cn.snap = cl.snap
    BY <1>0, <2>3 DEF PassInv
  <2>4. CASE FinishedPass(c)
    BY <1>0, <2>4 DEF PassInv, FinishedPass
  <2>5. CASE /\ cl.step = "list" /\ cl.stage = "current" /\ cn.step = "list"
             /\ cn.stage = "old" /\ cn.cur = cl.cur /\ cn.snap = cl.snap /\ cn.todo = cl.todo
    BY <2>5 DEF PassInv
  <2> HIDE DEF cl, cn
  <2> QED BY <1>2, <1>3, <2>1, <2>2, <2>3, <2>4, <2>5, CleanerPasses DEF cl, cn
<1> QED BY <1>1, <1>2, <1>3, CleanerMoves

(* A CleanupWorker takes up an upload, or goes on with the one it has. *)
Takes(c, u) ==
    /\ ReadUpload(c, u) /\ Deletable(c, u)
    /\ upload[u].build = cleaner[c].cur /\ upload[u].state # "absent"
    /\ cleaner'[c].held = u /\ cleaner'[c].seen = upload[u]
    /\ cleaner'[c].cur = cleaner[c].cur /\ cleaner'[c].stage = cleaner[c].stage
    /\ \/ upload[u].state = "UPLOADING" /\ cleaner'[c].step = "check"
       \/ upload[u].state = "DELETING" /\ cleaner'[c].step = "cloud"
       \/ upload[u].state \in {"READY", "FAILED"} /\ cleaner'[c].step = "mark"

GoesOn(c) ==
    /\ cleaner[c].step \in Holding
    /\ cleaner'[c].held = cleaner[c].held /\ cleaner'[c].seen = cleaner[c].seen
    /\ cleaner'[c].cur = cleaner[c].cur /\ cleaner'[c].stage = cleaner[c].stage
    /\ \/ cleaner'[c].step = cleaner[c].step
       \/ /\ CheckUpload(c) /\ cleaner[c].step = "check"
          /\ uploadLock[<<cleaner[c].seen.build, cleaner[c].seen.provider>>] = None
          /\ cleaner'[c].step = IF Cruft(c) THEN "recheck" ELSE "mark"
       \/ /\ RecheckUpload(c) /\ cleaner[c].step = "recheck" /\ cleaner'[c].step = "drop"
          /\ upload[cleaner[c].held].state = "UPLOADING"
       \/ MarkUpload(c) /\ cleaner[c].step = "mark" /\ cleaner'[c].step = "cloud"
       \/ DeleteImage(c) /\ cleaner[c].step = "cloud" /\ cleaner'[c].step = "erase"

(* There is no other way to have an upload. *)
LEMMA CleanerHolds ==
    ASSUME TypeOK, [Next]_vars, NEW c \in Builders, PassInv(c),
           cleaner'[c].step \in Holding
    PROVE  GoesOn(c) \/ \E u \in Uploads : Takes(c, u)
<1> USE DEF CleanerIn, Holding
<1>1. CASE cleaner'[c] = cleaner[c]
  BY <1>1 DEF GoesOn
<1>2. CASE cleaner'[c] = IdleCleaner
  BY <1>2 DEF IdleCleaner
<1>3. ASSUME NEW s, CleanerGoes(c, s)
      PROVE  /\ cleaner'[c].held = cleaner[c].held /\ cleaner'[c].seen = cleaner[c].seen
             /\ cleaner'[c].cur = cleaner[c].cur /\ cleaner'[c].stage = cleaner[c].stage
             /\ cleaner'[c].step = s
  BY <1>3, GoesSamePass DEF SamePass
<1>4. cleaner' # [cleaner EXCEPT ![c] = Released(c)]
  BY ReleasedSamePass
<1>5. cleaner' # [cleaner EXCEPT ![c] = Finished(c)]
  BY FinishedIsPass DEF FinishedPass
<1>6. ASSUME NEW u \in Uploads, ReadUpload(c, u)
      PROVE  Takes(c, u)
  <2> DEFINE rest == [cleaner[c] EXCEPT !.uploads = @ \ {u}]
             take == /\ upload[u].build = cleaner[c].cur
                     /\ upload[u].state # "absent" /\ Deletable(c, u)
             s == CASE upload[u].state = "UPLOADING" -> "check"
                    [] upload[u].state = "DELETING" -> "cloud"
                    [] OTHER -> "mark"
  <2>1. rest \in CleanerRecords
    BY CleanerFields, CleanerUpdates
  <2>2. rest.step = cleaner[c].step /\ rest.cur = cleaner[c].cur
        /\ rest.stage = cleaner[c].stage
    BY <2>1, CleanerFields DEF CleanerRecords
  <2>3. \/ ~take /\ cleaner'[c] = rest
        \/ take /\ cleaner'[c] = [rest EXCEPT !.held = u, !.seen = upload[u], !.step = s]
    BY <1>6 DEF ReadUpload, TypeOK
  <2>4. cleaner'[c] # rest
    BY <1>6, <2>2 DEF ReadUpload
  <2> HIDE DEF rest, s
  <2>5. take /\ cleaner'[c] = [rest EXCEPT !.held = u, !.seen = upload[u], !.step = s]
    BY <2>3, <2>4
  <2>6. /\ cleaner'[c].held = u /\ cleaner'[c].seen = upload[u] /\ cleaner'[c].step = s
        /\ cleaner'[c].cur = rest.cur /\ cleaner'[c].stage = rest.stage
    BY <2>1, <2>5 DEF CleanerRecords
  <2>7. upload[u].state \in UploadStates
    BY UploadFields DEF TypeOK
  <2>8. \/ upload[u].state = "UPLOADING" /\ s = "check"
        \/ upload[u].state = "DELETING" /\ s = "cloud"
        \/ upload[u].state \in {"READY", "FAILED"} /\ s = "mark"
    BY <2>5, <2>7 DEF s, UploadStates
  <2> QED BY <1>6, <2>2, <2>5, <2>6, <2>8 DEF Takes
<1>7. CASE CheckUpload(c)
  BY <1>3, <1>4, <1>7 DEF CheckUpload, GoesOn
<1>8. CASE RecheckUpload(c)
  BY <1>3, <1>4, <1>8 DEF RecheckUpload, GoesOn
<1>9. CASE MarkUpload(c)
  BY <1>3, <1>9 DEF MarkUpload, GoesOn
<1>10. CASE DeleteImage(c)
  BY <1>3, <1>4, <1>10 DEF DeleteImage, GoesOn
<1>11. CASE DropUpload(c) \/ EraseUpload(c)
  BY <1>4, <1>11 DEF DropUpload, EraseUpload
<1>12. CASE CleanupWorkerStep(c) /\ ~(\E u \in Uploads : ReadUpload(c, u))
            /\ cleaner[c].step \notin Holding
  BY <1>2, <1>12, CleanerPasses DEF FinishedPass
<1>13. CASE CleanupWorkerStep(c)
  <2>1. CASE cleaner[c].step \in Holding
    BY <1>6, <1>7, <1>8, <1>9, <1>10, <1>11, <1>13, <2>1
       DEF CleanupWorkerStep, StartPass, ListBuilds, NextBuild, JudgeBuild, MarkBuild,
           ListedDone, CheckNoUploads, DeleteBuild, CleanLocalBuilds
  <2> QED BY <1>6, <1>12, <1>13, <2>1
<1> QED BY <1>1, <1>2, <1>13, CleanerMoves

(* An upload that is begun is new to every CleanupWorker. *)
LEMMA FreshToCleaners ==
    ASSUME NEW w \in UploadWorkers, NEW u \in Uploads, StartUpload(w, u), NEW c \in Builders
    PROVE  cleaner'[c].held # u /\ cleaner[c].held # u
BY DEF StartUpload, FreshUpload

(* What is known of the upload that a CleanupWorker has *)
LEMMA HeldKnown ==
    ASSUME TypeOK, \A d \in Builders : PassInv(d) /\ SeenInv(d),
           \A u \in Uploads : RecordInv(u), [Next]_vars,
           NEW c \in Builders, cleaner'[c].step \in Holding, NEW u, u = cleaner'[c].held
    PROVE  /\ u \in Uploads
           /\ cleaner'[c].seen.state # "absent" /\ cleaner'[c].seen.build = cleaner'[c].cur
           /\ cleaner'[c].seen.provider \in Providers
           /\ upload[u].state # "absent" =>
                 /\ upload[u].build = cleaner'[c].cur
                 /\ upload[u].provider = cleaner'[c].seen.provider
           /\ ~\E w \in UploadWorkers : StartUpload(w, u)
<1>1. CASE GoesOn(c)
  BY <1>1, FreshToCleaners DEF GoesOn, SeenInv
<1>2. ASSUME NEW v \in Uploads, Takes(c, v)
      PROVE  /\ v = u /\ cleaner'[c].seen.state # "absent"
             /\ cleaner'[c].seen.build = cleaner'[c].cur
             /\ cleaner'[c].seen.provider \in Providers
             /\ upload[u].build = cleaner'[c].cur
             /\ upload[u].provider = cleaner'[c].seen.provider
  BY <1>2 DEF Takes, RecordInv
<1> QED BY <1>1, <1>2, CleanerHolds, FreshToCleaners

(* SeenInv: an id has one build and one provider while anyone has it. *)
LEMMA SeenStep ==
    ASSUME TypeOK, \A d \in Builders : PassInv(d) /\ SeenInv(d),
           \A w \in UploadWorkers : UploaderInv(w), \A u \in Uploads : RecordInv(u),
           [Next]_vars, NEW c \in Builders
    PROVE  SeenInv(c)'
<1> SUFFICES ASSUME cleaner'[c].step \in Holding
             PROVE  SeenInv(c)'
  BY DEF SeenInv, Holding
<1>0. PICK u : u = cleaner'[c].held
  OBVIOUS
<1> DEFINE i == cleaner'[c].cur
           q == cleaner'[c].seen.provider
<1>1. /\ u \in Uploads
      /\ cleaner'[c].seen.state # "absent" /\ cleaner'[c].seen.build = i /\ q \in Providers
      /\ upload[u].state # "absent" => upload[u].build = i /\ upload[u].provider = q
      /\ ~\E w \in UploadWorkers : StartUpload(w, u)
  BY <1>0, HeldKnown
<1>2. ASSUME NEW v \in Uploads, Takes(c, v)
      PROVE  v = u /\ upload' = upload /\ ReadUpload(c, u) /\ cleaner'[c].seen = upload[u]
             /\ upload[u].state # "absent"
  BY <1>0, <1>2 DEF Takes, ReadUpload, OnlyCleaner, zkUploads
<1>3. ASSUME GoesOn(c)
      PROVE  /\ cleaner[c].step \in Holding /\ cleaner[c].held = u
             /\ cleaner[c].cur = i /\ cleaner[c].seen.provider = q
             /\ cleaner[c].seen = cleaner'[c].seen
  BY <1>0, <1>3 DEF GoesOn
<1>4. GoesOn(c) \/ \E v \in Uploads : Takes(c, v)
  BY CleanerHolds
<1> HIDE DEF i, q
(* The UploadWorker at it *)
<1>5. ASSUME NEW w \in UploadWorkers, AtUpload(w, u)'
      PROVE  /\ AtUpload(w, u) /\ uploader'[w].build = uploader[w].build
             /\ uploader'[w].provider = uploader[w].provider
             /\ uploader[w].build = i /\ uploader[w].provider = q
             /\ ~cleaner'[c].seen.ext
  <2>1. AtUpload(w, u) /\ uploader'[w].build = uploader[w].build
        /\ uploader'[w].provider = uploader[w].provider
    BY <1>1, <1>5, AtUploadMoves
  <2>2. CASE GoesOn(c)
    BY <1>3, <2>1, <2>2 DEF SeenInv
  <2>3. ASSUME NEW v \in Uploads, Takes(c, v)
        PROVE  uploader[w].build = i /\ uploader[w].provider = q /\ ~cleaner'[c].seen.ext
    BY <1>1, <1>2, <2>1, <2>3 DEF UploaderInv, AtUpload
  <2> QED BY <1>4, <2>1, <2>2, <2>3
(* Other CleanupWorkers that have it *)
<1>6. ASSUME NEW d \in Builders, cleaner'[d].step \in Holding, cleaner'[d].held = u
      PROVE  cleaner'[d].cur = i /\ cleaner'[d].seen.provider = q
  <2>1. /\ upload[u].state # "absent" => upload[u].build = cleaner'[d].cur
                                         /\ upload[u].provider = cleaner'[d].seen.provider
    BY <1>6, HeldKnown
  <2>2. CASE upload[u].state # "absent"
    BY <1>1, <2>1, <2>2
  <2>3. CASE upload[u].state = "absent"
    <3>1. GoesOn(c)
      BY <1>2, <1>4, <2>3
    <3>2. GoesOn(d)
      BY <1>6, <2>3, CleanerHolds DEF Takes
    <3>3. /\ cleaner[d].step \in Holding /\ cleaner[d].held = u
          /\ cleaner[d].cur = cleaner'[d].cur
          /\ cleaner[d].seen.provider = cleaner'[d].seen.provider
      BY <1>6, <3>2 DEF GoesOn
    <3> QED BY <1>3, <3>1, <3>3 DEF SeenInv
  <2> QED BY <2>2, <2>3
(* The upload's record *)
<1>7. upload'[u].state # "absent" => upload'[u].build = i /\ upload'[u].provider = q
  <2>1. ASSUME NEW d \in Builders, MarkUpload(d), cleaner[d].held = u
        PROVE  cleaner[d].seen.build = i /\ cleaner[d].seen.provider = q
    <3>1. cleaner[d].step \in Holding /\ CleanerGoes(d, "cloud")
      BY <2>1 DEF MarkUpload, CleanerIn, Holding
    <3>2. cleaner'[d].step \in Holding /\ cleaner'[d].held = u
          /\ cleaner'[d].seen = cleaner[d].seen /\ cleaner'[d].cur = cleaner[d].cur
      BY <2>1, <3>1, GoesSamePass DEF Holding, SamePass
    <3>3. cleaner'[d].cur = i /\ cleaner'[d].seen.provider = q
      BY <1>6, <3>2
    <3> QED BY <3>1, <3>2, <3>3 DEF SeenInv
  <2>2. CASE upload'[u] = upload[u]
    BY <1>1, <2>2
  <2>3. CASE upload'[u] # upload[u]
    BY <1>1, <2>1, <2>3, UploadMoves DEF NoUpload
  <2> QED BY <2>2, <2>3
<1>8. ASSUME cleaner'[c].seen.ext, cleaner'[c].step \in {"cloud", "erase"}
      PROVE  upload'[u].state # "READY"
  <2>1. CASE \E v \in Uploads : Takes(c, v)
    <3>1. upload[u].state = "DELETING"
      BY <1>2, <1>8, <2>1 DEF Takes
    <3> QED BY <1>2, <2>1, <3>1
  <2>2. CASE GoesOn(c) /\ MarkUpload(c)
    BY <1>1, <1>3, <2>2, CleanerFields DEF MarkUpload, SetUpload, TypeOK, UploadRecords
  <2>3. CASE GoesOn(c) /\ ~MarkUpload(c)
    <3>1. cleaner[c].step \in {"cloud", "erase"}
      BY <1>8, <2>3 DEF GoesOn
    <3>2. upload[u].state # "READY" /\ \A w \in UploadWorkers : ~AtUpload(w, u)
      BY <1>3, <1>8, <2>3, <3>1 DEF SeenInv
    <3>3. CASE upload'[u] = upload[u]
      BY <3>2, <3>3
    <3>4. CASE upload'[u] # upload[u]
      BY <1>1, <3>2, <3>4, UploadMoves DEF NoUpload
    <3> QED BY <3>3, <3>4
  <2> QED BY <1>4, <2>1, <2>2, <2>3
<1>9. \A w \in UploadWorkers : AtUpload(w, u)' =>
         /\ uploader'[w].build = i /\ uploader'[w].provider = q /\ ~cleaner'[c].seen.ext
  BY <1>5
<1> QED BY <1>0, <1>1, <1>6, <1>7, <1>8, <1>9 DEF SeenInv, AtUpload, i, q

(* The invariant holds at the start. *)
LEMMA AlwaysInit ==
    ASSUME Init
    PROVE  IInv
<1> USE DEF Init
<1>1. TypeOK
  <2>1. ReadyBuilds = {} /\ {u \in Uploads : upload[u].state = "READY"} = {}
    BY DEF ReadyBuilds, NoUpload
  <2>2. Ordered(buildOrder, {}) /\ Ordered(uploadOrder, {})
    BY DEF Ordered
  <2>3. {crashes, losses, requests, userDeletes, reconfigs} \subseteq 0..MaxEvents
    BY BuilderAssumption
  <2>4. /\ build \in [Builds -> BuildStates] /\ upload \in [Uploads -> UploadRecords]
        /\ builder \in [Builders -> BuilderRecords]
        /\ uploader \in [UploadWorkers -> UploaderRecords]
        /\ cleaner \in [Builders -> CleanerRecords]
    BY IdleRecords DEF BuildStates
  <2> QED BY <2>1, <2>2, <2>3, <2>4 DEF TypeOK
<1>2. ConfigInv
  BY DEF ConfigInv
<1>3. ASSUME NEW b \in Builders
      PROVE  /\ BuilderInv(b) /\ PassInv(b) /\ SeenInv(b)
             /\ HolderInv(b) /\ JudgedInv(b) /\ HeldInv(b)
  <2>1. builder[b] = IdleBuilder /\ cleaner[b] = IdleCleaner
    BY <1>3
  <2> QED
    BY <1>3, <2>1
       DEF BuilderInv, AtBuild, PassInv, SeenInv, Holding, HolderInv, Holder, JudgedInv,
           HeldInv, IdleBuilder, IdleCleaner
<1>4. ASSUME NEW w \in UploadWorkers
      PROVE  UploaderInv(w) /\ LockedInv(w)
  BY <1>4 DEF UploaderInv, LockedInv, IdleUploader
<1>5. ASSUME NEW u \in Uploads
      PROVE  RecordInv(u)
  BY <1>5 DEF RecordInv, NoUpload
<1>6. CurrentBuildSomewhere
  BY DEF CurrentBuildSomewhere, LatestBuilds, LastTwo, ReadyBuilds
<1> QED BY <1>1, <1>2, <1>3, <1>4, <1>5, <1>6 DEF IInv, AlwaysInv, QuietInv, LosslessInv

(* Without the events of an operator, and of a lost session *)
LEMMA Events ==
    ASSUME TypeOK, [Next]_vars
    PROVE  /\ \A i \in Builds : dib_image_delete(i) => userDeletes' # 0
           /\ \A u \in Uploads : image_delete(u) => userDeletes' # 0
           /\ userDeletes' = 0 => userDeletes = 0
           /\ \A b \in Builders, w \in Workers : Reconfigure(b, w) => reconfigs' # 0
           /\ reconfigs' = 0 => reconfigs = 0
           /\ \A b \in Builders : LoseSession(b) => losses' # 0
           /\ losses' = 0 => losses = 0
<1> USE DEF bounds, UserDeletes
<1>1. /\ \A i \in Builds : dib_image_delete(i) => userDeletes' # 0
      /\ \A u \in Uploads : image_delete(u) => userDeletes' # 0
      /\ \A b \in Builders, w \in Workers : Reconfigure(b, w) => reconfigs' # 0
      /\ \A b \in Builders : LoseSession(b) => losses' # 0
  BY Bounds DEF dib_image_delete, image_delete, Reconfigure, LoseSession
<1>2. CASE UNCHANGED bounds
  BY <1>1, <1>2
<1>3. CASE Environment
  <2>1. ASSUME NEW i \in Builds, dib_image_delete(i)
        PROVE  userDeletes' # 0 /\ UNCHANGED <<reconfigs, losses>>
    BY <1>1, <2>1 DEF dib_image_delete
  <2>2. ASSUME NEW u \in Uploads, image_delete(u)
        PROVE  userDeletes' # 0 /\ UNCHANGED <<reconfigs, losses>>
    BY <1>1, <2>2 DEF image_delete
  <2>3. ASSUME NEW b \in Builders, NEW w \in Workers, Reconfigure(b, w)
        PROVE  reconfigs' # 0 /\ UNCHANGED <<userDeletes, losses>>
    BY <1>1, <2>3 DEF Reconfigure
  <2>4. ASSUME NEW b \in Builders, LoseSession(b)
        PROVE  losses' # 0 /\ UNCHANGED <<userDeletes, reconfigs>>
    BY <1>1, <2>4 DEF LoseSession
  <2>5. ASSUME SubmitBuildRequest \/ SessionExpires \/ \E b \in Builders : Crash(b)
        PROVE  UNCHANGED <<userDeletes, reconfigs, losses>>
    BY <2>5 DEF SubmitBuildRequest, SessionExpires, Crash
  <2> QED BY <1>1, <1>3, <2>1, <2>2, <2>3, <2>4, <2>5 DEF Environment
<1>4. CASE UNCHANGED vars
  BY <1>2, <1>4 DEF vars
<1> HIDE DEF bounds
<1>5. CASE Next /\ ~Environment
  <2>1. UNCHANGED bounds
    BY <1>5, BuildWorkerLeaves, UploadWorkerLeaves, CleanupWorkerLeaves DEF Next
  <2> QED BY <1>2, <2>1
<1> QED BY <1>3, <1>4, <1>5

(* What is undisturbed after a step was so before, and the step was no     *)
(* disturbance.                                                            *)
LEMMA UndisturbedBefore ==
    ASSUME TypeOK, [Next]_vars, Undisturbed'
    PROVE  /\ Undisturbed
           /\ \A i \in Builds : ~dib_image_delete(i)
           /\ \A u \in Uploads : ~image_delete(u)
           /\ \A b \in Builders, w \in Workers : ~Reconfigure(b, w)
           /\ \A b \in Builders : LoseSession(b) => builder[b].step # "built"
BY Events DEF Undisturbed, LoseSession

(* The configuration has every provider until it changes. *)
LEMMA ConfigStep ==
    ASSUME TypeOK, ConfigInv, [Next]_vars
    PROVE  ConfigInv'
<1> SUFFICES ASSUME reconfigs' = 0
             PROVE  config' = config
  BY Events DEF ConfigInv
<1>1. CASE UNCHANGED vars
  BY <1>1 DEF vars
<1>2. CASE Environment
  BY <1>2, Events
     DEF Environment, SubmitBuildRequest, SessionExpires, dib_image_delete,
         image_delete, LoseSession, Crash
<1> QED
  BY <1>1, <1>2, BuildWorkerLeaves, UploadWorkerLeaves, CleanupWorkerLeaves
     DEF Next

(* AlwaysInv is inductive by itself. *)
LEMMA AlwaysStep ==
    ASSUME AlwaysInv, [Next]_vars
    PROVE  AlwaysInv'
<1> USE DEF AlwaysInv
<1>1. TypeOK' /\ ConfigInv'
  BY TypeStep, ConfigStep
<1>2. \A b \in Builders : BuilderInv(b)' /\ PassInv(b)' /\ SeenInv(b)'
  BY BuilderStep, PassStep, SeenStep
<1>3. \A w \in UploadWorkers : UploaderInv(w)'
  BY UploaderStep
<1>4. \A u \in Uploads : RecordInv(u)'
  BY RecordStep
<1> QED BY <1>1, <1>2, <1>3, <1>4
-----------------------------------------------------------------------------
(* The latest builds *)

(* Storing a build that is not among the latest brings no other there. *)
LEMMA SetBuildLatest ==
    ASSUME BuildTypes, NEW x \in Builds, NEW s \in BuildStates, SetBuild(x, s),
           x \notin LatestBuilds, s = "READY" => build[x] # "READY",
           NEW y \in Builds, y \notin LatestBuilds, y # x \/ s # "READY"
    PROVE  y \notin LatestBuilds'
<1>1. build' = [build EXCEPT ![x] = s]
  BY DEF SetBuild
<1>2. Ordered(buildOrder, ReadyBuilds)
  BY DEF BuildTypes
<1>3. CASE s # "READY"
  <2>1. ReadyBuilds' = ReadyBuilds \ {x} /\ buildOrder' = Without(buildOrder, x)
    BY <1>1, <1>3 DEF ReadyBuilds, BuildTypes, SetBuild
  <2> QED BY <1>2, <2>1, LatestWithout DEF LatestBuilds
<1>4. CASE s = "READY"
  <2>1. /\ ReadyBuilds' = ReadyBuilds \cup {x} /\ x \notin ReadyBuilds
        /\ buildOrder' = MadeLast(buildOrder, ReadyBuilds, x)
    BY <1>1, <1>4 DEF ReadyBuilds, BuildTypes, SetBuild
  <2>2. CASE y \in ReadyBuilds
    BY <1>2, <2>1, <2>2, LatestLast DEF LatestBuilds
  <2>3. CASE y \notin ReadyBuilds
    <3>1. y \notin ReadyBuilds'
      BY <1>4, <2>1, <2>3
    <3> QED BY <3>1 DEF LatestBuilds, LastTwo
  <2> QED BY <2>2, <2>3
<1> QED BY <1>3, <1>4

(* A build that is not among the latest gets there by StoreBuild only. *)
LEMMA NotLatestStays ==
    ASSUME TypeOK, \A b \in Builders : BuilderInv(b) /\ PassInv(b), [Next]_vars,
           \A i \in Builds : ~dib_image_delete(i),
           \A c \in Builders : cleaner[c].stage = "old" => cleaner[c].cur \notin LatestBuilds,
           NEW y \in Builds, y \notin LatestBuilds,
           \A b \in Builders : StoreBuild(b) =>
                                  builder[b].id # y \/ builder[b].result # "READY"
    PROVE  y \notin LatestBuilds'
<1>1. BuildTypes
  BY DEF TypeOK, BuildTypes
<1>2. CASE UNCHANGED <<build, buildOrder>>
  BY <1>2 DEF LatestBuilds, ReadyBuilds
<1>3. ASSUME NEW i, Touch(i)
      PROVE  y \notin LatestBuilds'
  BY <1>1, <1>3, TouchTypes DEF Touch, LatestBuilds
<1>4. ASSUME NEW b \in Builders, NEW i \in Builds, StartBuild(b, i)
      PROVE  y \notin LatestBuilds'
  <2>1. i \notin LatestBuilds /\ SetBuild(i, "BUILDING")
    BY <1>4 DEF StartBuild, FreshBuild, LatestBuilds, LastTwo, ReadyBuilds
  <2> QED BY <1>1, <2>1, SetBuildLatest DEF BuildStates
<1>5. ASSUME NEW b \in Builders, StoreBuild(b)
      PROVE  y \notin LatestBuilds'
  <2>1. CASE UNCHANGED <<build, buildOrder>>
    BY <1>2, <2>1
  <2>2. CASE SetBuild(builder[b].id, builder[b].result)
    <3>1. builder[b].id \in Builds /\ build[builder[b].id] # "READY"
      BY <1>5 DEF StoreBuild, BuilderInv, AtBuild
    <3>2. builder[b].id \notin LatestBuilds
      BY <3>1 DEF LatestBuilds, LastTwo, ReadyBuilds
    <3>3. builder[b].result \in BuildStates
      BY BuilderFields DEF Results, BuildStates
    <3> QED BY <1>1, <1>5, <2>2, <3>1, <3>2, <3>3, SetBuildLatest
  <2> QED BY <1>5, <2>1, <2>2 DEF StoreBuild
<1>6. ASSUME NEW c \in Builders, NEW s \in {"DELETING", "absent"},
             SetBuild(cleaner[c].cur, s), MarkBuild(c) \/ DeleteBuild(c)
      PROVE  y \notin LatestBuilds'
  <2>1. cleaner[c].stage = "old" /\ cleaner[c].cur \in Builds
    BY <1>6, CleanerFields
       DEF MarkBuild, DeleteBuild, ListedDone, CleanerIn, PassInv, Holding
  <2> QED BY <1>1, <1>6, <2>1, SetBuildLatest DEF BuildStates
<1> QED BY <1>2, <1>3, <1>4, <1>5, <1>6, BuildsStep

(* A build that is doomed remains so until its id is given to a new one. *)
LEMMA DoomedStays ==
    ASSUME AlwaysInv, QuietInv, [Next]_vars, Undisturbed', NEW i \in Builds, Doomed(i),
           \A b \in Builders : ~StartBuild(b, i)
    PROVE  Doomed(i)'
<1>1. TypeOK /\ \A b \in Builders : BuilderInv(b) /\ PassInv(b) /\ HolderInv(b) /\ JudgedInv(b)
  BY DEF AlwaysInv, QuietInv
<1>2. i \notin LatestBuilds'
  <2>1. \A c \in Builders : cleaner[c].stage = "old" => cleaner[c].cur \notin LatestBuilds
    BY <1>1 DEF JudgedInv, Doomed
  <2>2. ASSUME NEW b \in Builders, StoreBuild(b), builder[b].result = "READY"
        PROVE  builder[b].id # i
    BY <2>2 DEF StoreBuild, Holder, Doomed
  <2> QED BY <1>1, <2>1, <2>2, NotLatestStays, UndisturbedBefore DEF Doomed
<1>3. ASSUME NEW b \in Builders, Holder(b)'
      PROVE  builder'[b].id # i
  <2>1. CASE builder'[b] = builder[b]
    BY <1>3, <2>1 DEF Holder, Doomed
  <2>2. CASE BuildWorkerStep(b) \/ LoseSession(b) \/ Crash(b)
    <3>1. \/ \E j \in Builds : StartBuild(b, j) /\ builder'[b].id = j
          \/ Holder(b) /\ builder'[b].id = builder[b].id
      BY <1>1, <1>3, <2>2, BuilderGoes DEF Holder, BuildEnds
    <3> QED BY <3>1 DEF Doomed
  <2> QED BY <1>1, <2>1, <2>2, BuilderMoves
<1> QED BY <1>2, <1>3 DEF Doomed
-----------------------------------------------------------------------------
(* Without disturbance *)

(* The steps that release a build's lock, or take it *)
LEMMA BuildLockMoves ==
    ASSUME TypeOK, [Next]_vars, buildLock' # buildLock
    PROVE  \/ \E b \in Builders, i \in Builds : StartBuild(b, i)
           \/ \E b \in Builders : (StoreBuild(b) \/ LoseSession(b) \/ Crash(b)) /\ buildLock = b
           \/ SessionExpires /\ buildLock = Dead
<1> USE DEF zkBuilds
<1>1. UNCHANGED vars => FALSE
  BY DEF vars
<1>2. ASSUME NEW b \in Builders, BuildWorkerStep(b)
      PROVE  (\E i \in Builds : StartBuild(b, i)) \/ (StoreBuild(b) /\ buildLock = b)
  BY <1>2 DEF BuildWorkerStep, BuildDue, ManualDue, SkipBuild, BuildEnds, StoreBuild
<1>3. ASSUME Environment
      PROVE  \/ \E b \in Builders : (LoseSession(b) \/ Crash(b)) /\ buildLock = b
             \/ SessionExpires /\ buildLock = Dead
  BY <1>3
     DEF Environment, SubmitBuildRequest, SessionExpires, dib_image_delete,
         image_delete, Reconfigure, LoseSession, Crash, LocksPassTo
<1> QED BY <1>1, <1>2, <1>3, UploadWorkerLeaves, CleanupWorkerLeaves DEF Next

(* A build that ends keeps the builder's files, and a result READY stands   *)
(* for a file.                                                             *)
LEMMA BuildEndsFiles ==
    ASSUME TypeOK, NEW b \in Builders, BuildEnds(b)
    PROVE  /\ files[b] \subseteq files'[b]
           /\ builder'[b].id = builder[b].id
           /\ builder'[b].result = "READY" => builder[b].id \in files'[b]
           /\ builder'[b].result = "READY" => ~builder[b].lost
<1>1. PICK t \in IF builder[b].lost THEN {"FAILED"} ELSE {"READY", "FAILED"},
           written \in {{}, {builder[b].id}} :
         /\ t = "READY" => written # {}
         /\ builder' = [builder EXCEPT ![b] = [builder[b] EXCEPT !.step = "built", !.result = t]]
         /\ files' = [files EXCEPT ![b] = files[b] \cup written]
  BY DEF BuildEnds
<1>2. files'[b] = files[b] \cup written
  BY <1>1 DEF TypeOK
<1>3. builder'[b] = [builder[b] EXCEPT !.step = "built", !.result = t]
  BY <1>1 DEF TypeOK
<1>4. builder'[b].id = builder[b].id /\ builder'[b].result = t
  BY <1>3, BuilderFields DEF BuilderRecords
<1> QED BY <1>1, <1>2, <1>4

(* The steps that delete a build's files *)
LEMMA FilesMove ==
    ASSUME TypeOK, [Next]_vars, NEW b \in Builders, NEW i \in files[b], i \notin files'[b]
    PROVE  \/ CleanLocalBuilds(b) /\ Disposable(b, i)
           \/ StoreBuild(b) /\ builder[b].id = i /\ build[i] = "absent"
<1>1. UNCHANGED vars => FALSE
  BY DEF vars
<1>2. ASSUME NEW o \in Builders, BuildWorkerStep(o)
      PROVE  StoreBuild(b) /\ builder[b].id = i /\ build[i] = "absent"
  <2>1. o = b
    BY <1>2, BuildWorkerLeaves
  <2>2. ~BuildEnds(b)
    BY BuildEndsFiles
  <2>3. CASE StoreBuild(b)
    BY <2>3 DEF StoreBuild, TypeOK
  <2> QED
    BY <1>2, <2>1, <2>2, <2>3
       DEF BuildWorkerStep, BuildDue, ManualDue, SkipBuild, StartBuild
<1>3. ASSUME NEW c \in Builders, CleanupWorkerStep(c)
      PROVE  CleanLocalBuilds(b) /\ Disposable(b, i)
  <2>1. CleanLocalBuilds(c)
    BY <1>3, CleanupWorkerLeaves
  <2> QED BY <2>1 DEF CleanLocalBuilds, TypeOK
<1>4. ASSUME Environment
      PROVE  FALSE
  <2>1. \A o \in Builders : ~Crash(o)
    BY DEF Crash, TypeOK
  <2> QED
    BY <1>4, <2>1
       DEF Environment, SubmitBuildRequest, SessionExpires, dib_image_delete,
           image_delete, Reconfigure, LoseSession
<1> QED BY <1>1, <1>2, <1>3, <1>4, UploadWorkerLeaves DEF Next

(* HolderInv: a BuildWorker that has its lock finds its record as it left  *)
(* it.                                                                     *)
LEMMA HolderStep ==
    ASSUME AlwaysInv, QuietInv, [Next]_vars, Undisturbed', NEW b \in Builders
    PROVE  HolderInv(b)'
<1>0. /\ TypeOK /\ b # None /\ b # Dead
      /\ \A o \in Builders : BuilderInv(o) /\ PassInv(o) /\ HolderInv(o) /\ JudgedInv(o)
  BY BuilderAssumption DEF AlwaysInv, QuietInv
<1> SUFFICES ASSUME Holder(b)'
             PROVE  HolderInv(b)'
  BY DEF HolderInv
<1>1. \/ \E i \in Builds : StartBuild(b, i) /\ builder'[b].id = i
                           /\ builder'[b].step = "building"
      \/ /\ Holder(b) /\ builder'[b].id = builder[b].id
         /\ BuildEnds(b) \/ builder'[b].step = builder[b].step
  <2>1. CASE builder'[b] = builder[b]
    BY <2>1 DEF Holder
  <2>2. CASE BuildWorkerStep(b) \/ LoseSession(b) \/ Crash(b)
    BY <1>0, <2>2, BuilderGoes DEF Holder, BuildEnds
  <2> QED BY <1>0, <2>1, <2>2, BuilderMoves
<1>2. CASE \E i \in Builds : StartBuild(b, i) /\ builder'[b].id = i
                             /\ builder'[b].step = "building"
  BY <1>0, <1>2 DEF StartBuild, SetBuild, HolderInv, TypeOK
<1>3. CASE /\ Holder(b) /\ builder'[b].id = builder[b].id
           /\ BuildEnds(b) \/ builder'[b].step = builder[b].step
  <2> DEFINE i == builder[b].id
  <2>1. /\ buildLock = b /\ build[i] = "BUILDING" /\ i \in Builds /\ AtBuild(b)
        /\ builder[b].step = "built" => i \in files[b]
    BY <1>0, <1>3 DEF HolderInv, Holder, BuilderInv, AtBuild
  <2>2. ~StoreBuild(b) /\ ~LoseSession(b) /\ ~Crash(b)
    <3>1. ASSUME StoreBuild(b) \/ Crash(b)
          PROVE  builder'[b].step = "idle"
      BY <1>0, <3>1 DEF StoreBuild, BuilderDone, Crash, IdleBuilder, TypeOK
    <3>2. ASSUME LoseSession(b)
          PROVE  builder[b].step = "building" /\ builder'[b].lost
                 /\ builder'[b].step = "building"
      <4>1. builder[b].step = "building"
        BY <1>0, <2>1, <3>2, UndisturbedBefore DEF AtBuild
      <4> QED BY <1>0, <3>2, <4>1 DEF LoseSession, TypeOK, BuilderRecords
    <3> QED BY <3>1, <3>2 DEF Holder
  <2>3. buildLock' = b
    BY <1>0, <2>1, <2>2, BuildLockMoves DEF StartBuild
  <2>4. build'[i] = "BUILDING"
    <3>1. ASSUME NEW j, NEW s, SetBuild(j, s), j # i
          PROVE  build'[i] = "BUILDING"
      BY <1>0, <2>1, <3>1 DEF SetBuild, TypeOK
    <3>2. ASSUME NEW j, Touch(j)
          PROVE  build'[i] = "BUILDING"
      BY <1>0, <2>1, <3>2 DEF Touch, TypeOK
    <3>3. ASSUME NEW o \in Builders, NEW j \in Builds, StartBuild(o, j)
          PROVE  build'[i] = "BUILDING"
      BY <2>1, <3>1, <3>3 DEF StartBuild, FreshBuild
    <3>4. ASSUME NEW o \in Builders, StoreBuild(o)
          PROVE  build'[i] = "BUILDING"
      <4>1. o # b /\ AtBuild(o)
        BY <2>2, <3>4 DEF StoreBuild, AtBuild
      <4>2. builder[o].id # i
        BY <1>0, <2>1, <4>1 DEF BuilderInv
      <4> QED BY <2>1, <3>1, <3>4, <4>2 DEF StoreBuild
    <3>5. ASSUME NEW c \in Builders, MarkBuild(c) \/ DeleteBuild(c)
          PROVE  cleaner[c].cur # i
      <4>1. cleaner[c].stage = "old"
        BY <1>0, <3>5 DEF MarkBuild, DeleteBuild, ListedDone, CleanerIn, PassInv
      <4> QED BY <1>0, <1>3, <4>1 DEF JudgedInv, Doomed
    <3>6. ASSUME NEW c \in Builders, NEW s, MarkBuild(c) \/ DeleteBuild(c),
                 SetBuild(cleaner[c].cur, s)
          PROVE  build'[i] = "BUILDING"
      BY <3>1, <3>5, <3>6
    <3>7. \A j \in Builds : ~dib_image_delete(j)
      BY <1>0, UndisturbedBefore
    <3> QED BY <1>0, <2>1, <3>2, <3>3, <3>4, <3>6, <3>7, BuildsStep
  <2>5. builder'[b].step = "built" => i \in files'[b]
    <3>1. CASE BuildEnds(b)
      BY <1>0, <3>1, BuildEndsFiles DEF Holder
    <3>2. CASE ~BuildEnds(b)
      <4>1. ~Disposable(b, i)
        BY <2>1 DEF Disposable, Prunable
      <4> QED BY <1>0, <1>3, <2>1, <2>2, <3>2, <4>1, FilesMove
    <3> QED BY <3>1, <3>2
  <2> QED BY <1>3, <2>3, <2>4, <2>5 DEF HolderInv
<1> QED BY <1>1, <1>2, <1>3

(* JudgedInv: what a pass does not keep is doomed, however old its list    *)
(* is.                                                                     *)
LEMMA JudgedStep ==
    ASSUME AlwaysInv, QuietInv, [Next]_vars, Undisturbed', NEW c \in Builders
    PROVE  JudgedInv(c)'
<1> DEFINE cl == cleaner[c]
           cn == cleaner'[c]
<1>0. /\ TypeOK /\ PassInv(c) /\ JudgedInv(c) /\ None \notin Builders
      /\ \A b \in Builders : HolderInv(b)
      /\ cl.keep \subseteq Builds /\ cl.snap \in [Builds -> BuildStates]
      /\ cl.cur \in Builds \cup {None}
  BY BuilderAssumption, CleanerFields DEF AlwaysInv, QuietInv
(* A build that was listed is not new. *)
<1>1. ASSUME NEW i \in Builds, Doomed(i), cl.snap[i] # "absent"
      PROVE  Doomed(i)'
  BY <1>1, DoomedStays DEF StartBuild, FreshBuild
<1>2. cl.stage = "old" => cl.cur \in Builds /\ cl.snap[cl.cur] # "absent"
  BY <1>0 DEF PassInv
<1>3. ASSUME cn.snap = cl.snap, cn.keep = cl.keep,
             cn.stage = "old" => Doomed(cl.cur) /\ cn.cur = cl.cur /\ cl.cur \in Builds
                                 /\ cl.snap[cl.cur] # "absent"
      PROVE  JudgedInv(c)'
  BY <1>0, <1>1, <1>3 DEF JudgedInv
<1>4. CASE cn = cl \/ SamePass(c)
  BY <1>0, <1>2, <1>3, <1>4 DEF SamePass, JudgedInv
<1>5. CASE cn = IdleCleaner
  BY <1>5 DEF JudgedInv, IdleCleaner
<1>6. CASE CleanupWorkerStep(c)
  <2>1. CASE /\ cn.step = "list" /\ cn.snap = build /\ cl.step = "table"
             /\ cn.keep = (IF config[c]["clean"] = None THEN {} ELSE LatestBuilds)
             /\ cn.cur = cl.cur /\ cn.stage = cl.stage
    <3>1. config[c]["clean"] # None
      <4>1. reconfigs = 0
        BY <1>0, UndisturbedBefore DEF Undisturbed
      <4> QED BY <4>1, BuilderAssumption DEF AlwaysInv, ConfigInv, Workers
    <3>2. \A i \in cn.keep : cn.snap[i] = "READY"
      BY <2>1, <3>1 DEF LatestBuilds, LastTwo, ReadyBuilds
    <3>3. ASSUME NEW i \in Builds, i \notin cn.keep, cn.snap[i] \in {"READY", "FAILED", "DELETING"}
          PROVE  Doomed(i)'
      <4>1. Doomed(i)
        <5>1. i \notin LatestBuilds
          BY <2>1, <3>1, <3>3
        <5> QED BY <1>0, <2>1, <3>3, <5>1 DEF Doomed, HolderInv
      <4>2. \A b \in Builders : ~StartBuild(b, i)
        BY <2>1, <3>3 DEF StartBuild, FreshBuild
      <4> QED BY <4>1, <4>2, DoomedStays
    <3>4. cn.stage # "old"
      BY <1>0, <2>1 DEF PassInv
    <3> QED BY <3>2, <3>3, <3>4 DEF JudgedInv
  <2>2. CASE cn.stage = "current" /\ cn.snap = cl.snap /\ cn.keep = cl.keep
    BY <1>3, <2>2
  <2>3. CASE FinishedPass(c)
    BY <1>0, <1>1, <2>3 DEF JudgedInv, FinishedPass
  <2>4. CASE /\ cl.step = "list" /\ cl.stage = "current"
             /\ cn.stage = "old" /\ cn.cur = cl.cur /\ cn.snap = cl.snap /\ cn.keep = cl.keep
             /\ \/ cl.snap[cl.cur] = "DELETING"
                \/ /\ cl.cur \notin cl.keep
                   /\ cl.snap[cl.cur] # "BUILDING" \/ ~InProgressBuild(cl.cur)
    <3>1. cl.cur \in Builds /\ cl.snap[cl.cur] \notin {"absent", "blank"}
      BY <1>0, <2>4 DEF PassInv
    <3>2. cl.snap[cl.cur] \in BuildStates
      BY <1>0, <3>1
    <3>3. CASE cl.snap[cl.cur] = "BUILDING"
      <4>1. buildLock = None /\ build[cl.cur] # "READY"
        BY <1>0, <2>4, <3>3 DEF InProgressBuild
      <4>2. Doomed(cl.cur)
        BY <1>0, <4>1 DEF Doomed, HolderInv, LatestBuilds, LastTwo, ReadyBuilds
      <4> QED BY <1>3, <2>4, <3>1, <4>2
    <3>4. CASE cl.snap[cl.cur] # "BUILDING"
      <4>1. cl.snap[cl.cur] \in {"READY", "FAILED", "DELETING"}
        BY <3>1, <3>2, <3>4 DEF BuildStates
      <4>2. Doomed(cl.cur)
        BY <1>0, <2>4, <3>1, <3>4, <4>1 DEF JudgedInv
      <4> QED BY <1>3, <2>4, <3>1, <4>2
    <3> QED BY <3>3, <3>4
  <2> HIDE DEF cl, cn
  <2> QED BY <1>0, <1>4, <1>5, <1>6, <2>1, <2>2, <2>3, <2>4, CleanerPasses DEF cl, cn
<1> QED BY <1>0, <1>4, <1>5, <1>6, CleanerMoves
-----------------------------------------------------------------------------
(* With no session lost *)

(* A READY upload of one of the latest builds is left alone. *)
LEMMA LatestUploadStays ==
    ASSUME AlwaysInv, QuietInv, LosslessInv, [Next]_vars, Undisturbed',
           NEW u \in Uploads, upload[u].state = "READY", upload'[u] # upload[u]
    PROVE  upload[u].build \notin LatestBuilds
<1>0. /\ TypeOK /\ \A w \in UploadWorkers : UploaderInv(w)
      /\ \A c \in Builders : PassInv(c) /\ SeenInv(c) /\ JudgedInv(c) /\ HeldInv(c)
  BY DEF AlwaysInv, QuietInv, LosslessInv
<1>1. ASSUME NEW w \in UploadWorkers, StartUpload(w, u) \/ AtUpload(w, u)
      PROVE  FALSE
  BY <1>0, <1>1 DEF StartUpload, FreshUpload, AtUpload, UploaderInv
<1>2. ASSUME NEW c \in Builders, DropUpload(c) \/ EraseUpload(c) \/ MarkUpload(c),
             cleaner[c].held = u
      PROVE  upload[u].build \notin LatestBuilds
  <2>1. cleaner[c].step \in {"drop", "erase", "mark"}
    BY <1>2 DEF DropUpload, EraseUpload, MarkUpload, CleanerIn
  <2> QED BY <1>0, <1>2, <2>1 DEF SeenInv, HeldInv, Holding, Doomed
<1>3. ASSUME NEW c \in Builders, DeleteBuild(c), upload[u].build = cleaner[c].cur
      PROVE  upload[u].build \notin LatestBuilds
  BY <1>0, <1>3 DEF DeleteBuild, CleanerIn, PassInv, JudgedInv, Doomed
<1> QED BY <1>0, <1>1, <1>2, <1>3, UploadMoves, UndisturbedBefore

(* Only an UploadWorker makes an upload READY. *)
LEMMA NotReadyUploadStays ==
    ASSUME AlwaysInv, [Next]_vars, NEW u \in Uploads, upload[u].state # "READY",
           \A w \in UploadWorkers : ~AtUpload(w, u)
    PROVE  upload'[u].state # "READY"
<1>1. TypeOK /\ (\A w \in UploadWorkers : UploaderInv(w)) /\ (\A c \in Builders : SeenInv(c))
  BY DEF AlwaysInv
<1>2. CASE upload'[u] = upload[u]
  BY <1>2
<1>3. CASE upload'[u] # upload[u]
  <2>1. \/ \E w \in UploadWorkers : upload'[u] = Started(w)
        \/ upload'[u] = NoUpload
        \/ upload'[u].state = "DELETING"
    BY <1>1, <1>3, UploadMoves
  <2>2. NoUpload.state = "absent" /\ \A w \in UploadWorkers : Started(w).state = "UPLOADING"
    BY DEF Started, NoUpload
  <2> QED BY <2>1, <2>2
<1> QED BY <1>2, <1>3

(* The steps that change the lock of an upload *)
LEMMA UploadLockMoves ==
    ASSUME TypeOK, [Next]_vars, NEW x \in Builds \X Providers, uploadLock'[x] # uploadLock[x]
    PROVE  \/ uploadLock[x] = None
           \/ \E w \in UploadWorkers : /\ UploadRaises(w) \/ StoreUpload(w)
                                       /\ uploadLock[x] = w
           \/ \E c \in Builders : DeleteBuild(c) /\ x[1] = cleaner[c].cur
           \/ \E b \in Builders : LoseSession(b)
           \/ \E b \in Builders : Crash(b) /\ uploadLock[x] \in Uploaders(b)
           \/ uploadLock[x] = Dead
<1> USE DEF zkUploads
<1>0. DOMAIN uploadLock = Builds \X Providers
  BY DEF TypeOK
<1>1. ~UNCHANGED uploadLock
  OBVIOUS
<1>2. ~UNCHANGED vars
  BY DEF vars
<1>3. ASSUME NEW b \in Builders, BuildWorkerStep(b)
      PROVE  FALSE
  BY <1>3, BuildWorkerLeaves
<1>4. ASSUME NEW w \in UploadWorkers, UploadWorkerStep(w)
      PROVE  \/ uploadLock[x] = None
             \/ /\ UploadRaises(w) \/ StoreUpload(w)
                /\ uploadLock[x] = w
  <2>1. CASE LockUpload(w)
    <3>1. PICK y : /\ uploadLock[y] = None
                   /\ \/ uploadLock' = uploadLock
                      \/ uploadLock' = [uploadLock EXCEPT ![y] = w]
      BY <2>1 DEF LockUpload
    <3>2. x = y
      <4>1. ASSUME NEW f, DOMAIN f = Builds \X Providers, NEW z, x # z,
                   uploadLock' = [f EXCEPT ![z] = w]
            PROVE  uploadLock'[x] = f[x]
        BY <4>1
      <4> QED BY <1>0, <3>1, <4>1
    <3> QED BY <3>1, <3>2
  <2>2. CASE UploadRaises(w) \/ StoreUpload(w)
    BY <1>0, <2>2 DEF UploadRaises, StoreUpload, ReleaseUpload
  <2> QED
    BY <1>4, <2>1, <2>2
       DEF UploadWorkerStep, FindUpload, SkipUpload, StartUpload, UploadEnds,
           UploadHookFails
<1>5. ASSUME NEW c \in Builders, CleanupWorkerStep(c)
      PROVE  DeleteBuild(c) /\ x[1] = cleaner[c].cur
  <2>1. DeleteBuild(c)
    BY <1>5, CleanupWorkerLeaves
  <2> QED BY <1>0, <2>1 DEF DeleteBuild
<1>6. ASSUME Environment
      PROVE  \/ \E b \in Builders : LoseSession(b)
             \/ \E b \in Builders : Crash(b) /\ uploadLock[x] \in Uploaders(b)
             \/ uploadLock[x] = Dead
  <2>1. ASSUME NEW b \in Builders, Crash(b)
        PROVE  uploadLock[x] \in Uploaders(b)
    BY <1>0, <2>1 DEF Crash, LocksPassTo
  <2>2. ASSUME SessionExpires
        PROVE  uploadLock[x] = Dead
    BY <1>0, <2>2 DEF SessionExpires
  <2> QED
    BY <1>6, <2>1, <2>2
       DEF Environment, SubmitBuildRequest, dib_image_delete, image_delete, Reconfigure
<1> QED BY <1>2, <1>3, <1>4, <1>5, <1>6 DEF Next

(* A build that an UploadWorker or a pass is at is not new, *)
LEMMA DoomedKept ==
    ASSUME AlwaysInv, QuietInv, [Next]_vars, Undisturbed', NEW i \in Builds, Doomed(i),
           \/ \E w \in UploadWorkers : uploader[w].build = i
           \/ \E c \in Builders : cleaner[c].cur = i
    PROVE  Doomed(i)'
<1>1. \A c \in Builders : PassInv(c)
  BY DEF AlwaysInv
<1>2. ASSUME NEW b \in Builders, StartBuild(b, i)
      PROVE  FALSE
  BY <1>1, <1>2, BuilderAssumption DEF StartBuild, FreshBuild, PassInv
<1> QED BY <1>2, DoomedStays

(* LockedInv: an UploadWorker has its lock, unless its build is being      *)
(* deleted.                                                                *)
LEMMA LockedStep ==
    ASSUME AlwaysInv, QuietInv, LosslessInv, [Next]_vars, Undisturbed', losses' = 0,
           NEW w \in UploadWorkers
    PROVE  LockedInv(w)'
<1>0. /\ TypeOK /\ (\A v \in UploadWorkers : UploaderInv(v)) /\ LockedInv(w)
      /\ \A c \in Builders : PassInv(c) /\ SeenInv(c) /\ JudgedInv(c) /\ HeldInv(c)
      /\ w # None /\ w # Dead
  BY BuilderAssumption DEF AlwaysInv, QuietInv, LosslessInv
<1>1. ASSUME uploader'[w].step \in {"checked", "uploading", "done"}
      PROVE  \/ uploadLock'[<<uploader'[w].build, uploader'[w].provider>>] = w
             \/ \E i : uploader'[w].build = i /\ Doomed(i)'
  <2>1. \/ /\ uploader[w].step \in {"checked", "uploading", "done"}
           /\ uploader'[w].build = uploader[w].build
           /\ uploader'[w].provider = uploader[w].provider
        \/ /\ uploader[w].step = "found" /\ uploader'[w].build = uploader[w].build
           /\ uploader'[w].provider = uploader[w].provider
           /\ uploadLock' = [uploadLock EXCEPT
                               ![<<uploader[w].build, uploader[w].provider>>] = w]
    <3>1. CASE uploader'[w] = uploader[w]
      BY <1>1, <3>1
    <3>2. CASE UploadWorkerStep(w)
      BY <1>0, <1>1, <3>2, UploaderGoes DEF LockUpload, StartUpload
    <3>3. CASE uploader'[w] = IdleUploader
      BY <1>1, <3>3 DEF IdleUploader
    <3> QED BY <1>0, <3>1, <3>2, <3>3, UploaderMoves
  <2>i. PICK i : i = uploader[w].build
    OBVIOUS
  <2> DEFINE x == <<i, uploader[w].provider>>
  <2>2. i \in Builds /\ x \in Builds \X Providers
    BY <1>0, <2>1, <2>i DEF UploaderInv
  <2>3. CASE uploadLock' = [uploadLock EXCEPT ![x] = w]
    BY <1>0, <2>1, <2>2, <2>3, <2>i DEF TypeOK
  <2>4. CASE uploader[w].step \in {"checked", "uploading", "done"}
    <3>1. uploader'[w].build = i /\ uploader'[w].provider = uploader[w].provider
      BY <2>1, <2>i
    <3>2. Doomed(i) => Doomed(i)'
      BY <2>2, <2>i, DoomedKept
    <3>3. CASE Doomed(i)
      BY <3>1, <3>2, <3>3
    <3>4. CASE uploadLock[x] = w /\ uploadLock'[x] # w
      <4>1. ASSUME UploadRaises(w) \/ StoreUpload(w) \/ \E b \in Builders : Crash(b) /\ w \in Uploaders(b)
            PROVE  FALSE
        BY <1>0, <1>1, <4>1
           DEF UploadRaises, StoreUpload, UploaderDone, IdleUploader, Crash, Uploaders,
               TypeOK
      <4>2. PICK c \in Builders : DeleteBuild(c) /\ i = cleaner[c].cur
        BY <1>0, <2>2, <3>4, <4>1, UploadLockMoves, Events
      <4>3. Doomed(i)
        BY <1>0, <4>2 DEF DeleteBuild, CleanerIn, PassInv, JudgedInv
      <4> QED BY <3>3, <4>3
    <3> QED BY <1>0, <2>4, <2>i, <3>1, <3>3, <3>4 DEF LockedInv
  <2> QED BY <2>1, <2>3, <2>4, <2>i
<1>2. ASSUME uploader'[w].step \in {"uploading", "done"}, NEW u, u = uploader'[w].id,
             upload'[u].state = "DELETING"
      PROVE  \E i : uploader'[w].build = i /\ Doomed(i)'
  <2>1. AtUpload(w, u)'
    BY <1>2 DEF AtUpload
  <2>2. ~StartUpload(w, u) \/ u \notin Uploads
    BY <1>0, <1>2 DEF StartUpload, SetUpload, TypeOK
  <2>3. AtUpload(w, u) /\ ~StoreUpload(w) /\ uploader[w].step # "idle"
        /\ uploader'[w].build = uploader[w].build
    BY <1>0, <2>1, <2>2, AtUploadMoves
  <2>4. uploader[w].build \in Builds /\ u \in Uploads
        /\ \A o \in UploadWorkers \ {w} : ~AtUpload(o, u)
    BY <1>0, <2>3 DEF UploaderInv, AtUpload
  <2>5. Doomed(uploader[w].build)
    <3>1. CASE upload'[u] = upload[u]
      BY <1>0, <1>2, <2>3, <3>1 DEF LockedInv, AtUpload
    <3>2. ASSUME NEW c \in Builders, MarkUpload(c), cleaner[c].held = u
          PROVE  Doomed(uploader[w].build)
      BY <1>0, <2>3, <3>2 DEF MarkUpload, CleanerIn, SeenInv, HeldInv, Holding
    <3>3. ASSUME NEW v \in UploadWorkers, StoreUpload(v), AtUpload(v, u)
          PROVE  FALSE
      BY <2>3, <2>4, <3>3
    <3>4. CASE upload'[u] # upload[u]
      <4>1. ~image_delete(u)
        BY <1>0, <2>4, UndisturbedBefore
      <4>2. ~\E v \in UploadWorkers : upload'[u] = Started(v)
        <5>1. \A v \in UploadWorkers : Started(v).state = "UPLOADING"
          BY DEF Started
        <5> QED BY <1>2, <5>1
      <4>3. upload'[u] # NoUpload
        BY <1>2 DEF NoUpload
      <4> QED BY <1>0, <2>4, <3>2, <3>3, <3>4, <4>1, <4>2, <4>3, UploadMoves
    <3> QED BY <3>1, <3>4
  <2>6. PICK i : i = uploader[w].build
    OBVIOUS
  <2>7. Doomed(i)'
    BY <2>4, <2>5, <2>6, DoomedKept
  <2> QED BY <2>3, <2>6, <2>7
<1> QED BY <1>1, <1>2 DEF LockedInv

(* Undisturbed, every provider is wanted. *)
LEMMA AllWanted ==
    ASSUME ConfigInv, Undisturbed, NEW c \in Builders
    PROVE  config[c]["clean"] # None /\ Wanted(c, "clean") = Providers
<1>1. config[c]["clean"] = Providers
  BY DEF ConfigInv, Undisturbed, Workers
<1> QED BY <1>1, BuilderAssumption DEF Wanted

(* HeldInv: what a CleanupWorker decided to delete is no upload in         *)
(* progress, and none that is READY.                                       *)
LEMMA HeldStep ==
    ASSUME AlwaysInv, QuietInv, LosslessInv, [Next]_vars, Undisturbed', losses' = 0,
           NEW c \in Builders
    PROVE  HeldInv(c)'
<1>0. /\ TypeOK /\ ConfigInv /\ PassInv(c) /\ SeenInv(c) /\ JudgedInv(c) /\ HeldInv(c)
      /\ (\A d \in Builders : PassInv(d) /\ SeenInv(d))
      /\ (\A w \in UploadWorkers : UploaderInv(w) /\ LockedInv(w) /\ w # None)
      /\ \A v \in Uploads : RecordInv(v)
  BY BuilderAssumption DEF AlwaysInv, QuietInv, LosslessInv
<1> SUFFICES ASSUME cleaner'[c].step \in Holding \ {"check"}
             PROVE  HeldInv(c)'
  BY DEF HeldInv
<1>1. PICK u : u = cleaner'[c].held
  OBVIOUS
<1>2. PICK i : i = cleaner'[c].cur
  OBVIOUS
<1>3. GoesOn(c) \/ (u \in Uploads /\ Takes(c, u))
  <2>1. GoesOn(c) \/ \E v \in Uploads : Takes(c, v)
    BY <1>0, CleanerHolds
  <2> QED BY <1>1, <2>1 DEF Takes
<1>4. /\ u \in Uploads /\ cleaner[c].cur = i
      /\ \A w \in UploadWorkers : ~StartUpload(w, u)
  BY <1>0, <1>1, <1>2, <1>3, HeldKnown DEF GoesOn, Takes
<1>5. i \in Builds /\ cleaner[c].stage \in {"current", "old"}
  <2>1. /\ cleaner[c].cur \in Builds \cup {None}
        /\ cleaner[c].stage \in {"none", "current", "old"}
    BY <1>0, CleanerFields
  <2>2. CASE GoesOn(c)
    BY <1>0, <1>4, <2>1, <2>2 DEF GoesOn, PassInv
  <2>3. CASE Takes(c, u)
    <3>1. i \in Builds
      BY <1>0, <1>4, <2>3 DEF Takes, RecordInv
    <3> QED BY <1>0, <1>4, <2>1, <3>1, BuilderAssumption DEF PassInv
  <2> QED BY <1>3, <2>2, <2>3
<1>6. CASE Doomed(i)
  <2>1. Doomed(i)'
    BY <1>4, <1>5, <1>6, DoomedKept
  <2> QED BY <1>2, <2>1 DEF HeldInv
<1>7. CASE ~Doomed(i)
  <2>1. cleaner[c].stage = "current"
    BY <1>0, <1>4, <1>5, <1>7 DEF JudgedInv
  <2>2. Wanted(c, "clean") = Providers
    BY <1>0, AllWanted, UndisturbedBefore
  <2>3. /\ \A w \in UploadWorkers : ~AtUpload(w, u)
        /\ cleaner'[c].step # "recheck" => upload[u].state # "READY"
    <3>1. CASE Takes(c, u)
      <4>1. upload[u].build = i /\ upload[u].state # "absent" /\ upload[u].provider \in Providers
        BY <1>0, <1>4, <3>1 DEF Takes, RecordInv
      <4>2. upload[u].state # "READY"
        BY <2>1, <2>2, <3>1, <4>1 DEF Takes, Deletable
      <4>3. upload[u].state \in {"DELETING", "FAILED"}
        BY <3>1, <4>2 DEF Takes
      <4>4. ASSUME NEW w \in UploadWorkers, AtUpload(w, u)
            PROVE  FALSE
        BY <1>0, <1>7, <4>1, <4>3, <4>4 DEF AtUpload, UploaderInv, LockedInv
      <4> QED BY <4>2, <4>4
    <3>2. CASE GoesOn(c)
      <4> DEFINE q == cleaner[c].seen.provider
      <4>1. /\ cleaner[c].held = u /\ cleaner[c].seen.build = i /\ q \in Providers
            /\ \A w \in UploadWorkers : AtUpload(w, u) =>
                  uploader[w].build = i /\ uploader[w].provider = q
        BY <1>0, <1>1, <1>4, <3>2 DEF GoesOn, SeenInv
      <4>2. CASE /\ cleaner[c].step # "check"
        <5>1. /\ \A w \in UploadWorkers : ~AtUpload(w, u)
              /\ cleaner[c].step # "recheck" => upload[u].state # "READY"
          BY <1>0, <1>4, <1>7, <3>2, <4>1, <4>2 DEF GoesOn, HeldInv
        <5> QED BY <3>2, <4>1, <4>2, <5>1 DEF GoesOn
      <4>3. CASE cleaner[c].step = "check"
        <5>1. uploadLock[<<i, q>>] = None /\ cleaner'[c].step = "recheck"
          BY <2>1, <2>2, <3>2, <4>1, <4>3 DEF GoesOn, Cruft
        <5>2. ASSUME NEW w \in UploadWorkers, AtUpload(w, u)
              PROVE  FALSE
          BY <1>0, <1>7, <4>1, <5>1, <5>2 DEF AtUpload, LockedInv
        <5> QED BY <5>1, <5>2
      <4> QED BY <4>2, <4>3
    <3> QED BY <1>3, <3>1, <3>2
  <2>4. ASSUME NEW w \in UploadWorkers
        PROVE  ~AtUpload(w, u)'
    BY <1>0, <1>4, <2>3, AtUploadMoves
  <2>5. cleaner'[c].step # "recheck" => upload'[u].state # "READY"
    BY <1>4, <2>3, NotReadyUploadStays
  <2>6. \A w \in UploadWorkers : ~(AtUpload(w, cleaner[c].held))'
    BY <1>1, <2>4 DEF AtUpload
  <2> QED BY <1>1, <2>5, <2>6 DEF HeldInv
<1> QED BY <1>6, <1>7

(* The files or the uploads of one of the latest builds remain; those of   *)
(* one that joins them are there.                                          *)
LEMMA CurrentStep ==
    ASSUME AlwaysInv, QuietInv, LosslessInv, [Next]_vars, Undisturbed', losses' = 0
    PROVE  CurrentBuildSomewhere'
<1>0. /\ TypeOK /\ TypeOK' /\ ConfigInv /\ CurrentBuildSomewhere /\ Undisturbed /\ losses = 0
      /\ \A b \in Builders : BuilderInv(b) /\ PassInv(b) /\ HolderInv(b) /\ JudgedInv(b)
      /\ \A i \in Builds : ~dib_image_delete(i)
  BY TypeStep, UndisturbedBefore, Events DEF AlwaysInv, QuietInv, LosslessInv
<1>1. \A i \in LatestBuilds :
         \/ \E b \in Builders : i \in files[b]
         \/ DeleteAfterUpload /\ \A q \in Providers : ReadyUploads(i, q) # {}
  BY <1>0 DEF CurrentBuildSomewhere, Undisturbed
<1> SUFFICES ASSUME NEW i \in LatestBuilds'
             PROVE  \/ \E b \in Builders : i \in files'[b]
                    \/ DeleteAfterUpload /\ \A q \in Providers : ReadyUploads(i, q)' # {}
  BY DEF CurrentBuildSomewhere
<1>2. i \in Builds /\ build'[i] = "READY"
  BY DEF LatestBuilds, LastTwo, ReadyBuilds
<1>3. CASE i \notin LatestBuilds
  <2>1. PICK b \in Builders : StoreBuild(b) /\ builder[b].id = i /\ builder[b].result = "READY"
    <3>1. \A c \in Builders : cleaner[c].stage = "old" => cleaner[c].cur \notin LatestBuilds
      BY <1>0 DEF JudgedInv, Doomed
    <3> QED BY <1>0, <1>2, <1>3, <3>1, NotLatestStays
  <2>2. i \in files[b] /\ build[i] = "BUILDING"
    BY <1>0, <2>1 DEF StoreBuild, Holder, HolderInv
  <2>3. files' = files
    BY <2>1, <2>2 DEF StoreBuild
  <2> QED BY <2>2, <2>3
<1>4. CASE i \in LatestBuilds
  <2>1. build[i] = "READY"
    BY <1>4 DEF LatestBuilds, LastTwo, ReadyBuilds
  <2>2. ASSUME NEW b \in Builders, i \in files[b], i \notin files'[b]
        PROVE  DeleteAfterUpload /\ \A q \in Providers : ReadyUploads(i, q)' # {}
    <3>1. CleanLocalBuilds(b) /\ Prunable(b, i)
      BY <1>0, <2>1, <2>2, FilesMove DEF Disposable
    <3>2. upload' = upload
      BY <3>1 DEF CleanLocalBuilds, zkUploads
    <3>3. Wanted(b, "clean") = Providers
      BY <1>0, AllWanted
    <3> QED BY <3>1, <3>2, <3>3 DEF Prunable, ReadyUploads, UploadsOf
  <2>3. ASSUME NEW q \in Providers, ReadyUploads(i, q) # {}
        PROVE  ReadyUploads(i, q)' # {}
    <3>1. PICK u \in Uploads : /\ upload[u].build = i /\ upload[u].provider = q
                               /\ upload[u].state = "READY"
      BY <2>3 DEF ReadyUploads, UploadsOf
    <3>2. upload'[u] = upload[u]
      BY <1>4, <3>1, LatestUploadStays
    <3> QED BY <3>1, <3>2 DEF ReadyUploads, UploadsOf
  <2> QED BY <1>1, <1>4, <2>2, <2>3
<1> QED BY <1>3, <1>4
-----------------------------------------------------------------------------
(* Theorems *)

(* The invariant of the builders, for every number of builders, workers,   *)
(* providers, builds, uploads and events.                                  *)
THEOREM BuilderInvariant == Spec => []IInv
<1>1. Init => IInv
  BY AlwaysInit
<1>2. IInv /\ [Next]_vars => IInv'
  <2> SUFFICES ASSUME IInv, [Next]_vars
               PROVE  IInv'
    OBVIOUS
  <2>1. AlwaysInv /\ AlwaysInv' /\ TypeOK
    BY AlwaysStep DEF IInv, AlwaysInv
  <2>2. ASSUME Undisturbed'
        PROVE  QuietInv /\ QuietInv'
    <3>1. QuietInv
      BY <2>1, <2>2, UndisturbedBefore DEF IInv
    <3>2. \A b \in Builders : HolderInv(b)' /\ JudgedInv(b)'
      BY <2>1, <2>2, <3>1, HolderStep, JudgedStep
    <3> QED BY <3>1, <3>2 DEF QuietInv
  <2>3. ASSUME Undisturbed', losses' = 0
        PROVE  LosslessInv'
    <3>1. QuietInv /\ LosslessInv
      BY <2>1, <2>2, <2>3, UndisturbedBefore, Events DEF IInv
    <3>2. /\ \A b \in Builders : HeldInv(b)'
          /\ \A w \in UploadWorkers : LockedInv(w)'
          /\ CurrentBuildSomewhere'
      BY <2>1, <2>3, <3>1, HeldStep, LockedStep, CurrentStep
    <3> QED BY <3>2 DEF LosslessInv
  <2> QED BY <2>1, <2>2, <2>3 DEF IInv
<1> QED BY <1>1, <1>2, PTL DEF Spec

(* Every variable stays within its type; READY builds and uploads are      *)
(* always in the order of their state times.                               *)
THEOREM TypeCorrect == Spec => []TypeOK
<1>1. IInv => TypeOK
  BY DEF IInv, AlwaysInv
<1> QED BY <1>1, BuilderInvariant, PTL

(* A READY upload has its image at the provider: _deleteUpload stores      *)
(* DELETING before it has the provider delete the image, and nothing       *)
(* makes that upload READY again.                                          *)
THEOREM ReadyInCloud == Spec => []ReadyUploadInCloud
<1>1. IInv => ReadyUploadInCloud
  BY DEF IInv, AlwaysInv, RecordInv, ReadyUploadInCloud
<1> QED BY <1>1, BuilderInvariant, PTL

(* The data of the two latest builds is on a disk or at every provider:    *)
(* the deletions of _cleanup and of _pruneLocalBuildFormats never take     *)
(* the last copy.                                                          *)
THEOREM CurrentKept == Spec => []CurrentBuildSomewhere
<1>1. IInv => CurrentBuildSomewhere
  <2> SUFFICES ASSUME IInv, userDeletes + reconfigs + losses = 0
               PROVE  CurrentBuildSomewhere
    BY DEF CurrentBuildSomewhere
  <2>1. TypeOK
    BY DEF IInv, AlwaysInv
  <2>2. userDeletes \in Nat /\ reconfigs \in Nat /\ losses \in Nat
    BY <2>1, Bounds
  <2>3. userDeletes = 0 /\ reconfigs = 0 /\ losses = 0
    BY <2>2
  <2> QED BY <2>3 DEF IInv, Undisturbed, LosslessInv
<1> QED BY <1>1, BuilderInvariant, PTL

(* A build ceases to be READY only after two newer ones are, although      *)
(* _cleanupImage works from a list of builds that may be old. A session    *)
(* lost between the end of dib and the store of its result is left out     *)
(* (LateLoss): that result is stored without the lock.                     *)
THEOREM BuildsKept == ASSUME ~LateLoss PROVE Spec => TwoBuildsKept
<1> DEFINE Kept == userDeletes' = 0 /\ reconfigs' = 0
                   => \A i \in Builds : build[i] = "READY" /\ build'[i] # "READY"
                                        => i \notin LatestBuilds
<1>1. IInv /\ [Next]_vars => [Kept]_vars
  <2> SUFFICES ASSUME IInv, [Next]_vars, userDeletes' = 0, reconfigs' = 0,
                      NEW i \in Builds, build[i] = "READY", build'[i] # "READY"
               PROVE  i \notin LatestBuilds
    OBVIOUS
  <2>1. Undisturbed'
    BY DEF Undisturbed
  <2>2. AlwaysInv /\ TypeOK
    BY DEF IInv, AlwaysInv
  <2>3. QuietInv /\ ~dib_image_delete(i)
    BY <2>1, <2>2, UndisturbedBefore DEF IInv
  <2>4. ASSUME NEW j, NEW s, SetBuild(j, s)
        PROVE  i = j
    BY <2>2, <2>4 DEF SetBuild, TypeOK
  <2>5. \A j : ~Touch(j)
    BY <2>2 DEF Touch, TypeOK
  <2>6. ASSUME NEW b \in Builders, NEW j \in Builds, StartBuild(b, j)
        PROVE  FALSE
    BY <2>4, <2>6 DEF StartBuild, FreshBuild
  <2>7. ASSUME NEW b \in Builders, StoreBuild(b)
        PROVE  FALSE
    BY <2>2, <2>4, <2>7 DEF StoreBuild, AlwaysInv, BuilderInv, AtBuild
  <2>8. ASSUME NEW c \in Builders, MarkBuild(c) \/ DeleteBuild(c), i = cleaner[c].cur
        PROVE  i \notin LatestBuilds
    <3>1. cleaner[c].stage = "old"
      BY <2>2, <2>8
         DEF AlwaysInv, PassInv, MarkBuild, DeleteBuild, ListedDone, CleanerIn
    <3> QED BY <2>3, <2>8, <3>1 DEF QuietInv, JudgedInv, Doomed
  <2>9. ASSUME NEW j \in Builds, dib_image_delete(j)
        PROVE  FALSE
    BY <2>3, <2>4, <2>9 DEF dib_image_delete
  <2> QED BY <2>2, <2>4, <2>5, <2>6, <2>7, <2>8, <2>9, BuildsStep
<1> QED BY <1>1, BuilderInvariant, PTL DEF Spec, TwoBuildsKept

(* A READY upload of one of the two latest builds stays READY: what        *)
(* _cleanupCurrentProviderUploads takes for cruft has no uploader any      *)
(* more.                                                                   *)
THEOREM UploadsKept == Spec => CurrentUploadsKept
<1> DEFINE Kept == userDeletes' = 0 /\ reconfigs' = 0 /\ losses' = 0
                   => \A u \in Uploads : upload[u].state = "READY" /\ upload'[u].state # "READY"
                                         => upload[u].build \notin LatestBuilds
<1>1. IInv /\ [Next]_vars => [Kept]_vars
  <2> SUFFICES ASSUME IInv, [Next]_vars, userDeletes' = 0, reconfigs' = 0, losses' = 0,
                      NEW u \in Uploads, upload[u].state = "READY", upload'[u].state # "READY"
               PROVE  upload[u].build \notin LatestBuilds
    OBVIOUS
  <2>1. Undisturbed'
    BY DEF Undisturbed
  <2>2. AlwaysInv /\ TypeOK
    BY DEF IInv, AlwaysInv
  <2>3. QuietInv /\ LosslessInv
    BY <2>1, <2>2, UndisturbedBefore, Events DEF IInv
  <2> QED BY <2>1, <2>2, <2>3, LatestUploadStays
<1> QED BY <1>1, BuilderInvariant, PTL DEF Spec, CurrentUploadsKept
=============================================================================
