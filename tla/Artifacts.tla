----------------------------- MODULE Artifacts -----------------------------
(***************************************************************************)
(* Artifacts of the deployments service: how they are uploaded, directly   *)
(* or with an upload link, processed, listed in a release, assigned to     *)
(* deployments, deleted, and how expired uploads are cleaned up            *)
(* (services/deployments/app: app.go, app_releases.go, app_cmd.go;         *)
(* store/mongo).                                                           *)
(*                                                                         *)
(* All artifacts here have one name: the names do not meet.  A request or  *)
(* an artifact that is processed in the background is served by a worker;  *)
(* one step of a worker is one operation on the database or on the object  *)
(* storage, with the computation up to the next one.                       *)
(***************************************************************************)
EXTENDS Integers, FiniteSets

CONSTANTS
    NumIds,         \* bound on the artifacts and upload links ever made: ids 1, 2, ...
    NumDeployments, \* bound on the deployments ever stored
    Types,          \* what tells artifacts of a name apart: the compatible devices
    NoType,         \* no content
    Garbage,        \* content that is no artifact
    Workers,        \* requests and background routines that run at the same time
    MaxRequests,    \* bound on the requests
    MaxFaults       \* bound on crashes, failed operations and late heartbeats

Ids == 1..NumIds
Deployments == 1..NumDeployments

ASSUME SizesAssumption ==
    NumIds \in Nat /\ NumDeployments \in Nat /\ MaxRequests \in Nat /\ MaxFaults \in Nat
ASSUME ContentAssumption == NoType \notin Types /\ Garbage \notin Types \union {NoType}

VARIABLES
    file,         \* the artifact in the object storage, by id
    tmp,          \* the uploaded object that is not processed, by id
    images,       \* the collection "images": the type of each artifact
    release,      \* the release with the name of the artifacts
    deployments,  \* the collection "deployments"
    intents,      \* the collection "uploads"
    workers,      \* the requests in flight
    cleaner,      \* the routine that cleans up, with its copy of a link
    requests,     \* requests so far
    overlap,      \* which requests have met: none, uploads only, others
    faults        \* faults so far

storage == <<file, tmp>>
database == <<images, release, deployments, intents>>
bounds == <<requests, overlap, faults>>
vars == <<storage, database, workers, cleaner, bounds>>

---------------------------------------------------------------------------
(* State.                                                                  *)

\* Link statuses; the last two carry the bit LinkStatusProcessedBit.
LinkStatuses ==
    {"none", "pending", "processing", "completed", "aborted",
     "completed_processed", "aborted_processed"}

UploadSteps == {"put", "insert", "undo", "add", "exists", "read", "assign", "finish"}
PCs == {"idle", "open", "take", "find", "in_use", "delete_file", "delete_image", "remove",
        "collect", "read_images", "insert_deployment", "find_active", "delete_images",
        "delete_release"} \union UploadSteps

\* id, type: the artifact; copy: the ids that were read; linked: an uploaded
\* object is processed; cancelled: its context is; ok: it was processed.
Idle == [pc |-> "idle", id |-> 0, type |-> NoType, copy |-> {}, linked |-> FALSE,
         cancelled |-> FALSE, ok |-> TRUE]
NoLink == [status |-> "none", expired |-> FALSE, stale |-> FALSE]
Resting == [id |-> 0, status |-> "none", deleted |-> FALSE]

At(w, pc) == workers[w].pc = pc /\ ~workers[w].cancelled
Goto(w, pc) == workers' = [workers EXCEPT ![w].pc = pc]
Done(w) == workers' = [workers EXCEPT ![w] = Idle]

ImageIds == {a \in Ids : images[a] # NoType}
Unfinished == {d \in Deployments : deployments[d].state = "unfinished"}
Fresh(a) ==
    /\ intents[a].status = "none" /\ file[a] = NoType /\ images[a] = NoType
    /\ \A w \in Workers : workers[w].id # a

---------------------------------------------------------------------------
(* Requests arrive.                                                        *)

Busy == {w \in Workers : workers[w].pc # "idle"}
Uploading(w) == workers[w].pc \in UploadSteps \union {"open", "take"}

\* A request for which the worker starts at pc with an artifact and its type.
Start(w, pc, a, type, uploads) ==
    /\ workers[w].pc = "idle" /\ requests < MaxRequests
    /\ requests' = requests + 1
    /\ workers' = [workers EXCEPT ![w] = [Idle EXCEPT !.pc = pc, !.id = a, !.type = type]]
    /\ overlap' = IF Busy = {} THEN overlap
                  ELSE IF uploads /\ (\A v \in Busy : Uploading(v)) /\ overlap # "others"
                    THEN "uploads"
                  ELSE "others"
    /\ UNCHANGED <<storage, database, cleaner, faults>>

StartCreateImage(w) ==
    \E a \in Ids, type \in Types \union {Garbage} : Fresh(a) /\ Start(w, "put", a, type, TRUE)
StartCompleteUpload(w) ==
    \E a \in Ids : intents[a].status # "none" /\ Start(w, "open", a, NoType, TRUE)
StartDeleteImage(w) == \E a \in ImageIds : Start(w, "find", a, NoType, FALSE)
StartCreateDeployment(w) == Start(w, "read_images", 0, NoType, FALSE)
StartDeleteReleases(w) == Start(w, "find_active", 0, NoType, FALSE)

\* UploadLink: a presigned link, and the intent that goes with it.
UploadLink(a) ==
    /\ Fresh(a) /\ requests < MaxRequests
    /\ requests' = requests + 1
    /\ intents' = [intents EXCEPT ![a].status = "pending"]
    /\ UNCHANGED <<storage, images, release, deployments, workers, cleaner, overlap, faults>>

\* A client uses the link as long as it is valid; the object storage is external.
PutWithLink(a, type) ==
    /\ intents[a].status # "none" /\ ~intents[a].expired /\ tmp[a] = NoType
    /\ tmp' = [tmp EXCEPT ![a] = type]
    /\ UNCHANGED <<file, database, workers, cleaner, bounds>>

Expire(a) ==
    /\ intents[a].status # "none" /\ ~intents[a].expired
    /\ intents' = [intents EXCEPT ![a].expired = TRUE]
    /\ UNCHANGED <<storage, images, release, deployments, workers, cleaner, bounds>>

FinishDeployment(d) ==
    /\ d \in Unfinished
    /\ deployments' = [deployments EXCEPT ![d].state = "finished"]
    /\ UNCHANGED <<storage, images, release, intents, workers, cleaner, bounds>>

---------------------------------------------------------------------------
(* CompleteUpload.                                                         *)

OpenObject(w) ==
    /\ At(w, "open")
    /\ workers' = IF tmp[workers[w].id] = NoType THEN [workers EXCEPT ![w] = Idle]
                  ELSE [workers EXCEPT ![w].pc = "take", ![w].type = tmp[workers[w].id]]
    /\ UNCHANGED <<storage, database, cleaner, bounds>>

\* UpdateUploadIntentStatus: nothing but a link in the status from is updated.
Matches(a, from) == intents[a].status = from

\* Faulty variant of TakeLink: the status is not compared.
TakeAnyLink(w) ==
    /\ At(w, "take")
    /\ LET a == workers[w].id
       IN /\ intents' = [intents EXCEPT ![a].status = "processing", ![a].stale = FALSE]
          /\ workers' = [workers EXCEPT ![w].pc = "put", ![w].linked = TRUE]
    /\ UNCHANGED <<storage, images, release, deployments, cleaner, bounds>>

\* The request is answered; the routine processUploadedArtifact goes on.
TakeLink(w) ==
    /\ At(w, "take")
    /\ LET a == workers[w].id
       IN \/ /\ Matches(a, "pending")
             /\ intents' = [intents EXCEPT ![a].status = "processing", ![a].stale = FALSE]
             /\ workers' = [workers EXCEPT ![w].pc = "put", ![w].linked = TRUE]
          \/ /\ ~Matches(a, "pending")
             /\ Done(w) /\ UNCHANGED intents
    /\ UNCHANGED <<storage, images, release, deployments, cleaner, bounds>>

---------------------------------------------------------------------------
(* handleArtifact.                                                         *)

\* After an error: the routine of an upload link reports it in the status.
Failed(w) ==
    workers' = [workers EXCEPT ![w] =
                  IF @.linked THEN [@ EXCEPT !.pc = "finish", !.ok = FALSE] ELSE Idle]

\* The object is stored and parsed at once; a parse error stops the storing.
PutObject(w) ==
    /\ At(w, "put")
    /\ LET me == workers[w]
       IN \/ me.type = Garbage /\ Failed(w) /\ UNCHANGED file
          \/ /\ me.type # Garbage
             /\ file' = [file EXCEPT ![me.id] = me.type]
             /\ Goto(w, "insert")
    /\ UNCHANGED <<tmp, database, cleaner, bounds>>

Unique(a, type) == images[a] = NoType /\ \A b \in Ids : images[b] # type

InsertImage(w) ==
    /\ At(w, "insert")
    /\ LET me == workers[w]
       IN \/ Unique(me.id, me.type) /\ images' = [images EXCEPT ![me.id] = me.type] /\ Goto(w, "add")
          \/ ~Unique(me.id, me.type) /\ Goto(w, "undo") /\ UNCHANGED images
    /\ UNCHANGED <<storage, release, deployments, intents, cleaner, bounds>>

DeleteObjectAgain(w) ==
    /\ At(w, "undo")
    /\ file' = [file EXCEPT ![workers[w].id] = NoType]
    /\ Failed(w)
    /\ UNCHANGED <<tmp, database, cleaner, bounds>>

\* UpdateReleaseArtifacts upserts the release.
AddToRelease(w) ==
    /\ At(w, "add")
    /\ release' = [exists |-> TRUE, list |-> release.list \union {workers[w].id},
                   count |-> release.count + 1]
    /\ Goto(w, "exists")
    /\ UNCHANGED <<storage, images, deployments, intents, cleaner, bounds>>

Processed(w) == IF workers[w].linked THEN Goto(w, "finish") ELSE Done(w)

\* UpdateDeploymentsWithArtifactName, in three operations.
AnyDeployment(w) ==
    /\ At(w, "exists")
    /\ IF Unfinished # {} THEN Goto(w, "read") ELSE Processed(w)
    /\ UNCHANGED <<storage, database, cleaner, bounds>>

ReadImages(w) ==
    /\ At(w, "read")
    /\ IF ImageIds = {} THEN Failed(w)
       ELSE workers' = [workers EXCEPT ![w].pc = "assign", ![w].copy = ImageIds]
    /\ UNCHANGED <<storage, database, cleaner, bounds>>

\* Faulty variant of AssignArtifacts: only the new artifact is assigned.
AssignOwn(w) ==
    /\ At(w, "assign")
    /\ deployments' = [d \in Deployments |->
         IF d \in Unfinished THEN [deployments[d] EXCEPT !.artifacts = {workers[w].id}]
         ELSE deployments[d]]
    /\ Processed(w)
    /\ UNCHANGED <<storage, images, release, intents, cleaner, bounds>>

AssignArtifacts(w) ==
    /\ At(w, "assign")
    /\ deployments' = [d \in Deployments |->
         IF d \in Unfinished THEN [deployments[d] EXCEPT !.artifacts = workers[w].copy]
         ELSE deployments[d]]
    /\ Processed(w)
    /\ UNCHANGED <<storage, images, release, intents, cleaner, bounds>>

\* An error of this update is only logged.
FinishProcessing(w) ==
    /\ At(w, "finish")
    /\ LET a == workers[w].id
       IN intents' = IF ~Matches(a, "processing") THEN intents
                     ELSE [intents EXCEPT ![a].status =
                             IF workers[w].ok THEN "completed" ELSE "aborted"]
    /\ Done(w)
    /\ UNCHANGED <<storage, images, release, deployments, cleaner, bounds>>

\* The heartbeat routine: a link that is no longer processed ends the processing.
Heartbeat(w) ==
    /\ workers[w].linked /\ ~workers[w].cancelled
    /\ LET a == workers[w].id
       IN \/ /\ Matches(a, "processing") /\ intents[a].stale
             /\ intents' = [intents EXCEPT ![a].stale = FALSE]
             /\ UNCHANGED workers
          \/ /\ ~Matches(a, "processing")
             /\ workers' = [workers EXCEPT ![w].cancelled = TRUE]
             /\ UNCHANGED intents
    /\ UNCHANGED <<storage, images, release, deployments, cleaner, bounds>>

\* With a cancelled context every operation fails, those of the error paths too.
StopCancelled(w) ==
    /\ workers[w].cancelled
    /\ Done(w)
    /\ UNCHANGED <<storage, database, cleaner, bounds>>

---------------------------------------------------------------------------
(* DeleteImage, CreateDeployment, DeleteReleases.                          *)

FindImage(w) ==
    /\ At(w, "find")
    /\ IF images[workers[w].id] = NoType THEN Done(w) ELSE Goto(w, "in_use")
    /\ UNCHANGED <<storage, database, cleaner, bounds>>

UsedInActiveDeployment(a) == \E d \in Unfinished : a \in deployments[d].artifacts

CheckUse(w) ==
    /\ At(w, "in_use")
    /\ IF UsedInActiveDeployment(workers[w].id) THEN Done(w) ELSE Goto(w, "delete_file")
    /\ UNCHANGED <<storage, database, cleaner, bounds>>

DeleteFile(w) ==
    /\ At(w, "delete_file")
    /\ file' = [file EXCEPT ![workers[w].id] = NoType]
    /\ Goto(w, "delete_image")
    /\ UNCHANGED <<tmp, database, cleaner, bounds>>

DeleteMetadata(w) ==
    /\ At(w, "delete_image")
    /\ images' = [images EXCEPT ![workers[w].id] = NoType]
    /\ Goto(w, "remove")
    /\ UNCHANGED <<storage, release, deployments, intents, cleaner, bounds>>

\* The count goes down whether the artifact was listed or not.
RemoveFromRelease(w) ==
    /\ At(w, "remove")
    /\ release' = IF ~release.exists THEN release
                  ELSE [release EXCEPT !.list = @ \ {workers[w].id}, !.count = @ - 1]
    /\ Goto(w, "collect")
    /\ UNCHANGED <<storage, images, deployments, intents, cleaner, bounds>>

\* Faulty variant of CollectRelease: an empty release stays.
KeepRelease(w) ==
    /\ At(w, "collect")
    /\ Done(w)
    /\ UNCHANGED <<storage, database, cleaner, bounds>>

NoRelease == [exists |-> FALSE, list |-> {}, count |-> 0]

CollectRelease(w) ==
    /\ At(w, "collect")
    /\ release' = IF release.list = {} THEN NoRelease ELSE release
    /\ Done(w)
    /\ UNCHANGED <<storage, images, deployments, intents, cleaner, bounds>>

ReadForDeployment(w) ==
    /\ At(w, "read_images")
    /\ IF ImageIds = {} THEN Done(w)
       ELSE workers' = [workers EXCEPT ![w].pc = "insert_deployment", ![w].copy = ImageIds]
    /\ UNCHANGED <<storage, database, cleaner, bounds>>

InsertDeployment(w) ==
    /\ At(w, "insert_deployment")
    /\ \E d \in Deployments :
         /\ deployments[d].state = "none" /\ \A e \in 1..(d - 1) : deployments[e].state # "none"
         /\ deployments' = [deployments EXCEPT ![d] =
                              [state |-> "unfinished", artifacts |-> workers[w].copy]]
    /\ Done(w)
    /\ UNCHANGED <<storage, images, release, intents, cleaner, bounds>>

\* Only the bound on deployments ends a creation like this.
NoMoreDeployments(w) ==
    /\ At(w, "insert_deployment")
    /\ \A d \in Deployments : deployments[d].state # "none"
    /\ Done(w)
    /\ UNCHANGED <<storage, database, cleaner, bounds>>

FindActive(w) ==
    /\ At(w, "find_active")
    /\ IF Unfinished # {} THEN Done(w) ELSE Goto(w, "delete_images")
    /\ UNCHANGED <<storage, database, cleaner, bounds>>

\* The files stay in the object storage.
DeleteImagesByNames(w) ==
    /\ At(w, "delete_images")
    /\ images' = [a \in Ids |-> NoType]
    /\ Goto(w, "delete_release")
    /\ UNCHANGED <<storage, release, deployments, intents, cleaner, bounds>>

DeleteReleasesByNames(w) ==
    /\ At(w, "delete_release")
    /\ release' = NoRelease
    /\ Done(w)
    /\ UNCHANGED <<storage, images, deployments, intents, cleaner, bounds>>

---------------------------------------------------------------------------
(* CleanupExpiredUploads.                                                  *)

\* Faulty variant of Expired: links that are still valid are cleaned up.
ValidOrExpired(a) == TRUE

Expired(a) == intents[a].expired

\* Faulty variant of FindLink: a link that somebody began to process is left alone.
FindIdleLink(a) ==
    /\ cleaner = Resting
    /\ Expired(a)
    /\ intents[a].status \in {"pending", "completed", "aborted"}
    /\ cleaner' = [id |-> a, status |-> intents[a].status, deleted |-> FALSE]
    /\ UNCHANGED <<storage, database, workers, bounds>>

\* FindUploadLinks; a link that is being processed is left alone for a while.
FindLink(a) ==
    /\ cleaner = Resting
    /\ Expired(a)
    /\ \/ intents[a].status \in {"pending", "completed", "aborted"}
       \/ intents[a].status = "processing" /\ intents[a].stale
    /\ cleaner' = [id |-> a, status |-> intents[a].status, deleted |-> FALSE]
    /\ UNCHANGED <<storage, database, workers, bounds>>

\* The idle time of the link is the one it was read with.
ResetLink ==
    /\ cleaner.status = "processing"
    /\ intents' = IF Matches(cleaner.id, "processing")
                    THEN [intents EXCEPT ![cleaner.id].status = "pending"] ELSE intents
    /\ cleaner' = Resting
    /\ UNCHANGED <<storage, images, release, deployments, workers, bounds>>

Settled(status) ==
    IF status = "completed" THEN "completed_processed" ELSE "aborted_processed"

DeleteUpload ==
    /\ cleaner.status \in {"pending", "completed", "aborted"} /\ ~cleaner.deleted
    /\ tmp' = [tmp EXCEPT ![cleaner.id] = NoType]
    /\ cleaner' = [cleaner EXCEPT !.deleted = TRUE]
    /\ UNCHANGED <<file, database, workers, bounds>>

SettleLink ==
    /\ cleaner.deleted
    /\ LET a == cleaner.id
       IN intents' = IF Matches(a, cleaner.status)
                       THEN [intents EXCEPT ![a].status = Settled(cleaner.status)] ELSE intents
    /\ cleaner' = Resting
    /\ UNCHANGED <<storage, images, release, deployments, workers, bounds>>

---------------------------------------------------------------------------
(* Faults.                                                                 *)

Fault == faults < MaxFaults /\ faults' = faults + 1

Crash(w) ==
    /\ workers[w].pc # "idle"
    /\ Fault
    /\ Done(w)
    /\ UNCHANGED <<storage, database, cleaner, requests, overlap>>

\* An operation fails: of the upload, the file is deleted if the metadata is
\* not stored; any other request ends.
OperationFails(w) ==
    /\ workers[w].pc # "idle" /\ ~workers[w].cancelled
    /\ Fault
    /\ IF At(w, "insert") THEN Goto(w, "undo")
       ELSE IF workers[w].linked /\ workers[w].pc # "finish" THEN Failed(w)
       ELSE Done(w)
    /\ UNCHANGED <<storage, database, cleaner, requests, overlap>>

CrashCleaner ==
    /\ cleaner # Resting
    /\ Fault
    /\ cleaner' = Resting
    /\ UNCHANGED <<storage, database, workers, requests, overlap>>

\* Nobody processes the link, and the time for a heartbeat passes.
Processors(a) == {w \in Workers : workers[w].linked /\ workers[w].id = a}

GoStale(a) ==
    /\ Matches(a, "processing") /\ ~intents[a].stale
    /\ Processors(a) = {}
    /\ intents' = [intents EXCEPT ![a].stale = TRUE]
    /\ UNCHANGED <<storage, images, release, deployments, workers, cleaner, bounds>>

\* A heartbeat is so late that the link is taken for abandoned.
MissHeartbeat(a) ==
    /\ Matches(a, "processing") /\ ~intents[a].stale
    /\ Processors(a) # {}
    /\ Fault
    /\ intents' = [intents EXCEPT ![a].stale = TRUE]
    /\ UNCHANGED <<storage, images, release, deployments, workers, cleaner, requests, overlap>>

---------------------------------------------------------------------------

Init ==
    /\ file = [a \in Ids |-> NoType]
    /\ tmp = [a \in Ids |-> NoType]
    /\ images = [a \in Ids |-> NoType]
    /\ release = NoRelease
    /\ deployments = [d \in Deployments |-> [state |-> "none", artifacts |-> {}]]
    /\ intents = [a \in Ids |-> NoLink]
    /\ workers = [w \in Workers |-> Idle]
    /\ cleaner = Resting
    /\ requests = 0
    /\ overlap = "none"
    /\ faults = 0

Arrive(w) ==
    \/ StartCreateImage(w) \/ StartCompleteUpload(w) \/ StartDeleteImage(w)
    \/ StartCreateDeployment(w) \/ StartDeleteReleases(w)

Step(w) ==
    \/ OpenObject(w) \/ TakeLink(w)
    \/ PutObject(w) \/ InsertImage(w) \/ DeleteObjectAgain(w) \/ AddToRelease(w)
    \/ AnyDeployment(w) \/ ReadImages(w) \/ AssignArtifacts(w) \/ FinishProcessing(w)
    \/ Heartbeat(w) \/ StopCancelled(w)
    \/ FindImage(w) \/ CheckUse(w) \/ DeleteFile(w) \/ DeleteMetadata(w)
    \/ RemoveFromRelease(w) \/ CollectRelease(w)
    \/ ReadForDeployment(w) \/ InsertDeployment(w) \/ NoMoreDeployments(w)
    \/ FindActive(w) \/ DeleteImagesByNames(w) \/ DeleteReleasesByNames(w)

Clean == (\E a \in Ids : FindLink(a)) \/ ResetLink \/ DeleteUpload \/ SettleLink

Next ==
    \/ \E w \in Workers : Arrive(w) \/ Step(w) \/ Crash(w) \/ OperationFails(w)
    \/ \E a \in Ids :
          \/ UploadLink(a) \/ Expire(a) \/ GoStale(a) \/ MissHeartbeat(a)
          \/ \E type \in Types \union {Garbage} : PutWithLink(a, type)
    \/ \E d \in Deployments : FinishDeployment(d)
    \/ Clean \/ CrashCleaner

Spec == Init /\ [][Next]_vars

\* Requests go on, the cleaner comes back, and time passes.
FairSpec ==
    /\ Spec
    /\ WF_vars(\E w \in Workers : Step(w))
    /\ WF_vars(Clean)
    /\ WF_vars(\E a \in Ids : GoStale(a) \/ Expire(a))

---------------------------------------------------------------------------
(* Properties.                                                             *)

TypeOK ==
    /\ file \in [Ids -> Types \union {NoType}]
    /\ tmp \in [Ids -> Types \union {NoType, Garbage}]
    /\ images \in [Ids -> Types \union {NoType}]
    /\ release \in [exists: BOOLEAN, list: SUBSET Ids, count: Int]
    /\ deployments \in
         [Deployments -> [state: {"none", "unfinished", "finished"}, artifacts: SUBSET Ids]]
    /\ intents \in [Ids -> [status: LinkStatuses, expired: BOOLEAN, stale: BOOLEAN]]
    /\ workers \in [Workers ->
         [pc: PCs, id: Ids \union {0}, type: Types \union {NoType, Garbage}, copy: SUBSET Ids,
          linked: BOOLEAN, cancelled: BOOLEAN, ok: BOOLEAN]]
    /\ cleaner \in [id: Ids \union {0}, status: LinkStatuses, deleted: BOOLEAN]
    /\ requests \in 0..MaxRequests /\ faults \in 0..MaxFaults
    /\ overlap \in {"none", "uploads", "others"}

Quiet == Busy = {}

\* Without late heartbeats an uploaded object is processed by one routine at a
\* time, however many requests ask for it while it expires and is cleaned up.
OneProcessor == faults = 0 => \A a \in Ids : Cardinality(Processors(a)) <= 1

\* A link that cleaning up is through with has left no uploaded object, in spite
\* of crashes and of requests and uploads that come between.
ProcessedMeansClean ==
    \A a \in Ids :
        intents[a].status \in {"completed_processed", "aborted_processed"} => tmp[a] = NoType

\* An artifact in the database has its file, but while it is being deleted:
\* uploads that conflict delete no file but their own.
ImageHasFile ==
    faults = 0 =>
        \A a \in ImageIds :
            file[a] # NoType \/ \E w \in Workers : workers[w].id = a /\ workers[w].pc = "delete_image"

\* When no request is in flight the release lists and counts the artifacts,
\* whatever uploads there were at the same time.
ReleaseListsArtifacts ==
    Quiet /\ faults = 0 /\ overlap # "others" =>
        release = [exists |-> ImageIds # {}, list |-> ImageIds, count |-> Cardinality(ImageIds)]

\* Of requests one after the other each leaves the unfinished deployments with
\* all artifacts of their name, those uploaded later included.
DeploymentsGetArtifacts ==
    Quiet /\ faults = 0 /\ overlap = "none" =>
        \A d \in Unfinished : deployments[d].artifacts = ImageIds

\* Every upload link comes to its end, although processing may crash.
LinksSettle ==
    \A a \in Ids :
        intents[a].status # "none" ~> intents[a].status \in {"completed_processed", "aborted_processed"}
=============================================================================
