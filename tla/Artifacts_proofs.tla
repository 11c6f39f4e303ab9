-------------------------- MODULE Artifacts_proofs --------------------------
(***************************************************************************)
(* Proofs about Artifacts, for any number of artifacts, links,             *)
(* deployments, requests, workers and failures.                            *)
(***************************************************************************)
EXTENDS Artifacts, FiniteSetTheorems, TLAPS

---------------------------------------------------------------------------
(* Types.                                                                  *)

WorkerType ==
    [pc: PCs, id: Ids \union {0}, type: Types \union {NoType, Garbage}, copy: SUBSET Ids,
     linked: BOOLEAN, cancelled: BOOLEAN, ok: BOOLEAN]
WorkersOK == workers \in [Workers -> WorkerType]

\* The database and the object storage.
StoredOK ==
    /\ file \in [Ids -> Types \union {NoType}]
    /\ tmp \in [Ids -> Types \union {NoType, Garbage}]
    /\ images \in [Ids -> Types \union {NoType}]
    /\ release \in [exists: BOOLEAN, list: SUBSET Ids, count: Int]
    /\ deployments \in
         [Deployments -> [state: {"none", "unfinished", "finished"}, artifacts: SUBSET Ids]]

IntentType == [status: LinkStatuses, expired: BOOLEAN, stale: BOOLEAN]
IntentsOK == intents \in [Ids -> IntentType]
CleanerOK == cleaner \in [id: Ids \union {0}, status: LinkStatuses, deleted: BOOLEAN]
BoundsOK ==
    /\ requests \in 0..MaxRequests /\ faults \in 0..MaxFaults
    /\ overlap \in {"none", "uploads", "others"}

\* What an upload works on: an artifact of its own, and content that can be stored.
Positions ==
    \A w \in Workers :
        /\ workers[w].linked => workers[w].pc \in UploadSteps
        /\ workers[w].pc \in UploadSteps \union {"take"} => workers[w].type \in Types \union {Garbage}
        /\ workers[w].pc \in {"insert", "add"} => workers[w].type \in Types
        /\ workers[w].pc \notin {"idle", "read_images", "insert_deployment", "find_active",
                                 "delete_images", "delete_release"} => workers[w].id \in Ids

Inv == WorkersOK /\ Positions /\ StoredOK /\ IntentsOK /\ CleanerOK /\ BoundsOK

\* The invariant contains the types.
LEMMA InvType == Inv => TypeOK
BY DEF Inv, WorkersOK, StoredOK, IntentsOK, CleanerOK, BoundsOK, TypeOK, WorkerType, IntentType

\* It holds before the first request.
LEMMA InvInit == Init => Inv
<1> SUFFICES ASSUME Init PROVE Inv
  OBVIOUS
<1>1. WorkersOK /\ Positions
  BY DEF Init, WorkersOK, Positions, WorkerType, Idle, PCs, UploadSteps
<1>2. StoredOK /\ IntentsOK /\ CleanerOK /\ BoundsOK
  BY SizesAssumption DEF Init, StoredOK, IntentsOK, CleanerOK, BoundsOK, IntentType, NoLink, NoRelease,
     Resting, LinkStatuses
<1> QED BY <1>1, <1>2 DEF Inv

\* The state of one worker changes.
Becomes(w, new) == workers' = [workers EXCEPT ![w] = new]

\* A worker that may be in this state.
Sound(r) ==
    /\ r \in WorkerType
    /\ r.linked => r.pc \in UploadSteps
    /\ r.pc \in UploadSteps \union {"take"} => r.type \in Types \union {Garbage}
    /\ r.pc \in {"insert", "add"} => r.type \in Types
    /\ r.pc \notin {"idle", "read_images", "insert_deployment", "find_active",
                    "delete_images", "delete_release"} => r.id \in Ids

\* The workers stay sound if the one that moves does.
LEMMA OneMoves ==
    ASSUME WorkersOK, Positions, NEW w \in Workers, NEW new, Sound(new), Becomes(w, new)
    PROVE  WorkersOK' /\ Positions'
BY DEF WorkersOK, Positions, Sound, Becomes

\* Each worker is sound.
LEMMA EachSound ==
    ASSUME WorkersOK, Positions, NEW w \in Workers
    PROVE  Sound(workers[w])
BY DEF WorkersOK, Positions, Sound

\* The end of a request.
LEMMA DoneSound ==
    ASSUME WorkersOK, Positions, NEW w \in Workers, Done(w)
    PROVE  WorkersOK' /\ Positions'
<1>1. Sound(Idle)
  BY DEF Sound, Idle, WorkerType, PCs, UploadSteps
<1> QED BY <1>1, OneMoves DEF Done, Becomes

\* A step to another position.
LEMMA GotoSound ==
    ASSUME WorkersOK, Positions, NEW w \in Workers, NEW pc \in PCs, Goto(w, pc),
           Sound([workers[w] EXCEPT !.pc = pc])
    PROVE  WorkersOK' /\ Positions'
<1>1. Becomes(w, [workers[w] EXCEPT !.pc = pc])
  BY DEF Goto, Becomes
<1> QED BY <1>1, OneMoves

\* An upload goes to another position.
LEMMA UploadGoto ==
    ASSUME WorkersOK, Positions, NEW w \in Workers, NEW pc \in UploadSteps, Goto(w, pc),
           workers[w].pc \in UploadSteps \union {"take"},
           pc \in {"insert", "add"} => workers[w].type \in Types
    PROVE  workers[w].type \in Types \union {Garbage} => WorkersOK' /\ Positions'
<1> SUFFICES ASSUME workers[w].type \in Types \union {Garbage} PROVE WorkersOK' /\ Positions'
  OBVIOUS
<1>1. pc \in PCs /\ pc \notin {"idle", "read_images", "insert_deployment", "find_active",
                               "delete_images", "delete_release"}
  BY DEF PCs, UploadSteps
<1>2. Sound(workers[w]) /\ workers[w].id \in Ids
  BY EachSound DEF Sound, UploadSteps
<1>3. Sound([workers[w] EXCEPT !.pc = pc])
  BY <1>1, <1>2 DEF Sound, WorkerType
<1> QED BY <1>1, <1>3, GotoSound

\* Another request goes to another position.
LEMMA OtherGoto ==
    ASSUME WorkersOK, Positions, NEW w \in Workers, NEW pc \in PCs \ (UploadSteps \union {"take"}), Goto(w, pc),
           workers[w].pc \notin UploadSteps,
           workers[w].id \in Ids \/ pc \in {"delete_images", "delete_release"}
    PROVE  WorkersOK' /\ Positions'
<1>1. pc \notin {"insert", "add"}
  BY DEF UploadSteps
<1>2. Sound([workers[w] EXCEPT !.pc = pc])
  BY <1>1, EachSound DEF Sound, WorkerType
<1> QED BY <1>2, GotoSound

\* The end of the processing of an upload.
LEMMA ProcessedSound ==
    ASSUME WorkersOK, Positions, NEW w \in Workers, workers[w].pc \in UploadSteps,
           Processed(w) \/ Failed(w)
    PROVE  WorkersOK' /\ Positions'
<1>1. workers[w].type \in Types \union {Garbage} /\ workers[w].id \in Ids /\ Sound(workers[w])
  BY EachSound DEF Sound, UploadSteps
<1>2. CASE Processed(w)
  <2>1. CASE workers[w].linked
    <3>1. Goto(w, "finish") /\ "finish" \in UploadSteps
      BY <1>2, <2>1 DEF Processed, UploadSteps
    <3> QED BY <1>1, <3>1, UploadGoto
  <2> QED BY <1>2, <2>1, DoneSound DEF Processed
<1>3. CASE Failed(w)
  <2>1. CASE workers[w].linked
    <3>1. Becomes(w, [workers[w] EXCEPT !.pc = "finish", !.ok = FALSE])
      BY <1>3, <2>1 DEF Failed, Becomes, WorkersOK
    <3>2. Sound([workers[w] EXCEPT !.pc = "finish", !.ok = FALSE])
      BY <1>1 DEF Sound, WorkerType, PCs, UploadSteps
    <3> QED BY <3>1, <3>2, OneMoves
  <2>2. CASE ~workers[w].linked
    <3>1. Done(w)
      BY <1>3, <2>2 DEF Failed, Done, WorkersOK
    <3> QED BY <3>1, DoneSound
  <2> QED BY <2>1, <2>2
<1> QED BY <1>2, <1>3

\* The steps in which no worker takes part.
Elsewhere ==
    \/ \E a \in Ids :
          \/ UploadLink(a) \/ Expire(a) \/ GoStale(a) \/ MissHeartbeat(a)
          \/ \E type \in Types \union {Garbage} : PutWithLink(a, type)
    \/ \E d \in Deployments : FinishDeployment(d)
    \/ Clean \/ CrashCleaner \/ UNCHANGED vars

\* They leave the workers alone.
LEMMA ElsewhereKeeps == Elsewhere => workers' = workers
BY DEF Elsewhere, UploadLink, Expire, GoStale, MissHeartbeat, PutWithLink, FinishDeployment, Clean,
       FindLink, ResetLink, DeleteUpload, SettleLink, CrashCleaner, vars

\* A request starts a worker that is sound.
LEMMA ArriveSound ==
    ASSUME Inv, NEW w \in Workers, Arrive(w)
    PROVE  WorkersOK' /\ Positions'
<1>i. WorkersOK /\ Positions
  BY DEF Inv
<1>1. ASSUME NEW pc \in PCs, NEW a \in Ids \union {0}, NEW type \in Types \union {Garbage, NoType},
             NEW uploads, Start(w, pc, a, type, uploads),
             Sound([Idle EXCEPT !.pc = pc, !.id = a, !.type = type])
      PROVE  WorkersOK' /\ Positions'
  BY <1>i, <1>1, OneMoves DEF Start, Becomes
<1>2. ASSUME NEW pc \in {"open", "find", "read_images", "find_active"}, NEW a \in Ids \union {0},
             a \in Ids \/ pc \in {"read_images", "find_active"}
      PROVE  Sound([Idle EXCEPT !.pc = pc, !.id = a, !.type = NoType])
  BY <1>2 DEF Sound, Idle, WorkerType, PCs, UploadSteps
<1>3. ASSUME NEW a \in Ids, NEW type \in Types \union {Garbage}
      PROVE  Sound([Idle EXCEPT !.pc = "put", !.id = a, !.type = type])
  BY DEF Sound, Idle, WorkerType, PCs, UploadSteps
<1>4. {"put", "open", "find", "read_images", "find_active"} \subseteq PCs
  BY DEF PCs, UploadSteps
<1>5. CASE StartCreateImage(w)
  BY <1>1, <1>3, <1>4, <1>5 DEF StartCreateImage
<1>6. CASE StartCompleteUpload(w)
  BY <1>1, <1>2, <1>4, <1>6 DEF StartCompleteUpload
<1>7. CASE StartDeleteImage(w)
  BY <1>1, <1>2, <1>4, <1>7 DEF StartDeleteImage, ImageIds
<1>8. CASE StartCreateDeployment(w) \/ StartDeleteReleases(w)
  BY <1>1, <1>2, <1>4, <1>8 DEF StartCreateDeployment, StartDeleteReleases
<1> QED BY <1>5, <1>6, <1>7, <1>8 DEF Arrive

\* The steps of an upload.
UploadStep(w) ==
    \/ OpenObject(w) \/ TakeLink(w)
    \/ PutObject(w) \/ InsertImage(w) \/ DeleteObjectAgain(w) \/ AddToRelease(w)
    \/ AnyDeployment(w) \/ ReadImages(w) \/ AssignArtifacts(w) \/ FinishProcessing(w)
    \/ Heartbeat(w)

\* They take a worker from sound to sound.
LEMMA UploadSound ==
    ASSUME Inv, NEW w \in Workers, UploadStep(w)
    PROVE  WorkersOK' /\ Positions'
<1>i. WorkersOK /\ Positions /\ StoredOK /\ Sound(workers[w])
  BY EachSound DEF Inv
<1>u. workers[w].pc \in UploadSteps => workers[w].type \in Types \union {Garbage} /\ workers[w].id \in Ids
  BY <1>i DEF Sound, UploadSteps
<1>1. CASE OpenObject(w)
  <2>1. CASE tmp[workers[w].id] = NoType
    BY <1>i, <1>1, <2>1, DoneSound DEF OpenObject, Done
  <2>2. CASE tmp[workers[w].id] # NoType
    <3> DEFINE new == [workers[w] EXCEPT !.pc = "take", !.type = tmp[workers[w].id]]
    <3>1. workers[w].pc = "open" /\ workers[w].id \in Ids
      BY <1>i, <1>1 DEF OpenObject, At, Sound
    <3>2. tmp[workers[w].id] \in Types \union {Garbage}
      BY <1>i, <2>2, <3>1 DEF StoredOK
    <3>3. Sound(new)
      BY <1>i, <3>1, <3>2 DEF Sound, WorkerType, PCs, UploadSteps
    <3>4. Becomes(w, new)
      BY <1>i, <1>1, <2>2 DEF OpenObject, Becomes, WorkersOK
    <3> QED BY <1>i, <3>3, <3>4, OneMoves
  <2> QED BY <2>1, <2>2
<1>2. CASE TakeLink(w)
  <2> DEFINE new == [workers[w] EXCEPT !.pc = "put", !.linked = TRUE]
  <2>1. workers[w].pc = "take"
    BY <1>2 DEF TakeLink, At
  <2>2. Sound(new)
    BY <1>i, <2>1 DEF Sound, WorkerType, PCs, UploadSteps
  <2>3. Done(w) \/ Becomes(w, new)
    BY <1>i, <1>2 DEF TakeLink, Becomes, WorkersOK
  <2> QED BY <1>i, <2>2, <2>3, DoneSound, OneMoves
<1>3. CASE PutObject(w)
  <2>1. workers[w].pc = "put" /\ "put" \in UploadSteps /\ "insert" \in UploadSteps
    BY <1>3 DEF PutObject, At, UploadSteps
  <2>2. CASE workers[w].type = Garbage
    BY <1>i, <1>3, <2>1, <2>2, ProcessedSound DEF PutObject
  <2>3. CASE workers[w].type # Garbage
    BY <1>i, <1>u, <1>3, <2>1, <2>3, UploadGoto DEF PutObject
  <2> QED BY <2>2, <2>3
<1>4. CASE InsertImage(w)
  <2>1. workers[w].pc = "insert" /\ "insert" \in UploadSteps /\ {"add", "undo"} \subseteq UploadSteps
    BY <1>4 DEF InsertImage, At, UploadSteps
  <2>2. workers[w].type \in Types /\ (Goto(w, "add") \/ Goto(w, "undo"))
    BY <1>i, <1>4, <2>1 DEF InsertImage, Sound
  <2> QED BY <1>i, <1>u, <2>1, <2>2, UploadGoto
<1>5. CASE DeleteObjectAgain(w) \/ (ReadImages(w) /\ ImageIds = {})
  <2>1. workers[w].pc \in UploadSteps /\ Failed(w)
    BY <1>5 DEF DeleteObjectAgain, ReadImages, At, UploadSteps
  <2> QED BY <1>i, <2>1, ProcessedSound
<1>6. CASE AddToRelease(w)
  <2>1. workers[w].pc \in UploadSteps /\ Goto(w, "exists") /\ "exists" \in UploadSteps
    BY <1>6 DEF AddToRelease, At, UploadSteps
  <2> QED BY <1>i, <1>u, <2>1, UploadGoto
<1>7. CASE AnyDeployment(w)
  <2>1. workers[w].pc \in UploadSteps /\ "read" \in UploadSteps
    BY <1>7 DEF AnyDeployment, At, UploadSteps
  <2>2. CASE Unfinished # {}
    BY <1>i, <1>u, <1>7, <2>1, <2>2, UploadGoto DEF AnyDeployment
  <2> QED BY <1>i, <1>7, <2>1, <2>2, ProcessedSound DEF AnyDeployment
<1>8. CASE ReadImages(w) /\ ImageIds # {}
  <2> DEFINE new == [workers[w] EXCEPT !.pc = "assign", !.copy = ImageIds]
  <2>1. workers[w].pc \in UploadSteps
    BY <1>8 DEF ReadImages, At, UploadSteps
  <2>2. ImageIds \subseteq Ids
    BY DEF ImageIds
  <2>3. Sound(new)
    BY <1>i, <1>u, <2>1, <2>2 DEF Sound, WorkerType, PCs, UploadSteps
  <2>4. Becomes(w, new)
    BY <1>i, <1>8 DEF ReadImages, Becomes, WorkersOK
  <2> QED BY <1>i, <2>3, <2>4, OneMoves
<1>9. CASE AssignArtifacts(w)
  <2>1. workers[w].pc \in UploadSteps /\ Processed(w)
    BY <1>9 DEF AssignArtifacts, At, UploadSteps
  <2> QED BY <1>i, <2>1, ProcessedSound
<1>10. CASE FinishProcessing(w)
  BY <1>i, <1>10, DoneSound DEF FinishProcessing
<1>11. CASE Heartbeat(w)
  <2>1. CASE workers' = workers
    BY <1>i, <2>1 DEF WorkersOK, Positions
  <2>2. CASE workers' = [workers EXCEPT ![w].cancelled = TRUE]
    <3>1. Becomes(w, [workers[w] EXCEPT !.cancelled = TRUE])
      BY <1>i, <2>2 DEF Becomes, WorkersOK
    <3>2. Sound([workers[w] EXCEPT !.cancelled = TRUE])
      BY <1>i DEF Sound, WorkerType
    <3> QED BY <1>i, <3>1, <3>2, OneMoves
  <2> QED BY <1>11, <2>1, <2>2 DEF Heartbeat
<1> QED BY <1>1, <1>2, <1>3, <1>4, <1>5, <1>6, <1>7, <1>8, <1>9, <1>10, <1>11
        DEF UploadStep

\* The steps of the other requests.
OtherStep(w) ==
    \/ StopCancelled(w) \/ FindImage(w) \/ CheckUse(w) \/ DeleteFile(w) \/ DeleteMetadata(w)
    \/ RemoveFromRelease(w) \/ CollectRelease(w)
    \/ ReadForDeployment(w) \/ InsertDeployment(w) \/ NoMoreDeployments(w)
    \/ FindActive(w) \/ DeleteImagesByNames(w) \/ DeleteReleasesByNames(w)

\* So do these.
LEMMA OtherSound ==
    ASSUME Inv, NEW w \in Workers, OtherStep(w)
    PROVE  WorkersOK' /\ Positions'
<1>i. WorkersOK /\ Positions /\ Sound(workers[w])
  BY EachSound DEF Inv
<1>1. ASSUME Done(w) PROVE WorkersOK' /\ Positions'
  BY <1>i, <1>1, DoneSound
<1>2. ASSUME NEW pc \in {"in_use", "delete_file", "delete_image", "remove", "collect"}, Goto(w, pc),
             workers[w].pc \in {"find", "in_use", "delete_file", "delete_image", "remove"}
      PROVE  WorkersOK' /\ Positions'
  <2>1. pc \in PCs \ (UploadSteps \union {"take"})
    BY DEF PCs, UploadSteps
  <2>2. workers[w].id \in Ids /\ workers[w].pc \notin UploadSteps
    BY <1>i, <1>2 DEF Sound, UploadSteps
  <2> QED BY <1>i, <1>2, <2>1, <2>2, OtherGoto
<1>3. ASSUME NEW pc \in {"delete_images", "delete_release"}, Goto(w, pc),
             workers[w].pc \in {"find_active", "delete_images"}
      PROVE  WorkersOK' /\ Positions'
  <2>1. pc \in PCs \ (UploadSteps \union {"take"})
    BY DEF PCs, UploadSteps
  <2>2. workers[w].pc \notin UploadSteps
    BY <1>3 DEF UploadSteps
  <2> QED BY <1>i, <1>3, <2>1, <2>2, OtherGoto
<1>4. CASE FindImage(w) \/ CheckUse(w) \/ DeleteFile(w) \/ DeleteMetadata(w) \/ RemoveFromRelease(w)
  BY <1>1, <1>2, <1>4 DEF FindImage, CheckUse, DeleteFile, DeleteMetadata, RemoveFromRelease, At
<1>5. CASE FindActive(w) \/ DeleteImagesByNames(w)
  BY <1>1, <1>3, <1>5 DEF FindActive, DeleteImagesByNames, At
<1>6. CASE \/ StopCancelled(w) \/ CollectRelease(w) \/ InsertDeployment(w) \/ NoMoreDeployments(w)
           \/ DeleteReleasesByNames(w)
  BY <1>1, <1>6 DEF StopCancelled, CollectRelease, InsertDeployment, NoMoreDeployments,
     DeleteReleasesByNames
<1>7. CASE ReadForDeployment(w)
  <2>1. CASE ImageIds = {}
    BY <1>1, <1>7, <2>1 DEF ReadForDeployment
  <2>2. CASE ImageIds # {}
    <3> DEFINE new == [workers[w] EXCEPT !.pc = "insert_deployment", !.copy = ImageIds]
    <3>1. ImageIds \subseteq Ids
      BY DEF ImageIds
    <3>2. Sound(new)
      BY <1>i, <1>7, <3>1 DEF ReadForDeployment, At, Sound, WorkerType, PCs, UploadSteps
    <3>3. Becomes(w, new)
      BY <1>i, <1>7, <2>2 DEF ReadForDeployment, Becomes, WorkersOK
    <3> QED BY <1>i, <3>2, <3>3, OneMoves
  <2> QED BY <2>1, <2>2
<1> QED BY <1>4, <1>5, <1>6, <1>7 DEF OtherStep

\* And what goes wrong.
LEMMA FaultSound ==
    ASSUME Inv, NEW w \in Workers, Crash(w) \/ OperationFails(w)
    PROVE  WorkersOK' /\ Positions'
<1>i. WorkersOK /\ Positions /\ Sound(workers[w])
  BY EachSound DEF Inv
<1>1. ASSUME Done(w) PROVE WorkersOK' /\ Positions'
  BY <1>i, <1>1, DoneSound
<1>2. CASE OperationFails(w) /\ At(w, "insert")
  <2>1. workers[w].pc = "insert" /\ Goto(w, "undo") /\ {"insert", "undo"} \subseteq UploadSteps
    BY <1>2 DEF OperationFails, At, UploadSteps
  <2>2. workers[w].type \in Types \union {Garbage}
    BY <1>i, <2>1 DEF Sound
  <2> QED BY <1>i, <2>1, <2>2, UploadGoto
<1>3. ASSUME workers[w].linked, Failed(w), workers[w].pc \in UploadSteps
      PROVE  WorkersOK' /\ Positions'
  BY <1>i, <1>3, ProcessedSound
<1>4. workers[w].linked => workers[w].pc \in UploadSteps
  BY <1>i DEF Sound
<1> QED BY <1>1, <1>2, <1>3, <1>4 DEF Crash, OperationFails

\* The steps of the system in these groups.
LEMMA Steps ==
    ASSUME [Next]_vars
    PROVE  \/ Elsewhere
           \/ \E w \in Workers : \/ Arrive(w) \/ UploadStep(w) \/ OtherStep(w)
                                 \/ Crash(w) \/ OperationFails(w)
BY DEF Next, Elsewhere, Step, UploadStep, OtherStep

\* Every step leaves the workers sound.
LEMMA WorkersStep == Inv /\ [Next]_vars => WorkersOK' /\ Positions'
<1> SUFFICES ASSUME Inv, [Next]_vars PROVE WorkersOK' /\ Positions'
  OBVIOUS
<1>1. CASE Elsewhere
  BY <1>1, ElsewhereKeeps DEF Inv, WorkersOK, Positions
<1> QED BY <1>1, Steps, ArriveSound, UploadSound, OtherSound, FaultSound

\* What the workers, the clients and the cleaner store is what is to be stored.
LEMMA StoredStep == Inv /\ [Next]_vars => StoredOK'
<1> SUFFICES ASSUME Inv, [Next]_vars PROVE StoredOK'
  OBVIOUS
<1> USE DEF StoredOK
<1>i. StoredOK /\ \A w \in Workers : Sound(workers[w])
  BY EachSound DEF Inv
<1>c. \A w \in Workers : workers[w].copy \subseteq Ids
  BY <1>i DEF Sound, WorkerType
<1>k. UNCHANGED <<storage, images, release, deployments>> => StoredOK'
  BY <1>i DEF storage
<1>1. CASE Elsewhere
  <2>1. CASE UNCHANGED vars
    BY <1>k, <2>1 DEF vars, database
  <2>2. ASSUME NEW a \in Ids, NEW type \in Types \union {Garbage}, PutWithLink(a, type) PROVE StoredOK'
    BY <1>i, <2>2 DEF PutWithLink, database
  <2>3. ASSUME NEW a \in Ids, UploadLink(a) \/ Expire(a) \/ GoStale(a) \/ MissHeartbeat(a)
        PROVE  StoredOK'
    BY <1>k, <2>3 DEF UploadLink, Expire, GoStale, MissHeartbeat
  <2>4. ASSUME NEW d \in Deployments, FinishDeployment(d) PROVE StoredOK'
    BY <1>i, <2>4 DEF FinishDeployment, storage
  <2>5. CASE DeleteUpload
    BY <1>i, <2>5 DEF DeleteUpload, database
  <2>6. CASE ResetLink \/ SettleLink \/ CrashCleaner \/ \E a \in Ids : FindLink(a)
    BY <1>k, <2>6 DEF ResetLink, SettleLink, CrashCleaner, FindLink, database
  <2> QED BY <1>1, <2>1, <2>2, <2>3, <2>4, <2>5, <2>6 DEF Elsewhere, Clean
<1>2. ASSUME NEW w \in Workers, Arrive(w) PROVE StoredOK'
  BY <1>k, <1>2 DEF Arrive, StartCreateImage, StartCompleteUpload, StartDeleteImage,
     StartCreateDeployment, StartDeleteReleases, Start, database
<1>3. ASSUME NEW w \in Workers, UploadStep(w) PROVE StoredOK'
  <2>1. CASE OpenObject(w) \/ TakeLink(w) \/ AnyDeployment(w) \/ ReadImages(w) \/ FinishProcessing(w)
             \/ Heartbeat(w)
    BY <1>k, <2>1 DEF OpenObject, TakeLink, AnyDeployment, ReadImages, FinishProcessing, Heartbeat,
       database
  <2>2. CASE PutObject(w)
    <3>1. workers[w].type # Garbage => workers[w].type \in Types
      BY <1>i, <2>2 DEF PutObject, At, Sound, UploadSteps
    <3> QED BY <1>i, <2>2, <3>1 DEF PutObject, database
  <2>3. CASE InsertImage(w)
    <3>1. workers[w].type \in Types
      BY <1>i, <2>3 DEF InsertImage, At, Sound
    <3> QED BY <1>i, <2>3, <3>1 DEF InsertImage, storage
  <2>4. CASE DeleteObjectAgain(w)
    BY <1>i, <2>4 DEF DeleteObjectAgain, database
  <2>5. CASE AddToRelease(w)
    <3>1. workers[w].id \in Ids /\ release.count + 1 \in Int /\ release.list \subseteq Ids
      BY <1>i, <2>5 DEF AddToRelease, At, Sound
    <3>2. release' \in [exists: BOOLEAN, list: SUBSET Ids, count: Int]
      BY <2>5, <3>1 DEF AddToRelease
    <3> QED BY <1>i, <2>5, <3>2 DEF AddToRelease, storage
  <2>6. CASE AssignArtifacts(w)
    BY <1>i, <1>c, <2>6 DEF AssignArtifacts, storage
  <2> QED BY <1>3, <2>1, <2>2, <2>3, <2>4, <2>5, <2>6 DEF UploadStep
<1>4. ASSUME NEW w \in Workers, OtherStep(w) PROVE StoredOK'
  <2>1. CASE StopCancelled(w) \/ FindImage(w) \/ CheckUse(w) \/ ReadForDeployment(w)
             \/ NoMoreDeployments(w) \/ FindActive(w)
    BY <1>k, <2>1 DEF StopCancelled, FindImage, CheckUse, ReadForDeployment, NoMoreDeployments,
       FindActive, database
  <2>2. CASE DeleteFile(w) \/ DeleteMetadata(w) \/ DeleteImagesByNames(w)
    BY <1>i, <2>2 DEF DeleteFile, DeleteMetadata, DeleteImagesByNames, database, storage
  <2>3. CASE RemoveFromRelease(w)
    <3>1. release.count - 1 \in Int /\ release.list \ {workers[w].id} \subseteq Ids
      BY <1>i
    <3>2. release' \in [exists: BOOLEAN, list: SUBSET Ids, count: Int]
      BY <1>i, <2>3, <3>1 DEF RemoveFromRelease
    <3> QED BY <1>i, <2>3, <3>2 DEF RemoveFromRelease, storage
  <2>4. CASE CollectRelease(w) \/ DeleteReleasesByNames(w)
    <3>1. NoRelease \in [exists: BOOLEAN, list: SUBSET Ids, count: Int]
      BY DEF NoRelease
    <3> QED BY <1>i, <2>4, <3>1 DEF CollectRelease, DeleteReleasesByNames, storage
  <2>5. CASE InsertDeployment(w)
    BY <1>i, <1>c, <2>5 DEF InsertDeployment, storage
  <2> QED BY <1>4, <2>1, <2>2, <2>3, <2>4, <2>5 DEF OtherStep
<1>5. ASSUME NEW w \in Workers, Crash(w) \/ OperationFails(w) PROVE StoredOK'
  BY <1>k, <1>5 DEF Crash, OperationFails, database
<1> QED BY <1>1, <1>2, <1>3, <1>4, <1>5, Steps

\* What happens to an upload link, and to the links alone.
LEMMA LinkSteps ==
    ASSUME [Next]_vars
    PROVE  \/ intents' = intents
           \/ \E w \in Workers : TakeLink(w) \/ FinishProcessing(w) \/ Heartbeat(w)
           \/ \E a \in Ids : UploadLink(a) \/ Expire(a) \/ GoStale(a) \/ MissHeartbeat(a)
           \/ ResetLink \/ SettleLink
<1>1. CASE Elsewhere
  BY <1>1 DEF Elsewhere, PutWithLink, FinishDeployment, Clean, FindLink, DeleteUpload, CrashCleaner,
     vars, database
<1>2. ASSUME NEW w \in Workers, Arrive(w) PROVE intents' = intents
  BY <1>2 DEF Arrive, StartCreateImage, StartCompleteUpload, StartDeleteImage, StartCreateDeployment,
     StartDeleteReleases, Start, database
<1>3. ASSUME NEW w \in Workers, UploadStep(w), ~(TakeLink(w) \/ FinishProcessing(w) \/ Heartbeat(w))
      PROVE  intents' = intents
  BY <1>3 DEF UploadStep, OpenObject, PutObject, InsertImage, DeleteObjectAgain, AddToRelease,
     AnyDeployment, ReadImages, AssignArtifacts, database
<1>4. ASSUME NEW w \in Workers, OtherStep(w) PROVE intents' = intents
  BY <1>4 DEF OtherStep, StopCancelled, FindImage, CheckUse, DeleteFile, DeleteMetadata,
     RemoveFromRelease, CollectRelease, ReadForDeployment, InsertDeployment, NoMoreDeployments,
     FindActive, DeleteImagesByNames, DeleteReleasesByNames, database
<1>5. ASSUME NEW w \in Workers, Crash(w) \/ OperationFails(w) PROVE intents' = intents
  BY <1>5 DEF Crash, OperationFails, database
<1> QED BY <1>1, <1>2, <1>3, <1>4, <1>5, Steps

\* Every step leaves a link in a status that links have.
LEMMA IntentsStep == Inv /\ [Next]_vars => IntentsOK'
<1> SUFFICES ASSUME Inv, [Next]_vars PROVE IntentsOK'
  OBVIOUS
<1>i. intents \in [Ids -> IntentType]
  BY DEF Inv, IntentsOK
<1>1. ASSUME NEW a, NEW new, intents' = [intents EXCEPT ![a] = new], a \in Ids => new \in IntentType
      PROVE  IntentsOK'
  BY <1>i, <1>1 DEF IntentsOK
<1>2. ASSUME NEW a \in Ids, UploadLink(a) \/ Expire(a) \/ GoStale(a) \/ MissHeartbeat(a)
      PROVE  IntentsOK'
  BY <1>i, <1>2 DEF UploadLink, Expire, GoStale, MissHeartbeat, IntentsOK, IntentType, LinkStatuses
<1>3. ASSUME NEW w \in Workers, TakeLink(w) \/ FinishProcessing(w) \/ Heartbeat(w) PROVE IntentsOK'
  <2>1. CASE TakeLink(w)
    BY <1>i, <2>1 DEF TakeLink, IntentsOK, IntentType, LinkStatuses
  <2>2. CASE FinishProcessing(w)
    BY <1>i, <2>2 DEF FinishProcessing, IntentsOK, IntentType, LinkStatuses
  <2>3. CASE Heartbeat(w)
    BY <1>i, <2>3 DEF Heartbeat, IntentsOK, IntentType
  <2> QED BY <1>3, <2>1, <2>2, <2>3
<1>4. CASE ResetLink
  BY <1>i, <1>4 DEF ResetLink, IntentsOK, IntentType, LinkStatuses
<1>5. CASE SettleLink
  BY <1>i, <1>5 DEF SettleLink, Settled, IntentsOK, IntentType, LinkStatuses
<1> QED BY <1>i, <1>2, <1>3, <1>4, <1>5, LinkSteps DEF IntentsOK

\* The steps of the cleaner.
LEMMA CleanerSteps ==
    ASSUME [Next]_vars
    PROVE  \/ cleaner' = cleaner
           \/ (\E a \in Ids : FindLink(a)) \/ DeleteUpload \/ cleaner' = Resting
<1>1. CASE Elsewhere
  BY <1>1 DEF Elsewhere, UploadLink, Expire, GoStale, MissHeartbeat, PutWithLink, FinishDeployment,
     Clean, ResetLink, SettleLink, CrashCleaner, vars
<1>2. ASSUME NEW w \in Workers, Arrive(w) PROVE cleaner' = cleaner
  BY <1>2 DEF Arrive, StartCreateImage, StartCompleteUpload, StartDeleteImage, StartCreateDeployment,
     StartDeleteReleases, Start
<1>3. ASSUME NEW w \in Workers, UploadStep(w) PROVE cleaner' = cleaner
  BY <1>3 DEF UploadStep, OpenObject, TakeLink, PutObject, InsertImage, DeleteObjectAgain, AddToRelease,
     AnyDeployment, ReadImages, AssignArtifacts, FinishProcessing, Heartbeat
<1>4. ASSUME NEW w \in Workers, OtherStep(w) PROVE cleaner' = cleaner
  BY <1>4 DEF OtherStep, StopCancelled, FindImage, CheckUse, DeleteFile, DeleteMetadata,
     RemoveFromRelease, CollectRelease, ReadForDeployment, InsertDeployment, NoMoreDeployments,
     FindActive, DeleteImagesByNames, DeleteReleasesByNames
<1>5. ASSUME NEW w \in Workers, Crash(w) \/ OperationFails(w) PROVE cleaner' = cleaner
  BY <1>5 DEF Crash, OperationFails
<1> QED BY <1>1, <1>2, <1>3, <1>4, <1>5, Steps

\* The cleaner has read the status of a link, or rests.
LEMMA CleanerStep == Inv /\ [Next]_vars => CleanerOK'
<1> SUFFICES ASSUME Inv, [Next]_vars PROVE CleanerOK'
  OBVIOUS
<1>i. CleanerOK /\ \A a \in Ids : intents[a].status \in LinkStatuses
  BY DEF Inv, IntentsOK, IntentType
<1>1. ASSUME NEW a \in Ids, FindLink(a) PROVE CleanerOK'
  BY <1>i, <1>1 DEF FindLink, CleanerOK
<1>2. CASE DeleteUpload
  BY <1>i, <1>2 DEF DeleteUpload, CleanerOK
<1>3. CASE cleaner' = Resting
  BY <1>3 DEF Resting, CleanerOK, LinkStatuses
<1> QED BY <1>i, <1>1, <1>2, <1>3, CleanerSteps DEF CleanerOK

\* The bounds are kept.
LEMMA BoundsStep == Inv /\ [Next]_vars => BoundsOK'
<1> SUFFICES ASSUME Inv, [Next]_vars PROVE BoundsOK'
  OBVIOUS
<1>i. BoundsOK
  BY DEF Inv
<1>f. Fault => faults' \in 0..MaxFaults
  BY <1>i, SizesAssumption DEF Fault, BoundsOK
<1>k. UNCHANGED bounds => BoundsOK'
  BY <1>i DEF bounds, BoundsOK
<1>r. requests < MaxRequests => requests + 1 \in 0..MaxRequests
  BY <1>i, SizesAssumption DEF BoundsOK
<1>1. CASE Elsewhere
  <2>1. CASE UNCHANGED vars
    BY <1>k, <2>1 DEF vars
  <2>2. ASSUME NEW a \in Ids, NEW type, PutWithLink(a, type) PROVE BoundsOK'
    BY <1>k, <2>2 DEF PutWithLink
  <2>3. ASSUME NEW a \in Ids, Expire(a) \/ GoStale(a) PROVE BoundsOK'
    BY <1>k, <2>3 DEF Expire, GoStale
  <2>4. ASSUME NEW a \in Ids, UploadLink(a) PROVE BoundsOK'
    BY <1>i, <1>r, <2>4 DEF UploadLink, BoundsOK
  <2>5. ASSUME NEW a \in Ids, MissHeartbeat(a) PROVE BoundsOK'
    BY <1>i, <1>f, <2>5 DEF MissHeartbeat, BoundsOK
  <2>6. CASE CrashCleaner
    BY <1>i, <1>f, <2>6 DEF CrashCleaner, BoundsOK
  <2>7. ASSUME NEW d \in Deployments, FinishDeployment(d) PROVE BoundsOK'
    BY <1>k, <2>7 DEF FinishDeployment
  <2>8. CASE Clean
    BY <1>k, <2>8 DEF Clean, FindLink, ResetLink, DeleteUpload, SettleLink
  <2> QED BY <1>1, <2>1, <2>2, <2>3, <2>4, <2>5, <2>6, <2>7, <2>8 DEF Elsewhere
<1>2. ASSUME NEW w \in Workers, Arrive(w) PROVE BoundsOK'
  <2>1. ASSUME NEW pc, NEW a, NEW type, NEW uploads, Start(w, pc, a, type, uploads)
        PROVE  BoundsOK'
    BY <1>i, <1>r, <2>1 DEF Start, BoundsOK
  <2> QED BY <1>2, <2>1 DEF Arrive, StartCreateImage, StartCompleteUpload, StartDeleteImage,
             StartCreateDeployment, StartDeleteReleases
<1>3. ASSUME NEW w \in Workers, UploadStep(w) PROVE UNCHANGED bounds
  BY <1>3 DEF UploadStep, OpenObject, TakeLink, PutObject, InsertImage, DeleteObjectAgain, AddToRelease,
     AnyDeployment, ReadImages, AssignArtifacts, FinishProcessing, Heartbeat
<1>4. ASSUME NEW w \in Workers, OtherStep(w) PROVE UNCHANGED bounds
  BY <1>4 DEF OtherStep, StopCancelled, FindImage, CheckUse, DeleteFile, DeleteMetadata,
     RemoveFromRelease, CollectRelease, ReadForDeployment, InsertDeployment, NoMoreDeployments,
     FindActive, DeleteImagesByNames, DeleteReleasesByNames
<1>5. ASSUME NEW w \in Workers, Crash(w) \/ OperationFails(w) PROVE BoundsOK'
  BY <1>i, <1>f, <1>5 DEF Crash, OperationFails, BoundsOK
<1> QED BY <1>k, <1>1, <1>2, <1>3, <1>4, <1>5, Steps

\* The invariant is inductive.
LEMMA InvStep == Inv /\ [Next]_vars => Inv'
BY WorkersStep, StoredStep, IntentsStep, CleanerStep, BoundsStep DEF Inv

\* Every reachable state of the database, the object storage, the requests and the
\* cleaner has the shape TypeOK states.
THEOREM TypeCorrect == Spec => []TypeOK
BY InvInit, InvStep, InvType, PTL DEF Spec

---------------------------------------------------------------------------
(* Cleaning up.                                                            *)

SettledStatuses == {"completed_processed", "aborted_processed"}

\* The cleaner works on expired links, for which nothing is uploaded any more.
CleanOK ==
    /\ cleaner # Resting => cleaner.id \in Ids /\ intents[cleaner.id].expired
    /\ cleaner.deleted => cleaner.id \in Ids /\ tmp[cleaner.id] = NoType
    /\ \A a \in Ids :
         intents[a].status \in SettledStatuses => tmp[a] = NoType /\ intents[a].expired

\* A link that expired stays so, and nobody but the cleaner settles one.
LEMMA LinksExpire ==
    ASSUME Inv, [Next]_vars, NEW a \in Ids
    PROVE  /\ intents[a].expired => intents'[a].expired
           /\ \/ intents[a].status \in SettledStatuses \/ intents'[a].status \notin SettledStatuses
              \/ SettleLink /\ a = cleaner.id
<1>i. intents \in [Ids -> IntentType]
  BY DEF Inv, IntentsOK
<1> USE DEF IntentType
<1>1. ASSUME NEW b \in Ids, UploadLink(b) \/ Expire(b) \/ GoStale(b) \/ MissHeartbeat(b)
      PROVE  /\ intents[a].expired => intents'[a].expired
             /\ intents'[a].status \in {intents[a].status, "pending"}
  BY <1>i, <1>1 DEF UploadLink, Expire, GoStale, MissHeartbeat
<1>2. ASSUME NEW w \in Workers, TakeLink(w)
      PROVE  /\ intents[a].expired => intents'[a].expired
             /\ intents'[a].status \in {intents[a].status, "processing"}
  BY <1>i, <1>2 DEF TakeLink
<1>3. ASSUME NEW w \in Workers, FinishProcessing(w)
      PROVE  /\ intents[a].expired => intents'[a].expired
             /\ intents'[a].status \in {intents[a].status, "completed", "aborted"}
  BY <1>i, <1>3 DEF FinishProcessing
<1>4. ASSUME NEW w \in Workers, Heartbeat(w)
      PROVE  /\ intents[a].expired => intents'[a].expired
             /\ intents'[a].status = intents[a].status
  BY <1>i, <1>4 DEF Heartbeat
<1>5. ASSUME ResetLink
      PROVE  /\ intents[a].expired => intents'[a].expired
             /\ intents'[a].status \in {intents[a].status, "pending"}
  BY <1>i, <1>5 DEF ResetLink
<1>6. ASSUME SettleLink
      PROVE  /\ intents[a].expired => intents'[a].expired
             /\ a # cleaner.id => intents'[a].status = intents[a].status
  BY <1>i, <1>6 DEF SettleLink
<1> QED BY <1>1, <1>2, <1>3, <1>4, <1>5, <1>6, LinkSteps DEF SettledStatuses

\* Uploaded objects come from clients with a valid link, and go by the cleaner.
LEMMA UploadedSteps ==
    ASSUME [Next]_vars
    PROVE  \/ tmp' = tmp
           \/ \E a \in Ids, type \in Types \union {Garbage} : PutWithLink(a, type)
           \/ DeleteUpload
<1>1. CASE Elsewhere
  BY <1>1 DEF Elsewhere, UploadLink, Expire, GoStale, MissHeartbeat, FinishDeployment, Clean, FindLink,
     ResetLink, SettleLink, CrashCleaner, vars, storage
<1>2. ASSUME NEW w \in Workers, Arrive(w) PROVE tmp' = tmp
  BY <1>2 DEF Arrive, StartCreateImage, StartCompleteUpload, StartDeleteImage, StartCreateDeployment,
     StartDeleteReleases, Start, storage
<1>3. ASSUME NEW w \in Workers, UploadStep(w) PROVE tmp' = tmp
  BY <1>3 DEF UploadStep, OpenObject, TakeLink, PutObject, InsertImage, DeleteObjectAgain, AddToRelease,
     AnyDeployment, ReadImages, AssignArtifacts, FinishProcessing, Heartbeat, storage
<1>4. ASSUME NEW w \in Workers, OtherStep(w) PROVE tmp' = tmp
  BY <1>4 DEF OtherStep, StopCancelled, FindImage, CheckUse, DeleteFile, DeleteMetadata,
     RemoveFromRelease, CollectRelease, ReadForDeployment, InsertDeployment, NoMoreDeployments,
     FindActive, DeleteImagesByNames, DeleteReleasesByNames, storage
<1>5. ASSUME NEW w \in Workers, Crash(w) \/ OperationFails(w) PROVE tmp' = tmp
  BY <1>5 DEF Crash, OperationFails, storage
<1> QED BY <1>1, <1>2, <1>3, <1>4, <1>5, Steps

\* Every step of the cleaner, and of those who come between, keeps that.
LEMMA CleanStep == Inv /\ CleanOK /\ [Next]_vars => CleanOK'
<1> SUFFICES ASSUME Inv, CleanOK, [Next]_vars PROVE CleanOK'
  OBVIOUS
<1>t. tmp \in [Ids -> Types \union {NoType, Garbage}] /\ intents \in [Ids -> IntentType] /\ CleanerOK
  BY DEF Inv, StoredOK, IntentsOK
<1>p. ASSUME NEW a \in Ids, intents[a].expired PROVE tmp'[a] \in {tmp[a], NoType}
  <2>1. ASSUME NEW b \in Ids, NEW type, PutWithLink(b, type) PROVE tmp'[a] = tmp[a]
    BY <1>t, <1>p, <2>1 DEF PutWithLink
  <2>2. CASE DeleteUpload
    BY <1>t, <2>2 DEF DeleteUpload
  <2> QED BY <2>1, <2>2, UploadedSteps
<1>e. \A a \in Ids : intents[a].expired => intents'[a].expired
  BY LinksExpire
<1>1. cleaner' # Resting => cleaner'.id \in Ids /\ intents'[cleaner'.id].expired
  <2>1. CASE cleaner' = cleaner
    BY <1>e, <2>1 DEF CleanOK
  <2>2. ASSUME NEW a \in Ids, FindLink(a)
        PROVE  cleaner'.id \in Ids /\ intents'[cleaner'.id].expired
    BY <1>e, <2>2 DEF FindLink, Expired
  <2>3. CASE DeleteUpload
    <3>1. cleaner # Resting /\ cleaner'.id = cleaner.id
      BY <1>t, <2>3 DEF DeleteUpload, Resting, CleanerOK
    <3> QED BY <1>e, <3>1 DEF CleanOK
  <2> QED BY <2>1, <2>2, <2>3, CleanerSteps
<1>2. cleaner'.deleted => cleaner'.id \in Ids /\ tmp'[cleaner'.id] = NoType
  <2>1. CASE cleaner' = cleaner
    <3>1. cleaner.deleted => cleaner # Resting
      BY DEF Resting
    <3> QED BY <1>p, <2>1, <3>1 DEF CleanOK
  <2>2. ASSUME NEW a \in Ids, FindLink(a) PROVE ~cleaner'.deleted
    BY <2>2 DEF FindLink
  <2>3. CASE DeleteUpload
    <3>1. cleaner # Resting /\ cleaner'.id = cleaner.id /\ tmp' = [tmp EXCEPT ![cleaner.id] = NoType]
      BY <1>t, <2>3 DEF DeleteUpload, Resting, CleanerOK
    <3> QED BY <1>t, <3>1 DEF CleanOK
  <2>4. CASE cleaner' = Resting
    BY <2>4 DEF Resting
  <2> QED BY <2>1, <2>2, <2>3, <2>4, CleanerSteps
<1>3. ASSUME NEW a \in Ids, intents'[a].status \in SettledStatuses
      PROVE  tmp'[a] = NoType /\ intents'[a].expired
  <2>1. CASE intents[a].status \in SettledStatuses
    BY <1>e, <1>p, <2>1 DEF CleanOK
  <2>2. CASE SettleLink /\ a = cleaner.id
    <3>1. cleaner # Resting /\ tmp[a] = NoType
      BY <2>2 DEF SettleLink, Resting, CleanOK
    <3> QED BY <1>e, <1>p, <2>2, <3>1 DEF CleanOK
  <2> QED BY <1>3, <2>1, <2>2, LinksExpire
<1> QED BY <1>1, <1>2, <1>3 DEF CleanOK

\* A settled link has left no uploaded object, in whatever order uploads, requests,
\* crashes and the rounds of CleanupExpiredUploads come.
THEOREM NothingLeftBehind == Spec => []ProcessedMeansClean
<1>1. Init => CleanOK
  BY DEF Init, CleanOK, Resting, NoLink, SettledStatuses
<1>2. CleanOK => ProcessedMeansClean
  BY DEF CleanOK, ProcessedMeansClean, SettledStatuses
<1> QED BY InvInit, InvStep, CleanStep, <1>1, <1>2, PTL DEF Spec

---------------------------------------------------------------------------
(* Who processes an upload.                                                *)

\* Without a failure a link is being processed if and only if one routine
\* processes it, and it is never taken for abandoned.
Attended ==
    /\ \A w \in Workers : workers[w].pc = "finish" => workers[w].linked
    /\ \A w \in Workers :
         workers[w].linked => ~workers[w].cancelled /\ intents[workers[w].id].status = "processing"
    /\ \A v, w \in Workers :
         workers[v].linked /\ workers[w].linked /\ workers[v].id = workers[w].id => v = w
    /\ \A a \in Ids : intents[a].status = "processing" =>
         \E w \in Workers : workers[w].linked /\ workers[w].id = a
    /\ \A a \in Ids : ~intents[a].stale
    /\ cleaner.status # "processing"

Unharmed == faults = 0 => Attended

\* A step that changes no link and leaves it to the same workers.
LEMMA SameProcessors ==
    ASSUME Inv, Attended, intents' = intents, cleaner'.status # "processing",
           NEW w \in Workers, NEW new, Becomes(w, new),
           new.linked = workers[w].linked,
           workers[w].linked => new.id = workers[w].id /\ new.cancelled = workers[w].cancelled,
           new.pc = "finish" => new.linked
    PROVE  Attended'
<1>1. /\ workers'[w] = new /\ \A v \in Workers : v # w => workers'[v] = workers[v]
  BY DEF Inv, WorkersOK, Becomes
<1>2. \A v \in Workers : /\ workers'[v].linked = workers[v].linked
                         /\ workers[v].linked => /\ workers'[v].id = workers[v].id
                                                 /\ workers'[v].cancelled = workers[v].cancelled
                         /\ workers'[v].pc = "finish" => workers'[v].linked
  BY <1>1 DEF Attended
<1> QED BY <1>2 DEF Attended

\* Upload requests that do neither begin nor end the processing of a link.
LEMMA MiddleStep ==
    ASSUME Inv, Attended, NEW w \in Workers, UploadStep(w),
           ~(TakeLink(w) \/ FinishProcessing(w) \/ Heartbeat(w))
    PROVE  Attended'
<1>i. WorkersOK /\ Positions /\ workers[w] \in WorkerType /\ cleaner.status # "processing"
  BY DEF Inv, WorkersOK, Attended
<1>k. intents' = intents /\ cleaner' = cleaner
  BY DEF UploadStep, OpenObject, PutObject, InsertImage, DeleteObjectAgain, AddToRelease,
     AnyDeployment, ReadImages, AssignArtifacts, database
<1>1. ASSUME NEW pc \in PCs, pc # "finish", Goto(w, pc) PROVE Attended'
  <2>1. Becomes(w, [workers[w] EXCEPT !.pc = pc])
    BY <1>1 DEF Goto, Becomes
  <2> DEFINE new == [workers[w] EXCEPT !.pc = pc]
  <2>2. new.linked = workers[w].linked /\ new.id = workers[w].id /\ new.cancelled = workers[w].cancelled
        /\ new.pc = pc
    BY <1>i DEF WorkerType
  <2> HIDE DEF new
  <2>3. Becomes(w, new)
    BY <2>1 DEF new
  <2> QED BY <1>i, <1>k, <1>1, <2>2, <2>3, SameProcessors
<1>2. ASSUME ~workers[w].linked, Done(w) PROVE Attended'
  <2>1. Becomes(w, Idle) /\ ~Idle.linked /\ Idle.pc # "finish"
    BY <1>2 DEF Done, Becomes, Idle
  <2>2. Idle.linked = workers[w].linked
    BY <1>2, <1>i DEF WorkerType, Idle
  <2> QED BY <1>i, <1>k, <1>2, <2>1, <2>2, SameProcessors
<1>3. ASSUME Processed(w) \/ Failed(w) PROVE Attended'
  <2>1. CASE ~workers[w].linked
    <3>1. Done(w)
      BY <1>i, <1>3, <2>1 DEF Processed, Failed, Done, WorkersOK
    <3> QED BY <1>2, <2>1, <3>1
  <2>2. CASE workers[w].linked
    <3>1. \E ok \in BOOLEAN : Becomes(w, [workers[w] EXCEPT !.pc = "finish", !.ok = ok])
      <4>1. CASE Processed(w)
        <5>1. [workers[w] EXCEPT !.pc = "finish"] =
                [workers[w] EXCEPT !.pc = "finish", !.ok = workers[w].ok]
          BY <1>i DEF WorkerType
        <5>2. workers[w].ok \in BOOLEAN
          BY <1>i DEF WorkerType
        <5> QED BY <2>2, <4>1, <5>1, <5>2 DEF Processed, Goto, Becomes
      <4>2. CASE Failed(w)
        BY <1>i, <2>2, <4>2 DEF Failed, Becomes, WorkersOK
      <4> QED BY <1>3, <4>1, <4>2
    <3>2. PICK ok \in BOOLEAN : Becomes(w, [workers[w] EXCEPT !.pc = "finish", !.ok = ok])
      BY <3>1
    <3> DEFINE new == [workers[w] EXCEPT !.pc = "finish", !.ok = ok]
    <3>3. new.linked = workers[w].linked /\ new.id = workers[w].id /\ new.cancelled = workers[w].cancelled
      BY <1>i DEF WorkerType
    <3>4. Becomes(w, new)
      BY <3>2
    <3> HIDE DEF new
    <3> QED BY <1>i, <1>k, <2>2, <3>3, <3>4, SameProcessors
  <2> QED BY <2>1, <2>2
<1>4. CASE OpenObject(w)
  <2>1. ~workers[w].linked
    BY <1>i, <1>4 DEF OpenObject, At, Positions, UploadSteps
  <2>2. CASE tmp[workers[w].id] = NoType
    BY <1>2, <1>4, <2>1, <2>2 DEF OpenObject, Done
  <2>3. CASE tmp[workers[w].id] # NoType
    <3> DEFINE new == [workers[w] EXCEPT !.pc = "take", !.type = tmp[workers[w].id]]
    <3>1. Becomes(w, new)
      BY <1>i, <1>4, <2>3 DEF OpenObject, Becomes, WorkersOK
    <3>2. new.linked = workers[w].linked /\ new.pc # "finish"
      BY <1>i DEF WorkerType
    <3> HIDE DEF new
    <3> QED BY <1>i, <1>k, <2>1, <3>1, <3>2, SameProcessors
  <2> QED BY <2>2, <2>3
<1>5. CASE PutObject(w) \/ InsertImage(w) \/ DeleteObjectAgain(w) \/ AddToRelease(w)
  <2>1. {"insert", "add", "undo", "exists"} \subseteq PCs
    BY DEF PCs, UploadSteps
  <2> QED BY <1>1, <1>3, <1>5, <2>1 DEF PutObject, InsertImage, DeleteObjectAgain, AddToRelease
<1>6. CASE AnyDeployment(w)
  <2>1. "read" \in PCs
    BY DEF PCs, UploadSteps
  <2> QED BY <1>1, <1>3, <1>6, <2>1 DEF AnyDeployment
<1>7. CASE AssignArtifacts(w)
  BY <1>3, <1>7 DEF AssignArtifacts
<1>8. CASE ReadImages(w)
  <2>1. CASE ImageIds = {}
    BY <1>3, <1>8, <2>1 DEF ReadImages
  <2>2. CASE ImageIds # {}
    <3> DEFINE new == [workers[w] EXCEPT !.pc = "assign", !.copy = ImageIds]
    <3>1. Becomes(w, new)
      BY <1>i, <1>8, <2>2 DEF ReadImages, Becomes, WorkersOK
    <3>2. new.linked = workers[w].linked /\ new.id = workers[w].id
          /\ new.cancelled = workers[w].cancelled /\ new.pc # "finish"
      BY <1>i DEF WorkerType
    <3> HIDE DEF new
    <3> QED BY <1>i, <1>k, <3>1, <3>2, SameProcessors
  <2> QED BY <2>1, <2>2
<1> QED BY <1>4, <1>5, <1>6, <1>7, <1>8 DEF UploadStep

\* Requests that are no uploads have nothing to do with links.
LEMMA ForeignStep ==
    ASSUME Inv, Attended, NEW w \in Workers, OtherStep(w) \/ Arrive(w)
    PROVE  Attended'
<1>i. WorkersOK /\ Positions /\ workers[w] \in WorkerType /\ cleaner.status # "processing"
  BY DEF Inv, WorkersOK, Attended
<1>k. intents' = intents /\ cleaner' = cleaner
  <2>1. CASE OtherStep(w)
    BY <2>1 DEF OtherStep, StopCancelled, FindImage, CheckUse, DeleteFile, DeleteMetadata,
       RemoveFromRelease, CollectRelease, ReadForDeployment, InsertDeployment, NoMoreDeployments,
       FindActive, DeleteImagesByNames, DeleteReleasesByNames, database
  <2>2. CASE Arrive(w)
    BY <2>2 DEF Arrive, StartCreateImage, StartCompleteUpload, StartDeleteImage, StartCreateDeployment,
       StartDeleteReleases, Start, database
  <2> QED BY <2>1, <2>2
<1>u. ~workers[w].linked
  <2>1. CASE StopCancelled(w)
    BY <2>1 DEF StopCancelled, Attended
  <2>2. CASE OtherStep(w) /\ ~StopCancelled(w)
    <3>1. workers[w].pc \notin UploadSteps
      BY <2>2 DEF OtherStep, FindImage, CheckUse, DeleteFile, DeleteMetadata,
         RemoveFromRelease, CollectRelease, ReadForDeployment, InsertDeployment, NoMoreDeployments,
         FindActive, DeleteImagesByNames, DeleteReleasesByNames, At, UploadSteps
    <3> QED BY <1>i, <3>1 DEF Positions
  <2>3. CASE Arrive(w)
    <3>1. workers[w].pc = "idle"
      BY <2>3 DEF Arrive, StartCreateImage, StartCompleteUpload, StartDeleteImage,
         StartCreateDeployment, StartDeleteReleases, Start
    <3> QED BY <1>i, <3>1 DEF Positions, UploadSteps
  <2> QED BY <2>1, <2>2, <2>3
<1>n. ASSUME NEW new, Becomes(w, new), new.linked = FALSE, new.pc # "finish" PROVE Attended'
  <2>1. new.linked = workers[w].linked
    BY <1>i, <1>u, <1>n DEF WorkerType
  <2> QED BY <1>i, <1>k, <1>u, <1>n, <2>1, SameProcessors
<1>1. ASSUME NEW pc, pc # "finish", Goto(w, pc) PROVE Attended'
  <2> DEFINE new == [workers[w] EXCEPT !.pc = pc]
  <2>1. Becomes(w, new)
    BY <1>1 DEF Goto, Becomes
  <2>2. new.linked = FALSE /\ new.pc = pc
    BY <1>i, <1>u DEF WorkerType
  <2> HIDE DEF new
  <2> QED BY <1>n, <1>1, <2>1, <2>2
<1>2. ASSUME Done(w) PROVE Attended'
  <2>1. Becomes(w, Idle) /\ Idle.linked = FALSE /\ Idle.pc # "finish"
    BY <1>2 DEF Done, Becomes, Idle
  <2> QED BY <1>n, <2>1
<1>3. CASE ReadForDeployment(w) /\ ImageIds # {}
  <2> DEFINE new == [workers[w] EXCEPT !.pc = "insert_deployment", !.copy = ImageIds]
  <2>1. Becomes(w, new)
    BY <1>i, <1>3 DEF ReadForDeployment, Becomes, WorkersOK
  <2>2. new.linked = FALSE /\ new.pc # "finish"
    BY <1>i, <1>u DEF WorkerType
  <2> HIDE DEF new
  <2> QED BY <1>n, <2>1, <2>2
<1>4. CASE OtherStep(w) /\ ~(ReadForDeployment(w) /\ ImageIds # {})
  BY <1>1, <1>2, <1>4 DEF OtherStep, StopCancelled, FindImage, CheckUse, DeleteFile, DeleteMetadata,
     RemoveFromRelease, CollectRelease, ReadForDeployment, InsertDeployment, NoMoreDeployments,
     FindActive, DeleteImagesByNames, DeleteReleasesByNames
<1>5. CASE Arrive(w)
  <2>1. ASSUME NEW pc, NEW a, NEW type, NEW uploads, Start(w, pc, a, type, uploads), pc # "finish"
        PROVE  Attended'
    <3> DEFINE new == [Idle EXCEPT !.pc = pc, !.id = a, !.type = type]
    <3>1. Becomes(w, new)
      BY <2>1 DEF Start, Becomes
    <3>2. new.linked = FALSE /\ new.pc = pc
      BY DEF Idle
    <3> HIDE DEF new
    <3> QED BY <1>n, <2>1, <3>1, <3>2
  <2> QED BY <1>5, <2>1 DEF Arrive, StartCreateImage, StartCompleteUpload, StartDeleteImage,
             StartCreateDeployment, StartDeleteReleases
<1> QED BY <1>3, <1>4, <1>5

\* A pending link is processed by nobody; the request that takes it processes it.
LEMMA TakeAttended ==
    ASSUME Inv, Attended, NEW w \in Workers, TakeLink(w)
    PROVE  Attended'
<1>i. /\ workers \in [Workers -> WorkerType] /\ intents \in [Ids -> IntentType]
      /\ cleaner' = cleaner /\ workers[w].pc = "take" /\ ~workers[w].cancelled
  BY DEF Inv, WorkersOK, IntentsOK, TakeLink, At
<1>u. ~workers[w].linked /\ workers[w].id \in Ids
  BY <1>i DEF Inv, Positions, UploadSteps
<1> DEFINE b == workers[w].id
<1> DEFINE new == [workers[w] EXCEPT !.pc = "put", !.linked = TRUE]
<1>1. CASE intents[b].status # "pending"
  <2>1. Becomes(w, Idle) /\ intents' = intents
    BY <1>1 DEF TakeLink, Matches, Done, Becomes
  <2>2. Idle.linked = workers[w].linked /\ Idle.pc # "finish"
    BY <1>i, <1>u DEF WorkerType, Idle
  <2> QED BY <1>i, <1>u, <2>1, <2>2, SameProcessors DEF Attended
<1>2. CASE intents[b].status = "pending"
  <2>1. /\ intents' = [intents EXCEPT ![b].status = "processing", ![b].stale = FALSE]
        /\ workers' = [workers EXCEPT ![w] = new]
    BY <1>2, <1>i DEF TakeLink, Matches
  <2>2. /\ intents'[b].status = "processing" /\ ~intents'[b].stale
        /\ \A a \in Ids : a # b => intents'[a] = intents[a]
    BY <1>i, <1>u, <2>1 DEF IntentType
  <2>3. /\ workers'[w].linked /\ workers'[w].id = b /\ ~workers'[w].cancelled
        /\ workers'[w].pc = "put"
        /\ \A v \in Workers : v # w => workers'[v] = workers[v]
    BY <1>i, <2>1 DEF WorkerType
  <2>4. \A v \in Workers : workers[v].linked => v # w /\ workers[v].id # b
    BY <1>2, <1>u DEF Attended
  <2> HIDE DEF b, new
  <2>5. \A v \in Workers : workers[v].linked => workers[v].id \in Ids
    BY DEF Inv, Positions, UploadSteps
  <2>6. /\ \A v \in Workers : workers'[v].pc = "finish" => workers'[v].linked
        /\ \A v \in Workers : workers'[v].linked =>
              ~workers'[v].cancelled /\ intents'[workers'[v].id].status = "processing"
    BY <2>2, <2>3, <2>4, <2>5 DEF Attended
  <2>7. \A u, v \in Workers :
          workers'[u].linked /\ workers'[v].linked /\ workers'[u].id = workers'[v].id => u = v
    BY <2>3, <2>4 DEF Attended
  <2>8. \A a \in Ids : intents'[a].status = "processing" =>
          \E v \in Workers : workers'[v].linked /\ workers'[v].id = a
    <3> SUFFICES ASSUME NEW a \in Ids, intents'[a].status = "processing", a # b
                 PROVE  \E v \in Workers : workers'[v].linked /\ workers'[v].id = a
      BY <2>3
    <3>1. PICK v \in Workers : workers[v].linked /\ workers[v].id = a
      BY <2>2 DEF Attended
    <3> QED BY <2>3, <2>4, <3>1
  <2>9. (\A a \in Ids : ~intents'[a].stale) /\ cleaner'.status # "processing"
    BY <1>i, <2>2 DEF Attended
  <2> QED BY <2>6, <2>7, <2>8, <2>9 DEF Attended
<1> QED BY <1>1, <1>2

\* The routine that is through leaves a link that nobody processes.
LEMMA FinishAttended ==
    ASSUME Inv, Attended, NEW w \in Workers, FinishProcessing(w)
    PROVE  Attended'
<1>i. /\ workers \in [Workers -> WorkerType] /\ intents \in [Ids -> IntentType]
      /\ cleaner' = cleaner /\ workers[w].pc = "finish"
  BY DEF Inv, WorkersOK, IntentsOK, FinishProcessing, At
<1> DEFINE b == workers[w].id
<1>u. workers[w].linked /\ b \in Ids /\ intents[b].status = "processing"
  BY <1>i DEF Attended, Inv, Positions, UploadSteps
<1>1. \E st \in {"completed", "aborted"} : intents' = [intents EXCEPT ![b].status = st]
  BY <1>u DEF FinishProcessing, Matches
<1>2. /\ intents'[b].status # "processing" /\ \A a \in Ids : intents'[a].stale = intents[a].stale
      /\ \A a \in Ids : a # b => intents'[a] = intents[a]
  BY <1>i, <1>u, <1>1 DEF IntentType
<1>3. /\ ~workers'[w].linked /\ workers'[w].pc = "idle"
      /\ \A v \in Workers : v # w => workers'[v] = workers[v]
  BY <1>i DEF FinishProcessing, Done, Idle
<1>4. \A v \in Workers : workers[v].linked /\ v # w => workers[v].id # b
  BY <1>u DEF Attended
<1> HIDE DEF b
<1>5. \A v \in Workers : workers[v].linked => workers[v].id \in Ids
  BY DEF Inv, Positions, UploadSteps
<1>6. /\ \A v \in Workers : workers'[v].pc = "finish" => workers'[v].linked
      /\ \A v \in Workers : workers'[v].linked =>
            ~workers'[v].cancelled /\ intents'[workers'[v].id].status = "processing"
      /\ \A u, v \in Workers :
            workers'[u].linked /\ workers'[v].linked /\ workers'[u].id = workers'[v].id => u = v
  BY <1>2, <1>3, <1>4, <1>5 DEF Attended
<1>7. \A a \in Ids : intents'[a].status = "processing" =>
        \E v \in Workers : workers'[v].linked /\ workers'[v].id = a
  <2> SUFFICES ASSUME NEW a \in Ids, intents'[a].status = "processing"
               PROVE  \E v \in Workers : workers'[v].linked /\ workers'[v].id = a
    OBVIOUS
  <2>1. a # b
    BY <1>2
  <2>2. PICK v \in Workers : workers[v].linked /\ workers[v].id = a
    BY <1>2, <2>1 DEF Attended
  <2>3. v # w
    BY <2>1, <2>2 DEF b
  <2> QED BY <1>3, <2>2, <2>3
<1>8. (\A a \in Ids : ~intents'[a].stale) /\ cleaner'.status # "processing"
  BY <1>i, <1>2 DEF Attended
<1> QED BY <1>6, <1>7, <1>8 DEF Attended

\* Clients, time and the cleaner do not touch a link that is being processed.
LEMMA ElsewhereAttended ==
    ASSUME Inv, Attended, Elsewhere, ~Fault
    PROVE  Attended'
<1>i. intents \in [Ids -> IntentType] /\ workers' = workers
  BY ElsewhereKeeps DEF Inv, IntentsOK
<1>1. ASSUME \A a \in Ids : (intents'[a].status = "processing") = (intents[a].status = "processing"),
             \A a \in Ids : ~intents'[a].stale, cleaner'.status # "processing"
      PROVE  Attended'
  <2>1. \A v \in Workers : workers[v].linked => workers[v].id \in Ids
    BY DEF Inv, Positions, UploadSteps
  <2> QED BY <1>i, <1>1, <2>1 DEF Attended
<1>2. CASE intents' = intents /\ cleaner' = cleaner
  BY <1>1, <1>2 DEF Attended
<1>3. ASSUME NEW a \in Ids, UploadLink(a) \/ Expire(a) PROVE Attended'
  <2>1. /\ \A b \in Ids : intents'[b].stale = intents[b].stale
        /\ \A b \in Ids : (intents'[b].status = "processing") = (intents[b].status = "processing")
    BY <1>i, <1>3 DEF UploadLink, Expire, Fresh, IntentType
  <2>2. cleaner' = cleaner
    BY <1>3 DEF UploadLink, Expire
  <2> QED BY <1>1, <2>1, <2>2 DEF Attended
<1>4. ASSUME NEW a \in Ids, GoStale(a) PROVE FALSE
  BY <1>4 DEF GoStale, Matches, Processors, Attended
<1>5. ASSUME NEW a \in Ids, MissHeartbeat(a) PROVE FALSE
  BY <1>5 DEF MissHeartbeat
<1>6. ASSUME NEW a \in Ids, FindLink(a) PROVE Attended'
  BY <1>1, <1>6 DEF FindLink, Attended, database
<1>7. CASE ResetLink
  BY <1>7 DEF ResetLink, Attended
<1>8. CASE SettleLink
  <2> DEFINE a == cleaner.id
  <2>1. \/ intents' = intents
        \/ \E st \in SettledStatuses :
             intents' = [intents EXCEPT ![a].status = st] /\ intents[a].status # "processing"
    BY <1>8 DEF SettleLink, Settled, Matches, Attended, SettledStatuses
  <2>2. /\ \A b \in Ids : intents'[b].stale = intents[b].stale
        /\ \A b \in Ids : (intents'[b].status = "processing") = (intents[b].status = "processing")
    BY <1>i, <2>1 DEF IntentType, SettledStatuses
  <2>3. cleaner'.status # "processing"
    BY <1>8 DEF SettleLink, Resting
  <2> QED BY <1>1, <2>2, <2>3 DEF Attended
<1>9. CASE DeleteUpload
  <2>1. cleaner'.status = cleaner.status /\ intents' = intents
    BY <1>9 DEF DeleteUpload, database, Inv, CleanerOK
  <2> QED BY <1>1, <2>1 DEF Attended
<1>10. CASE CrashCleaner
  BY <1>10 DEF CrashCleaner
<1>11. ASSUME NEW a \in Ids, NEW type, PutWithLink(a, type) PROVE Attended'
  BY <1>2, <1>11 DEF PutWithLink, database
<1>12. ASSUME NEW d \in Deployments, FinishDeployment(d) PROVE Attended'
  BY <1>2, <1>12 DEF FinishDeployment
<1>13. CASE UNCHANGED vars
  BY <1>2, <1>13 DEF vars, database
<1> QED BY <1>3, <1>4, <1>5, <1>6, <1>7, <1>8, <1>9, <1>10, <1>11, <1>12, <1>13 DEF Elsewhere, Clean

\* Without a failure every step keeps each link attended.
LEMMA AttendedStep == Inv /\ Unharmed /\ [Next]_vars => Unharmed'
<1> SUFFICES ASSUME Inv, faults = 0 => Attended, [Next]_vars, faults' = 0 PROVE Attended'
  BY DEF Unharmed
<1>f. ~Fault /\ (faults' = faults => Attended)
  BY DEF Fault, Inv, BoundsOK
<1>1. CASE Elsewhere
  <2>1. faults' = faults \/ Fault
    <3>1. CASE UNCHANGED vars
      BY <3>1 DEF vars, bounds
    <3>2. CASE ~UNCHANGED vars
      BY <1>1, <3>2 DEF Elsewhere, UploadLink, Expire, GoStale, MissHeartbeat, PutWithLink,
         FinishDeployment, Clean, FindLink, ResetLink, DeleteUpload, SettleLink, CrashCleaner, bounds
    <3> QED BY <3>1, <3>2
  <2> QED BY <1>1, <1>f, <2>1, ElsewhereAttended
<1>2. ASSUME NEW w \in Workers, Arrive(w) PROVE Attended'
  <2>1. faults' = faults
    BY <1>2 DEF Arrive, StartCreateImage, StartCompleteUpload, StartDeleteImage,
       StartCreateDeployment, StartDeleteReleases, Start
  <2> QED BY <1>2, <1>f, <2>1, ForeignStep
<1>3. ASSUME NEW w \in Workers, OtherStep(w) PROVE Attended'
  <2>1. faults' = faults
    BY <1>3 DEF OtherStep, StopCancelled, FindImage, CheckUse, DeleteFile, DeleteMetadata,
       RemoveFromRelease, CollectRelease, ReadForDeployment, InsertDeployment, NoMoreDeployments,
       FindActive, DeleteImagesByNames, DeleteReleasesByNames, bounds
  <2> QED BY <1>3, <1>f, <2>1, ForeignStep
<1>4. ASSUME NEW w \in Workers, UploadStep(w) PROVE Attended'
  <2>1. faults' = faults
    BY <1>4 DEF UploadStep, OpenObject, TakeLink, PutObject, InsertImage, DeleteObjectAgain,
       AddToRelease, AnyDeployment, ReadImages, AssignArtifacts, FinishProcessing, Heartbeat, bounds
  <2>2. ~Heartbeat(w)
    <3>1. workers[w].linked => workers[w].id \in Ids
      BY DEF Inv, Positions, UploadSteps
    <3> QED BY <1>f, <2>1, <3>1 DEF Heartbeat, Matches, Attended
  <2> QED BY <1>4, <1>f, <2>1, <2>2, TakeAttended, FinishAttended, MiddleStep
<1>5. ASSUME NEW w \in Workers, Crash(w) \/ OperationFails(w) PROVE FALSE
  BY <1>5, <1>f DEF Crash, OperationFails
<1> QED BY <1>1, <1>2, <1>3, <1>4, <1>5, Steps

\* Without a failure no uploaded object is processed twice at the same time, and
\* no link is taken away from who processes it (processUploadedArtifact,
\* UpdateUploadIntentStatus, CleanupExpiredUploads).
THEOREM OneProcessorOnly == Spec => []OneProcessor
<1>1. Init => Unharmed
  BY DEF Unharmed, Init, Attended, Idle, NoLink, Resting
<1>2. Unharmed => OneProcessor
  <2> SUFFICES ASSUME Attended, NEW a \in Ids PROVE Cardinality(Processors(a)) <= 1
    BY DEF Unharmed, OneProcessor
  <2>1. \A v, w \in Processors(a) : v = w
    BY DEF Processors, Attended
  <2>2. CASE Processors(a) = {}
    BY <2>2, FS_EmptySet
  <2>3. CASE Processors(a) # {}
    <3>1. PICK w \in Processors(a) : TRUE
      BY <2>3
    <3>2. Processors(a) = {w}
      BY <2>1, <3>1
    <3> QED BY <3>2, FS_Singleton
  <2> QED BY <2>2, <2>3
<1> QED BY InvInit, InvStep, AttendedStep, <1>1, <1>2, PTL DEF Spec

---------------------------------------------------------------------------
(* Files.                                                                  *)

Storing == {"put", "insert", "undo"}
Deleting == {"find", "in_use", "delete_file", "delete_image", "remove", "collect"}

\* Without a failure the file of an artifact that is not in the database yet is the
\* affair of one upload, and no deletion of the artifact has begun.
FilesOK ==
    /\ \A w \in Workers : ~workers[w].cancelled
    /\ \A w \in Workers : workers[w].pc \in Storing => images[workers[w].id] = NoType
    /\ \A w \in Workers : workers[w].pc = "insert" => file[workers[w].id] # NoType
    /\ \A v, w \in Workers :
         workers[v].id = workers[w].id /\ workers[v].pc \in Storing
         /\ workers[w].pc \in Storing \union Deleting => v = w
    /\ \A a \in Ids : intents[a].status = "pending" =>
         /\ images[a] = NoType
         /\ \A w \in Workers : workers[w].id = a => workers[w].pc \notin Storing \union Deleting
    /\ \A a \in Ids : images[a] # NoType /\ file[a] = NoType =>
         \E w \in Workers : workers[w].id = a /\ workers[w].pc = "delete_image"

\* A worker that goes from old to new has stored and deleted nothing.
Harmless(old, new) ==
    /\ new.cancelled = FALSE
    /\ new.pc \in Storing => old.pc \in Storing /\ new.id = old.id
    /\ new.pc \in Deleting => old.pc \in Deleting /\ new.id = old.id
    /\ new.pc = "insert" => old.pc = "insert"
    /\ old.pc # "delete_image"

\* Such a step disturbs nothing.
LEMMA HarmlessStep ==
    ASSUME Inv, FilesOK, file' = file, images' = images,
           \A a \in Ids : intents'[a].status = "pending" => intents[a].status = "pending",
           NEW w \in Workers, NEW new, Becomes(w, new), Harmless(workers[w], new)
    PROVE  FilesOK'
<1>1. workers'[w] = new /\ \A v \in Workers : v # w => workers'[v] = workers[v]
  BY DEF Inv, WorkersOK, Becomes
<1>2. \A v \in Workers :
        /\ ~workers'[v].cancelled
        /\ workers'[v].pc \in Storing => workers[v].pc \in Storing /\ workers'[v].id = workers[v].id
        /\ workers'[v].pc \in Deleting => workers[v].pc \in Deleting /\ workers'[v].id = workers[v].id
        /\ workers'[v].pc = "insert" => workers[v].pc = "insert"
        /\ workers[v].pc = "delete_image" => workers'[v] = workers[v]
  BY <1>1 DEF Harmless, FilesOK
<1>3. \A v \in Workers : workers'[v].pc = "insert" => workers'[v].id = workers[v].id
  BY <1>2 DEF Storing
<1>4. /\ \A v \in Workers : ~workers'[v].cancelled
      /\ \A v \in Workers : workers'[v].pc \in Storing => images'[workers'[v].id] = NoType
      /\ \A v \in Workers : workers'[v].pc = "insert" => file'[workers'[v].id] # NoType
  BY <1>2, <1>3 DEF FilesOK
<1>5. \A u, v \in Workers :
         workers'[u].id = workers'[v].id /\ workers'[u].pc \in Storing
         /\ workers'[v].pc \in Storing \union Deleting => u = v
  BY <1>2 DEF FilesOK
<1>6. \A a \in Ids : intents'[a].status = "pending" =>
         /\ images'[a] = NoType
         /\ \A v \in Workers : workers'[v].id = a => workers'[v].pc \notin Storing \union Deleting
  BY <1>2 DEF FilesOK
<1>7. \A a \in Ids : images'[a] # NoType /\ file'[a] = NoType =>
         \E v \in Workers : workers'[v].id = a /\ workers'[v].pc = "delete_image"
  BY <1>2 DEF FilesOK
<1> QED BY <1>4, <1>5, <1>6, <1>7 DEF FilesOK

\* The steps that do something to files, to artifacts in the database, or to who
\* is to store or delete them.
FileStep(w) ==
    \/ StartCreateImage(w) \/ StartDeleteImage(w) \/ TakeLink(w) \/ PutObject(w)
    \/ (InsertImage(w) /\ Unique(workers[w].id, workers[w].type)) \/ DeleteObjectAgain(w)
    \/ DeleteFile(w) \/ DeleteMetadata(w) \/ DeleteImagesByNames(w)

\* No other step of a worker does harm.
LEMMA HarmlessSteps ==
    ASSUME Inv, Attended, FilesOK, NEW w \in Workers,
           Arrive(w) \/ UploadStep(w) \/ OtherStep(w), ~FileStep(w), ~Heartbeat(w)
    PROVE  FilesOK'
<1>i. workers \in [Workers -> WorkerType] /\ workers[w] \in WorkerType /\ workers[w].cancelled = FALSE
  BY DEF Inv, WorkersOK, FilesOK, WorkerType
<1> USE DEF FileStep
<1>k. /\ file' = file /\ images' = images
      /\ \A a \in Ids : intents'[a].status = "pending" => intents[a].status = "pending"
  <2>1. CASE Arrive(w)
    BY <2>1 DEF Arrive, StartCompleteUpload, StartCreateDeployment, StartDeleteReleases, Start,
       database, storage
  <2>2. CASE FinishProcessing(w)
    <3>1. \/ intents' = intents
          \/ \E st \in {"completed", "aborted"} :
                intents' = [intents EXCEPT ![workers[w].id].status = st]
      BY <2>2 DEF FinishProcessing
    <3>2. \A a \in Ids : intents'[a].status \in {intents[a].status, "completed", "aborted"}
      BY <3>1 DEF Inv, IntentsOK, IntentType
    <3> QED BY <2>2, <3>2 DEF FinishProcessing, storage
  <2>3. CASE UploadStep(w) /\ ~FinishProcessing(w)
    BY <2>3 DEF UploadStep, OpenObject, InsertImage, AddToRelease, AnyDeployment, ReadImages,
       AssignArtifacts, database, storage
  <2>4. CASE OtherStep(w)
    BY <2>4 DEF OtherStep, StopCancelled, FindImage, CheckUse, RemoveFromRelease, CollectRelease,
       ReadForDeployment, InsertDeployment, NoMoreDeployments, FindActive, DeleteReleasesByNames,
       database, storage
  <2> QED BY <2>1, <2>2, <2>3, <2>4
<1>n. ASSUME NEW new, Becomes(w, new), Harmless(workers[w], new) PROVE FilesOK'
  BY <1>k, <1>n, HarmlessStep
<1>1. ASSUME Done(w), workers[w].pc # "delete_image" PROVE FilesOK'
  <2>1. Becomes(w, Idle) /\ Harmless(workers[w], Idle)
    BY <1>1 DEF Done, Becomes, Harmless, Idle, Storing, Deleting
  <2> QED BY <1>n, <2>1
<1>2. ASSUME NEW pc, Goto(w, pc), pc # "insert", workers[w].pc # "delete_image",
             pc \in Storing => workers[w].pc \in Storing, pc \in Deleting => workers[w].pc \in Deleting
      PROVE  FilesOK'
  <2> DEFINE new == [workers[w] EXCEPT !.pc = pc]
  <2>1. Becomes(w, new)
    BY <1>2 DEF Goto, Becomes
  <2>2. new.pc = pc /\ new.id = workers[w].id /\ new.cancelled = workers[w].cancelled
    BY <1>i DEF WorkerType
  <2> HIDE DEF new
  <2> QED BY <1>i, <1>n, <1>2, <2>1, <2>2 DEF Harmless
<1>3. ASSUME Processed(w) \/ Failed(w), workers[w].pc # "delete_image" PROVE FilesOK'
  <2>1. CASE ~workers[w].linked
    <3>1. Done(w)
      BY <1>i, <1>3, <2>1 DEF Processed, Failed, Done
    <3> QED BY <1>1, <1>3, <3>1
  <2>2. CASE workers[w].linked /\ Processed(w)
    BY <1>2, <1>3, <2>2 DEF Processed, Storing, Deleting
  <2>3. CASE workers[w].linked /\ Failed(w)
    <3> DEFINE new == [workers[w] EXCEPT !.pc = "finish", !.ok = FALSE]
    <3>1. Becomes(w, new)
      BY <1>i, <2>3 DEF Failed, Becomes
    <3>2. new.pc = "finish" /\ new.cancelled = workers[w].cancelled
      BY <1>i DEF WorkerType
    <3> HIDE DEF new
    <3> QED BY <1>i, <1>n, <1>3, <3>1, <3>2 DEF Harmless, Storing, Deleting
  <2> QED BY <1>3, <2>1, <2>2, <2>3
<1>4. CASE Arrive(w)
  <2>1. ASSUME NEW pc \in {"open", "read_images", "find_active"}, NEW a, NEW uploads,
               Start(w, pc, a, NoType, uploads)
        PROVE  FilesOK'
    <3> DEFINE new == [Idle EXCEPT !.pc = pc, !.id = a, !.type = NoType]
    <3>1. Becomes(w, new) /\ workers[w].pc = "idle"
      BY <2>1 DEF Start, Becomes
    <3>2. new.pc = pc /\ new.cancelled = FALSE
      BY DEF Idle
    <3> HIDE DEF new
    <3> QED BY <1>n, <2>1, <3>1, <3>2 DEF Harmless, Storing, Deleting
  <2> QED BY <1>4, <2>1 DEF Arrive, StartCompleteUpload, StartCreateDeployment, StartDeleteReleases
<1>5. CASE OpenObject(w)
  <2>1. CASE tmp[workers[w].id] = NoType
    <3>1. Done(w) /\ workers[w].pc = "open"
      BY <1>5, <2>1 DEF OpenObject, Done, At
    <3> QED BY <1>1, <3>1
  <2>2. CASE tmp[workers[w].id] # NoType
    <3> DEFINE new == [workers[w] EXCEPT !.pc = "take", !.type = tmp[workers[w].id]]
    <3>1. Becomes(w, new) /\ workers[w].pc = "open"
      BY <1>i, <1>5, <2>2 DEF OpenObject, Becomes, At
    <3>2. new.pc = "take" /\ new.cancelled = workers[w].cancelled
      BY <1>i DEF WorkerType
    <3> HIDE DEF new
    <3> QED BY <1>i, <1>n, <3>1, <3>2 DEF Harmless, Storing, Deleting
  <2> QED BY <2>1, <2>2
<1>6. CASE InsertImage(w)
  <2>1. workers[w].pc = "insert" /\ Goto(w, "undo")
    BY <1>6 DEF InsertImage, At
  <2> QED BY <1>2, <2>1 DEF Storing, Deleting
<1>7. CASE ReadImages(w) /\ ImageIds # {}
  <2> DEFINE new == [workers[w] EXCEPT !.pc = "assign", !.copy = ImageIds]
  <2>1. Becomes(w, new) /\ workers[w].pc = "read"
    BY <1>i, <1>7 DEF ReadImages, Becomes, At
  <2>2. new.pc = "assign" /\ new.cancelled = workers[w].cancelled
    BY <1>i DEF WorkerType
  <2> HIDE DEF new
  <2> QED BY <1>i, <1>n, <2>1, <2>2 DEF Harmless, Storing, Deleting
<1>8. CASE \/ AddToRelease(w) \/ AnyDeployment(w) \/ AssignArtifacts(w) \/ FinishProcessing(w)
           \/ (ReadImages(w) /\ ImageIds = {})
  BY <1>1, <1>2, <1>3, <1>8 DEF AddToRelease, AnyDeployment, AssignArtifacts, FinishProcessing,
     ReadImages, At, Storing, Deleting
<1>9. CASE \/ FindImage(w) \/ CheckUse(w) \/ RemoveFromRelease(w) \/ CollectRelease(w)
           \/ InsertDeployment(w) \/ NoMoreDeployments(w) \/ FindActive(w) \/ DeleteReleasesByNames(w)
  BY <1>1, <1>2, <1>9 DEF FindImage, CheckUse, RemoveFromRelease, CollectRelease, InsertDeployment,
     NoMoreDeployments, FindActive, DeleteReleasesByNames, At, Storing, Deleting
<1>10. CASE ReadForDeployment(w)
  <2>1. CASE ImageIds = {}
    BY <1>1, <1>10, <2>1 DEF ReadForDeployment, At
  <2>2. CASE ImageIds # {}
    <3> DEFINE new == [workers[w] EXCEPT !.pc = "insert_deployment", !.copy = ImageIds]
    <3>1. Becomes(w, new) /\ workers[w].pc = "read_images"
      BY <1>i, <1>10, <2>2 DEF ReadForDeployment, Becomes, At
    <3>2. new.pc = "insert_deployment" /\ new.cancelled = workers[w].cancelled
      BY <1>i DEF WorkerType
    <3> HIDE DEF new
    <3> QED BY <1>i, <1>n, <3>1, <3>2 DEF Harmless, Storing, Deleting
  <2> QED BY <2>1, <2>2
<1>11. ~StopCancelled(w)
  BY <1>i DEF StopCancelled
<1> QED BY <1>4, <1>5, <1>6, <1>7, <1>8, <1>9, <1>10, <1>11 DEF UploadStep, OtherStep

\* The worker w goes to a state with this position and artifact, not cancelled.
Moves(w, pc, a) ==
    /\ workers'[w].pc = pc /\ workers'[w].id = a /\ ~workers'[w].cancelled
    /\ \A v \in Workers : v # w => workers'[v] = workers[v]

\* The parts of FilesOK that are about workers, artifacts and links together.
LEMMA FilesParts ==
    ASSUME \A v \in Workers : ~workers'[v].cancelled,
           \A v \in Workers : workers'[v].pc \in Storing => images'[workers'[v].id] = NoType,
           \A v \in Workers : workers'[v].pc = "insert" => file'[workers'[v].id] # NoType,
           \A u, v \in Workers :
              workers'[u].id = workers'[v].id /\ workers'[u].pc \in Storing
              /\ workers'[v].pc \in Storing \union Deleting => u = v,
           \A a \in Ids : intents'[a].status = "pending" =>
              /\ images'[a] = NoType
              /\ \A v \in Workers : workers'[v].id = a => workers'[v].pc \notin Storing \union Deleting,
           \A a \in Ids : images'[a] # NoType /\ file'[a] = NoType =>
              \E v \in Workers : workers'[v].id = a /\ workers'[v].pc = "delete_image"
    PROVE  FilesOK'
BY DEF FilesOK

\* A worker begins to store an artifact that is in nobody's hands.
LEMMA StoringBegins ==
    ASSUME FilesOK, NEW w \in Workers, NEW a \in Ids, Moves(w, "put", a),
           workers[w].pc \in {"idle", "take"}, images[a] = NoType,
           \A v \in Workers : v # w /\ workers[v].id = a => workers[v].pc \notin Storing \union Deleting,
           file' = file, images' = images, intents'[a].status # "pending",
           \A b \in Ids : intents'[b].status = "pending" => intents[b].status = "pending"
    PROVE  FilesOK'
<1>1. \A v \in Workers : ~workers'[v].cancelled
  BY DEF FilesOK, Moves
<1>2. \A v \in Workers : workers'[v].pc \in Storing => images'[workers'[v].id] = NoType
  BY DEF FilesOK, Moves
<1>3. \A v \in Workers : workers'[v].pc = "insert" => file'[workers'[v].id] # NoType
  BY DEF FilesOK, Moves
<1>4. \A u, v \in Workers :
         workers'[u].id = workers'[v].id /\ workers'[u].pc \in Storing
         /\ workers'[v].pc \in Storing \union Deleting => u = v
  BY DEF FilesOK, Moves
<1>5. \A b \in Ids : intents'[b].status = "pending" =>
         /\ images'[b] = NoType
         /\ \A v \in Workers : workers'[v].id = b => workers'[v].pc \notin Storing \union Deleting
  BY DEF FilesOK, Moves
<1>6. \A b \in Ids : images'[b] # NoType /\ file'[b] = NoType =>
         \E v \in Workers : workers'[v].id = b /\ workers'[v].pc = "delete_image"
  BY DEF FilesOK, Moves
<1> QED BY <1>1, <1>2, <1>3, <1>4, <1>5, <1>6, FilesParts

\* Direct uploads, and requests to delete an artifact.
LEMMA ArriveFiles ==
    ASSUME Inv, FilesOK, NEW w \in Workers, StartCreateImage(w) \/ StartDeleteImage(w)
    PROVE  FilesOK'
<1>i. WorkersOK
  BY DEF Inv
<1>1. ASSUME NEW pc, NEW a, NEW type, NEW uploads, Start(w, pc, a, type, uploads)
      PROVE  /\ Moves(w, pc, a) /\ workers[w].pc = "idle"
             /\ file' = file /\ images' = images /\ intents' = intents
  <2>1. workers'[w] = [Idle EXCEPT !.pc = pc, !.id = a, !.type = type]
    BY <1>i, <1>1 DEF Start, WorkersOK
  <2> QED BY <1>i, <1>1, <2>1 DEF Start, WorkersOK, Moves, Idle, storage, database
<1>2. CASE StartCreateImage(w)
  <2>1. PICK a \in Ids : Fresh(a) /\ \E type \in Types \union {Garbage} : Start(w, "put", a, type, TRUE)
    BY <1>2 DEF StartCreateImage
  <2>2. Moves(w, "put", a) /\ workers[w].pc = "idle" /\ file' = file /\ images' = images /\ intents' = intents
    BY <1>1, <2>1
  <2> QED BY <2>1, <2>2, StoringBegins DEF Fresh
<1>3. CASE StartDeleteImage(w)
  <2>1. PICK a \in ImageIds : Start(w, "find", a, NoType, FALSE)
    BY <1>3 DEF StartDeleteImage
  <2>2. Moves(w, "find", a) /\ workers[w].pc = "idle" /\ file' = file /\ images' = images /\ intents' = intents
    BY <1>1, <2>1
  <2>3. a \in Ids /\ images[a] # NoType
    BY DEF ImageIds
  <2>4. "find" \notin Storing /\ workers[w].pc # "delete_image"
    BY <2>2 DEF Storing
  <2>5. \A v \in Workers : ~workers'[v].cancelled
    BY <2>2 DEF FilesOK, Moves
  <2>6. \A v \in Workers : workers'[v].pc \in Storing => images'[workers'[v].id] = NoType
    BY <2>2, <2>4 DEF FilesOK, Moves
  <2>7. \A v \in Workers : workers'[v].pc = "insert" => file'[workers'[v].id] # NoType
    BY <2>2 DEF FilesOK, Moves
  <2>8. \A u, v \in Workers :
           workers'[u].id = workers'[v].id /\ workers'[u].pc \in Storing
           /\ workers'[v].pc \in Storing \union Deleting => u = v
    BY <2>2, <2>3, <2>4 DEF FilesOK, Moves
  <2>9. \A b \in Ids : intents'[b].status = "pending" =>
           /\ images'[b] = NoType
           /\ \A v \in Workers : workers'[v].id = b => workers'[v].pc \notin Storing \union Deleting
    BY <2>2, <2>3 DEF FilesOK, Moves
  <2>10. \A b \in Ids : images'[b] # NoType /\ file'[b] = NoType =>
           \E v \in Workers : workers'[v].id = b /\ workers'[v].pc = "delete_image"
    BY <2>2, <2>4 DEF FilesOK, Moves
  <2> QED BY <2>5, <2>6, <2>7, <2>8, <2>9, <2>10, FilesParts
<1> QED BY <1>2, <1>3

\* A routine takes a link that was pending: nobody else has its artifact.
LEMMA TakeFiles ==
    ASSUME Inv, FilesOK, NEW w \in Workers, TakeLink(w)
    PROVE  FilesOK'
<1>i. /\ WorkersOK /\ IntentsOK /\ workers[w].pc = "take" /\ workers[w] \in WorkerType
      /\ file' = file /\ images' = images /\ ~workers[w].cancelled
  BY DEF Inv, TakeLink, At, storage, WorkersOK
<1>u. workers[w].id \in Ids
  BY <1>i DEF Inv, Positions, UploadSteps
<1>1. CASE Matches(workers[w].id, "pending")
  <2>1. PICK a \in Ids : a = workers[w].id
    BY <1>u
  <2>2. intents' = [intents EXCEPT ![a].status = "processing", ![a].stale = FALSE]
    BY <1>1, <2>1 DEF TakeLink
  <2>3. intents'[a].status = "processing" /\ \A b \in Ids : b # a => intents'[b] = intents[b]
    BY <1>i, <2>2 DEF IntentsOK, IntentType
  <2>4. Moves(w, "put", a)
    BY <1>i, <1>1, <2>1 DEF TakeLink, Moves, WorkersOK, WorkerType
  <2>5. /\ images[a] = NoType
        /\ \A v \in Workers : workers[v].id = a => workers[v].pc \notin Storing \union Deleting
    BY <1>1, <2>1 DEF FilesOK, Matches
  <2> QED BY <1>i, <2>3, <2>4, <2>5, StoringBegins
<1>2. CASE ~Matches(workers[w].id, "pending")
  <2>1. Becomes(w, Idle) /\ Harmless(workers[w], Idle) /\ intents' = intents
    BY <1>i, <1>2 DEF TakeLink, Done, Becomes, Harmless, Idle, Storing, Deleting
  <2> QED BY <1>i, <2>1, HarmlessStep
<1> QED BY <1>1, <1>2

\* A step after which w stores no artifact: it may have changed the file and the
\* metadata of its artifact, which nobody else stores.
LEMMA StoringGoesOn ==
    ASSUME FilesOK, NEW w \in Workers, NEW a \in Ids, workers[w].id = a, workers[w].pc \in Storing,
           NEW pc, NEW b, Moves(w, pc, b), pc \notin Deleting, pc \in Storing => b = a,
           pc \in Storing => images'[a] = NoType, pc = "insert" => file'[a] # NoType,
           \A c \in Ids : c # a => file'[c] = file[c] /\ images'[c] = images[c],
           images'[a] # NoType => file'[a] # NoType,
           \A v \in Workers : workers[v].pc \in Storing => workers[v].id \in Ids,
           intents' = intents
    PROVE  FilesOK'
<1>1. \A v \in Workers : v # w =>
         /\ workers'[v] = workers[v]
         /\ workers[v].pc \in Storing \union Deleting => workers[v].id # a
  BY DEF FilesOK, Moves
<1>2. intents[a].status # "pending"
  BY DEF FilesOK
<1>3. \A v \in Workers : ~workers'[v].cancelled
  BY <1>1 DEF FilesOK, Moves
<1>4. \A v \in Workers : workers'[v].pc \in Storing => images'[workers'[v].id] = NoType
  BY <1>1 DEF FilesOK, Moves
<1>5. \A v \in Workers : workers'[v].pc = "insert" => file'[workers'[v].id] # NoType
  BY <1>1 DEF FilesOK, Moves, Storing
<1>6. \A u, v \in Workers :
         workers'[u].id = workers'[v].id /\ workers'[u].pc \in Storing
         /\ workers'[v].pc \in Storing \union Deleting => u = v
  BY <1>1 DEF FilesOK, Moves
<1>7. \A c \in Ids : intents'[c].status = "pending" =>
         /\ images'[c] = NoType
         /\ \A v \in Workers : workers'[v].id = c => workers'[v].pc \notin Storing \union Deleting
  BY <1>1, <1>2 DEF FilesOK, Moves
<1>8. \A c \in Ids : images'[c] # NoType /\ file'[c] = NoType =>
         \E v \in Workers : workers'[v].id = c /\ workers'[v].pc = "delete_image"
  BY <1>1 DEF FilesOK, Moves, Storing
<1> QED BY <1>3, <1>4, <1>5, <1>6, <1>7, <1>8, FilesParts

\* The steps that store an artifact, or take it back.
LEMMA StoreFiles ==
    ASSUME Inv, FilesOK, NEW w \in Workers,
           \/ PutObject(w) \/ DeleteObjectAgain(w)
           \/ (InsertImage(w) /\ Unique(workers[w].id, workers[w].type))
    PROVE  FilesOK'
<1>i. /\ WorkersOK /\ workers[w] \in WorkerType /\ ~workers[w].cancelled
      /\ file \in [Ids -> Types \union {NoType}] /\ images \in [Ids -> Types \union {NoType}]
  BY DEF Inv, WorkersOK, StoredOK, FilesOK
<1>u. workers[w].pc \in Storing /\ intents' = intents
  BY DEF PutObject, InsertImage, DeleteObjectAgain, At, Storing, database
<1>v. \A v \in Workers : workers[v].pc \in Storing => workers[v].id \in Ids
  BY DEF Inv, Positions, UploadSteps, Storing
<1>1. PICK a \in Ids : a = workers[w].id
  BY <1>u, <1>v
<1>m. images[a] = NoType
  BY <1>1, <1>u DEF FilesOK
<1>2. ASSUME Failed(w)
      PROVE  \E pc \in {"idle", "finish"}, b \in Ids \union {0} : Moves(w, pc, b)
  BY <1>i, <1>2 DEF Failed, Moves, WorkersOK, WorkerType, Idle
<1>3. ASSUME NEW pc, Goto(w, pc) PROVE Moves(w, pc, a)
  BY <1>i, <1>1, <1>3 DEF Goto, Moves, WorkersOK, WorkerType
<1>4. CASE PutObject(w) /\ workers[w].type = Garbage
  <2>1. PICK pc \in {"idle", "finish"}, b \in Ids \union {0} : Moves(w, pc, b)
    BY <1>2, <1>4 DEF PutObject
  <2>2. file' = file /\ images' = images
    BY <1>4 DEF PutObject, database
  <2> QED BY <1>1, <1>u, <1>v, <1>m, <2>1, <2>2, StoringGoesOn DEF Storing, Deleting
<1>5. CASE PutObject(w) /\ workers[w].type # Garbage
  <2>1. Moves(w, "insert", a)
    BY <1>3, <1>5 DEF PutObject
  <2>2. workers[w].type \in Types
    BY <1>5 DEF Inv, Positions, PutObject, At, UploadSteps
  <2>3. file' = [file EXCEPT ![a] = workers[w].type] /\ images' = images
    BY <1>1, <1>5 DEF PutObject, database
  <2>4. file'[a] # NoType /\ \A c \in Ids : c # a => file'[c] = file[c]
    BY <1>i, <2>2, <2>3, ContentAssumption
  <2> QED BY <1>1, <1>u, <1>v, <1>m, <2>1, <2>3, <2>4, StoringGoesOn DEF Storing, Deleting
<1>6. CASE InsertImage(w) /\ Unique(workers[w].id, workers[w].type)
  <2>1. Moves(w, "add", a)
    BY <1>3, <1>6 DEF InsertImage
  <2>2. images' = [images EXCEPT ![a] = workers[w].type] /\ file' = file
    BY <1>1, <1>6 DEF InsertImage, storage
  <2>3. file[a] # NoType
    BY <1>1, <1>6 DEF InsertImage, At, FilesOK
  <2>4. \A c \in Ids : c # a => images'[c] = images[c]
    BY <1>i, <2>2
  <2> QED BY <1>1, <1>u, <1>v, <2>1, <2>2, <2>3, <2>4, StoringGoesOn DEF Storing, Deleting
<1>7. CASE DeleteObjectAgain(w)
  <2>1. PICK pc \in {"idle", "finish"}, b \in Ids \union {0} : Moves(w, pc, b)
    BY <1>2, <1>7 DEF DeleteObjectAgain
  <2>2. file' = [file EXCEPT ![a] = NoType] /\ images' = images
    BY <1>1, <1>7 DEF DeleteObjectAgain, database
  <2>3. \A c \in Ids : c # a => file'[c] = file[c]
    BY <1>i, <2>2
  <2> QED BY <1>1, <1>u, <1>v, <1>m, <2>1, <2>2, <2>3, StoringGoesOn DEF Storing, Deleting
<1> QED BY <1>4, <1>5, <1>6, <1>7

\* A request deletes its artifact, which nobody stores: first the file, then the
\* metadata.
LEMMA DeletingGoesOn ==
    ASSUME FilesOK, NEW w \in Workers, NEW a \in Ids, workers[w].id = a, workers[w].pc \in Deleting,
           NEW pc \in Deleting, Moves(w, pc, a),
           \A c \in Ids : c # a => file'[c] = file[c] /\ images'[c] = images[c],
           pc = "delete_image" \/ images'[a] = NoType,
           \A c \in Ids : images'[c] \in {images[c], NoType},
           \A v \in Workers : workers[v].pc \in Storing => workers[v].id \in Ids,
           intents' = intents
    PROVE  FilesOK'
<1>1. \A v \in Workers : v # w => workers'[v] = workers[v]
  BY DEF Moves
<1>2. pc \notin Storing /\ pc # "insert"
  BY DEF Storing, Deleting
<1>3. \A v \in Workers : workers[v].pc \in Storing => workers[v].id # a
  BY DEF FilesOK, Storing, Deleting
<1>4. \A v \in Workers : ~workers'[v].cancelled
  BY <1>1 DEF FilesOK, Moves
<1>5. \A v \in Workers : workers'[v].pc \in Storing => images'[workers'[v].id] = NoType
  BY <1>1, <1>2, <1>3 DEF FilesOK, Moves
<1>6. \A v \in Workers : workers'[v].pc = "insert" => file'[workers'[v].id] # NoType
  <2> SUFFICES ASSUME NEW v \in Workers, workers'[v].pc = "insert"
               PROVE  file'[workers'[v].id] # NoType
    OBVIOUS
  <2>1. workers'[v] = workers[v] /\ workers[v].pc = "insert" /\ workers[v].pc \in Storing
    BY <1>1, <1>2 DEF Moves, Storing
  <2>2. workers[v].id \in Ids /\ workers[v].id # a
    BY <1>3, <2>1
  <2> QED BY <2>1, <2>2 DEF FilesOK
<1>7. \A u, v \in Workers :
         workers'[u].id = workers'[v].id /\ workers'[u].pc \in Storing
         /\ workers'[v].pc \in Storing \union Deleting => u = v
  BY <1>1, <1>2, <1>3 DEF FilesOK, Moves
<1>8. \A c \in Ids : intents'[c].status = "pending" =>
         /\ images'[c] = NoType
         /\ \A v \in Workers : workers'[v].id = c => workers'[v].pc \notin Storing \union Deleting
  <2> SUFFICES ASSUME NEW c \in Ids, intents[c].status = "pending"
               PROVE  /\ images'[c] = NoType
                      /\ \A v \in Workers : workers'[v].id = c => workers'[v].pc \notin Storing \union Deleting
    OBVIOUS
  <2>1. images[c] = NoType /\ \A v \in Workers : workers[v].id = c => workers[v].pc \notin Storing \union Deleting
    BY DEF FilesOK
  <2>2. c # a
    BY <2>1
  <2> QED BY <1>1, <2>1, <2>2 DEF Moves
<1>9. \A c \in Ids : images'[c] # NoType /\ file'[c] = NoType =>
         \E v \in Workers : workers'[v].id = c /\ workers'[v].pc = "delete_image"
  <2> SUFFICES ASSUME NEW c \in Ids, images'[c] # NoType, file'[c] = NoType
               PROVE  \E v \in Workers : workers'[v].id = c /\ workers'[v].pc = "delete_image"
    OBVIOUS
  <2>1. CASE c = a
    BY <2>1 DEF Moves
  <2>2. CASE c # a
    <3>1. PICK v \in Workers : workers[v].id = c /\ workers[v].pc = "delete_image"
      BY <2>2 DEF FilesOK
    <3> QED BY <1>1, <2>2, <3>1
  <2> QED BY <2>1, <2>2
<1> QED BY <1>4, <1>5, <1>6, <1>7, <1>8, <1>9, FilesParts

\* The steps that delete.
LEMMA DeleteFiles ==
    ASSUME Inv, FilesOK, NEW w \in Workers,
           DeleteFile(w) \/ DeleteMetadata(w) \/ DeleteImagesByNames(w)
    PROVE  FilesOK'
<1>i. /\ WorkersOK /\ workers[w] \in WorkerType /\ ~workers[w].cancelled /\ intents' = intents
      /\ file \in [Ids -> Types \union {NoType}] /\ images \in [Ids -> Types \union {NoType}]
  BY DEF Inv, WorkersOK, StoredOK, FilesOK, DeleteFile, DeleteMetadata, DeleteImagesByNames, database
<1>v. \A v \in Workers : workers[v].pc \in Storing => workers[v].id \in Ids
  BY DEF Inv, Positions, UploadSteps, Storing
<1>1. ASSUME NEW pc, Goto(w, pc) PROVE Moves(w, pc, workers[w].id)
  BY <1>i, <1>1 DEF Goto, Moves, WorkersOK, WorkerType
<1>2. CASE DeleteFile(w) \/ DeleteMetadata(w)
  <2>1. PICK a \in Ids : a = workers[w].id
    BY <1>2 DEF DeleteFile, DeleteMetadata, At, Inv, Positions
  <2>2. CASE DeleteFile(w)
    <3>1. Moves(w, "delete_image", a) /\ workers[w].pc \in Deleting /\ "delete_image" \in Deleting
      BY <1>1, <2>1, <2>2 DEF DeleteFile, At, Deleting
    <3>2. file' = [file EXCEPT ![a] = NoType] /\ images' = images
      BY <2>1, <2>2 DEF DeleteFile, database
    <3>3. \A c \in Ids : c # a => file'[c] = file[c]
      BY <1>i, <3>2
    <3> QED BY <1>i, <1>v, <2>1, <3>1, <3>2, <3>3, DeletingGoesOn
  <2>3. CASE DeleteMetadata(w)
    <3>1. Moves(w, "remove", a) /\ workers[w].pc \in Deleting /\ "remove" \in Deleting
      BY <1>1, <2>1, <2>3 DEF DeleteMetadata, At, Deleting
    <3>2. images' = [images EXCEPT ![a] = NoType] /\ file' = file
      BY <2>1, <2>3 DEF DeleteMetadata, storage
    <3>3. images'[a] = NoType /\ \A c \in Ids : c # a => images'[c] = images[c]
      BY <1>i, <3>2
    <3> QED BY <1>i, <1>v, <2>1, <3>1, <3>2, <3>3, DeletingGoesOn
  <2> QED BY <1>2, <2>2, <2>3
<1>3. CASE DeleteImagesByNames(w)
  <2>1. Moves(w, "delete_release", workers[w].id) /\ "delete_release" \notin Storing \union Deleting
    BY <1>1, <1>3 DEF DeleteImagesByNames, Storing, Deleting
  <2>2. images' = [a \in Ids |-> NoType] /\ file' = file
    BY <1>3 DEF DeleteImagesByNames, storage
  <2>3. \A v \in Workers :
           /\ ~workers'[v].cancelled
           /\ workers'[v].pc \in Storing \union Deleting =>
                workers'[v].pc = workers[v].pc /\ workers'[v].id = workers[v].id
    BY <2>1 DEF FilesOK, Moves
  <2>4. \A v \in Workers : workers'[v].pc \in Storing => images'[workers'[v].id] = NoType
    BY <1>v, <2>2, <2>3
  <2>5. \A v \in Workers : workers'[v].pc = "insert" => file'[workers'[v].id] # NoType
    BY <2>2, <2>3 DEF FilesOK, Storing
  <2>6. \A u, v \in Workers :
           workers'[u].id = workers'[v].id /\ workers'[u].pc \in Storing
           /\ workers'[v].pc \in Storing \union Deleting => u = v
    BY <2>3 DEF FilesOK
  <2>7. \A c \in Ids : intents'[c].status = "pending" =>
           /\ images'[c] = NoType
           /\ \A v \in Workers : workers'[v].id = c => workers'[v].pc \notin Storing \union Deleting
    BY <1>i, <2>2, <2>3 DEF FilesOK
  <2>8. \A c \in Ids : images'[c] = NoType
    BY <2>2
  <2> QED BY <2>3, <2>4, <2>5, <2>6, <2>7, <2>8, FilesParts
<1> QED BY <1>2, <1>3

\* No link becomes pending again, and one that is made is of no artifact.
LEMMA ElsewhereFiles ==
    ASSUME Inv, Attended, FilesOK, Elsewhere
    PROVE  FilesOK'
<1>i. intents \in [Ids -> IntentType] /\ workers' = workers
  BY ElsewhereKeeps DEF Inv, IntentsOK
<1>1. file' = file /\ images' = images
  BY DEF Elsewhere, UploadLink, Expire, GoStale, MissHeartbeat, PutWithLink, FinishDeployment, Clean,
     FindLink, ResetLink, DeleteUpload, SettleLink, CrashCleaner, vars, database, storage
<1>2. ASSUME \A a \in Ids : intents'[a].status = "pending" => intents[a].status = "pending" \/ Fresh(a)
      PROVE  FilesOK'
  <2>1. \A a \in Ids : intents'[a].status = "pending" =>
           /\ images[a] = NoType
           /\ \A w \in Workers : workers[w].id = a => workers[w].pc \notin Storing \union Deleting
    BY <1>2 DEF FilesOK, Fresh
  <2>2. /\ \A w \in Workers : ~workers[w].cancelled
        /\ \A w \in Workers : workers[w].pc \in Storing => images[workers[w].id] = NoType
        /\ \A w \in Workers : workers[w].pc = "insert" => file[workers[w].id] # NoType
        /\ \A v, w \in Workers :
             workers[v].id = workers[w].id /\ workers[v].pc \in Storing
             /\ workers[w].pc \in Storing \union Deleting => v = w
        /\ \A a \in Ids : images[a] # NoType /\ file[a] = NoType =>
             \E w \in Workers : workers[w].id = a /\ workers[w].pc = "delete_image"
    BY DEF FilesOK
  <2> QED BY <1>i, <1>1, <2>1, <2>2 DEF FilesOK
<1>3. ASSUME NEW a \in Ids, UploadLink(a) PROVE FilesOK'
  <2>1. Fresh(a) /\ \A b \in Ids : b # a => intents'[b] = intents[b]
    BY <1>i, <1>3 DEF UploadLink
  <2> QED BY <1>2, <2>1
<1>4. ASSUME NEW a \in Ids, Expire(a) \/ GoStale(a) \/ MissHeartbeat(a) PROVE FilesOK'
  <2>1. \A b \in Ids : intents'[b].status = intents[b].status
    BY <1>i, <1>4 DEF Expire, GoStale, MissHeartbeat, IntentType
  <2> QED BY <1>2, <2>1
<1>5. ~ResetLink
  BY DEF ResetLink, Attended
<1>6. CASE SettleLink
  <2>1. intents' = intents \/ \E st \in SettledStatuses : intents' = [intents EXCEPT ![cleaner.id].status = st]
    BY <1>6 DEF SettleLink, Settled, SettledStatuses
  <2>2. \A b \in Ids : intents'[b].status \in {intents[b].status} \union SettledStatuses
    BY <1>i, <2>1 DEF IntentType
  <2>3. "pending" \notin SettledStatuses
    BY DEF SettledStatuses
  <2> QED BY <1>2, <2>2, <2>3
<1>7. CASE intents' = intents
  BY <1>2, <1>7
<1>8. CASE \/ \E a \in Ids : FindLink(a) \/ \E type \in Types \union {Garbage} : PutWithLink(a, type)
           \/ \E d \in Deployments : FinishDeployment(d)
           \/ DeleteUpload \/ CrashCleaner \/ UNCHANGED vars
  <2>1. intents' = intents
    BY <1>8 DEF FindLink, PutWithLink, FinishDeployment, DeleteUpload, CrashCleaner, vars, database
  <2> QED BY <1>7, <2>1
<1> QED BY <1>3, <1>4, <1>5, <1>6, <1>8 DEF Elsewhere, Clean

FilesUnharmed == faults = 0 => FilesOK

\* Without a failure the system goes on like this.
LEMMA FaultlessSteps ==
    ASSUME Inv, Unharmed, FilesUnharmed, [Next]_vars, faults' = 0
    PROVE  /\ faults = 0 /\ Attended /\ FilesOK
           /\ \/ Elsewhere
              \/ \E w \in Workers : Arrive(w) \/ ((UploadStep(w) \/ OtherStep(w)) /\ ~Heartbeat(w))
<1>1. ~Fault
  BY DEF Fault, Inv, BoundsOK
<1>2. faults' = faults \/ Fault
  <2>1. CASE UNCHANGED vars
    BY <2>1 DEF vars, bounds
  <2>2. CASE Elsewhere /\ ~UNCHANGED vars
    BY <2>2 DEF Elsewhere, UploadLink, Expire, GoStale, MissHeartbeat, PutWithLink,
       FinishDeployment, Clean, FindLink, ResetLink, DeleteUpload, SettleLink, CrashCleaner, bounds
  <2>3. ASSUME NEW w \in Workers, Arrive(w) PROVE faults' = faults
    BY <2>3 DEF Arrive, StartCreateImage, StartCompleteUpload, StartDeleteImage,
       StartCreateDeployment, StartDeleteReleases, Start
  <2>4. ASSUME NEW w \in Workers, UploadStep(w) PROVE faults' = faults
    BY <2>4 DEF UploadStep, OpenObject, TakeLink, PutObject, InsertImage, DeleteObjectAgain,
       AddToRelease, AnyDeployment, ReadImages, AssignArtifacts, FinishProcessing, Heartbeat, bounds
  <2>5. ASSUME NEW w \in Workers, OtherStep(w) PROVE faults' = faults
    BY <2>5 DEF OtherStep, StopCancelled, FindImage, CheckUse, DeleteFile, DeleteMetadata,
       RemoveFromRelease, CollectRelease, ReadForDeployment, InsertDeployment, NoMoreDeployments,
       FindActive, DeleteImagesByNames, DeleteReleasesByNames, bounds
  <2>6. ASSUME NEW w \in Workers, Crash(w) \/ OperationFails(w) PROVE Fault
    BY <2>6 DEF Crash, OperationFails
  <2> QED BY <2>1, <2>2, <2>3, <2>4, <2>5, <2>6, Steps
<1>3. faults = 0 /\ Attended /\ FilesOK
  BY <1>1, <1>2 DEF Unharmed, FilesUnharmed
<1>4. ASSUME NEW w \in Workers, Heartbeat(w) PROVE FALSE
  <2>1. workers[w].linked => workers[w].id \in Ids
    BY DEF Inv, Positions, UploadSteps
  <2> QED BY <1>3, <1>4, <2>1 DEF Heartbeat, Matches, Attended
<1>5. ASSUME NEW w \in Workers, Crash(w) \/ OperationFails(w) PROVE FALSE
  BY <1>1, <1>5 DEF Crash, OperationFails
<1> QED BY <1>3, <1>4, <1>5, Steps

\* Without a failure every step leaves the files in order.
LEMMA FilesStep == Inv /\ Unharmed /\ FilesUnharmed /\ [Next]_vars => FilesUnharmed'
<1> SUFFICES ASSUME Inv, Unharmed, FilesUnharmed, [Next]_vars, faults' = 0 PROVE FilesOK'
  BY DEF FilesUnharmed
<1>1. FilesOK /\ Attended
  BY FaultlessSteps
<1>2. CASE Elsewhere
  BY <1>1, <1>2, ElsewhereFiles
<1>3. ASSUME NEW w \in Workers, FileStep(w) PROVE FilesOK'
  BY <1>1, <1>3, ArriveFiles, TakeFiles, StoreFiles, DeleteFiles DEF FileStep
<1>4. ASSUME NEW w \in Workers, Arrive(w) \/ ((UploadStep(w) \/ OtherStep(w)) /\ ~Heartbeat(w))
      PROVE  FilesOK'
  <2>1. ~Heartbeat(w)
    BY <1>1, <1>4 DEF Arrive, StartCreateImage, StartCompleteUpload, StartDeleteImage,
       StartCreateDeployment, StartDeleteReleases, Start, Heartbeat, Inv, Positions, UploadSteps
  <2> QED BY <1>1, <1>3, <1>4, <2>1, HarmlessSteps
<1> QED BY <1>2, <1>4, FaultlessSteps

\* Without a failure every artifact of the database has its file, but while it is
\* being deleted: no upload, conflict or deletion takes the file of another
\* (handleRawFile, handleArtifact, DeleteImage).
THEOREM FilesKept == Spec => []ImageHasFile
<1>1. Init => Unharmed /\ FilesUnharmed
  BY DEF Unharmed, FilesUnharmed, Init, Attended, FilesOK, Idle, NoLink, Resting, Storing
<1>2. FilesUnharmed => ImageHasFile
  BY DEF FilesUnharmed, FilesOK, ImageHasFile, ImageIds
<1> QED BY InvInit, InvStep, AttendedStep, FilesStep, <1>1, <1>2, PTL DEF Spec

---------------------------------------------------------------------------
(* What the release lists and what the deployments have.                   *)

\* A request that is no upload is served alone, unless the requests have met, and
\* any request is if none have.
MeetingOK ==
    /\ overlap # "others" => \A v, w \in Busy : Uploading(w) \/ v = w
    /\ overlap = "none" => \A v, w \in Busy : v = w

\* What a worker knows of its artifact at its position.
ListedOK(w) ==
    /\ workers[w].pc = "add" => workers[w].id \in ImageIds \ release.list
    /\ workers[w].pc \in {"in_use", "delete_file", "delete_image"} => workers[w].id \in ImageIds
    /\ workers[w].pc = "remove" => workers[w].id \notin ImageIds
    /\ workers[w].pc = "delete_release" => ImageIds = {}

\* The release lists each artifact once its upload has added it, until its deletion
\* removes it.
ReleaseOK ==
    /\ \A w \in Workers : ListedOK(w)
    /\ \A v, w \in Workers :
         workers[v].pc = "add" /\ workers[w].pc = "add" /\ workers[v].id = workers[w].id => v = w
    /\ \/ \E w \in Workers : workers[w].pc = "delete_release"
       \/ \A a \in Ids :
            a \in release.list <=>
              \/ a \in ImageIds /\ \A w \in Workers : workers[w].pc = "add" => workers[w].id # a
              \/ \E w \in Workers : workers[w].pc = "remove" /\ workers[w].id = a
    /\ release.count = Cardinality(release.list)
    /\ release.list # {} => release.exists
    /\ release.exists /\ release.list = {} => \E w \in Workers : workers[w].pc = "collect"

\* The deployments have the artifacts, but while an upload is to assign a new one.
Assigning == {"add", "exists", "read", "assign"}
AssignedOK ==
    /\ \A w \in Workers :
         /\ workers[w].pc \in {"delete_file", "delete_image", "remove", "collect", "delete_images",
                               "delete_release"} => Unfinished = {}
         /\ workers[w].pc \in {"assign", "insert_deployment"} => workers[w].copy = ImageIds
         /\ workers[w].pc \in {"add", "exists", "read"} => workers[w].id \in ImageIds
    /\ \/ \E w \in Workers : workers[w].pc \in Assigning
       \/ \A d \in Unfinished : deployments[d].artifacts = ImageIds

Ordered ==
    faults = 0 =>
        /\ MeetingOK
        /\ overlap # "others" => ReleaseOK
        /\ overlap = "none" => AssignedOK

\* How a request goes on from one position to the next.
Ways ==
    {<<"open", "take">>, <<"take", "put">>, <<"put", "insert">>, <<"put", "finish">>,
     <<"insert", "add">>, <<"insert", "undo">>, <<"undo", "finish">>, <<"add", "exists">>,
     <<"exists", "read">>, <<"exists", "finish">>, <<"read", "assign">>, <<"read", "finish">>,
     <<"assign", "finish">>, <<"find", "in_use">>, <<"in_use", "delete_file">>,
     <<"delete_file", "delete_image">>, <<"delete_image", "remove">>, <<"remove", "collect">>,
     <<"read_images", "insert_deployment">>, <<"find_active", "delete_images">>,
     <<"delete_images", "delete_release">>}

Others(w) == \A v \in Workers : v # w => workers'[v] = workers[v]

GoesOn(w) ==
    /\ workers'[w].id = workers[w].id
    /\ <<workers[w].pc, workers'[w].pc>> \in Ways
    /\ workers'[w].pc \in {"assign", "insert_deployment"} => workers'[w].copy = ImageIds

\* A worker that serves a request goes on with it or ends it.
LEMMA RequestGoesOn ==
    ASSUME Inv, FilesOK, NEW w \in Workers, UploadStep(w) \/ OtherStep(w), ~Heartbeat(w)
    PROVE  Others(w) /\ workers[w].pc # "idle" /\ (workers'[w].pc = "idle" \/ GoesOn(w))
<1>i. workers \in [Workers -> WorkerType] /\ workers[w] \in WorkerType /\ workers[w].cancelled = FALSE
  BY DEF Inv, WorkersOK, FilesOK, WorkerType
<1>1. ASSUME Done(w) PROVE Others(w) /\ workers'[w].pc = "idle"
  BY <1>i, <1>1 DEF Done, Others, Idle
<1>2. ASSUME NEW pc, Goto(w, pc), <<workers[w].pc, pc>> \in Ways, pc \notin {"assign", "insert_deployment"}
      PROVE  Others(w) /\ GoesOn(w)
  BY <1>i, <1>2 DEF Goto, Others, GoesOn, WorkerType
<1>3. ASSUME Processed(w) \/ Failed(w), workers[w].pc \in {"put", "undo", "exists", "read", "assign"}
      PROVE  Others(w) /\ (workers'[w].pc = "idle" \/ GoesOn(w))
  <2>1. CASE Processed(w)
    BY <1>1, <1>2, <1>3, <2>1 DEF Processed, Ways
  <2>2. CASE Failed(w) /\ ~workers[w].linked
    BY <1>i, <1>1, <2>2 DEF Failed, Done
  <2>3. CASE Failed(w) /\ workers[w].linked
    <3>1. workers' = [workers EXCEPT ![w] = [workers[w] EXCEPT !.pc = "finish", !.ok = FALSE]]
      BY <1>i, <2>3 DEF Failed
    <3>2. Others(w) /\ workers'[w].pc = "finish" /\ workers'[w].id = workers[w].id
      BY <1>i, <3>1 DEF Others, WorkerType
    <3> QED BY <1>3, <3>2 DEF GoesOn, Ways
  <2> QED BY <1>3, <2>1, <2>2, <2>3
<1>4. CASE OpenObject(w)
  <2>1. CASE tmp[workers[w].id] = NoType
    BY <1>1, <1>4, <2>1 DEF OpenObject, Done, At
  <2>2. CASE tmp[workers[w].id] # NoType
    BY <1>i, <1>4, <2>2 DEF OpenObject, At, Others, GoesOn, Ways, WorkerType
  <2> QED BY <2>1, <2>2
<1>5. CASE TakeLink(w)
  <2>1. CASE Matches(workers[w].id, "pending")
    BY <1>i, <1>5, <2>1 DEF TakeLink, At, Others, GoesOn, Ways, WorkerType
  <2>2. CASE ~Matches(workers[w].id, "pending")
    BY <1>1, <1>5, <2>2 DEF TakeLink, At
  <2> QED BY <2>1, <2>2
<1>6. CASE PutObject(w) \/ InsertImage(w) \/ DeleteObjectAgain(w)
  BY <1>2, <1>3, <1>6 DEF PutObject, InsertImage, DeleteObjectAgain, At, Ways
<1>7. CASE ReadImages(w) /\ ImageIds # {}
  BY <1>i, <1>7 DEF ReadImages, At, Others, GoesOn, Ways, WorkerType
<1>8. CASE AddToRelease(w) \/ AnyDeployment(w) \/ AssignArtifacts(w)
           \/ (ReadImages(w) /\ ImageIds = {})
  BY <1>2, <1>3, <1>8 DEF AddToRelease, AnyDeployment, AssignArtifacts, ReadImages, At, Ways
<1>9. CASE \/ FindImage(w) \/ CheckUse(w) \/ DeleteFile(w) \/ DeleteMetadata(w)
           \/ RemoveFromRelease(w) \/ FindActive(w) \/ DeleteImagesByNames(w)
  BY <1>1, <1>2, <1>9 DEF FindImage, CheckUse, DeleteFile, DeleteMetadata, RemoveFromRelease,
     FindActive, DeleteImagesByNames, At, Ways
<1>10. CASE ReadForDeployment(w)
  <2>1. CASE ImageIds = {}
    BY <1>1, <1>10, <2>1 DEF ReadForDeployment, At
  <2>2. CASE ImageIds # {}
    BY <1>i, <1>10, <2>2 DEF ReadForDeployment, At, Others, GoesOn, Ways, WorkerType
  <2> QED BY <2>1, <2>2
<1>11. CASE \/ FinishProcessing(w) \/ CollectRelease(w) \/ InsertDeployment(w) \/ NoMoreDeployments(w)
            \/ DeleteReleasesByNames(w)
  BY <1>1, <1>11 DEF FinishProcessing, CollectRelease, InsertDeployment, NoMoreDeployments,
     DeleteReleasesByNames, At
<1>12. ~StopCancelled(w)
  BY <1>i DEF StopCancelled
<1> QED BY <1>4, <1>5, <1>6, <1>7, <1>8, <1>9, <1>10, <1>11, <1>12 DEF UploadStep, OtherStep

\* What a step of a request does to the database, by its position.
LEMMA RequestTouches ==
    ASSUME FilesOK, NEW w \in Workers, UploadStep(w) \/ OtherStep(w), ~Heartbeat(w)
    PROVE  /\ overlap' = overlap
           /\ images' = images \/ workers[w].pc \in {"insert", "delete_image", "delete_images"}
           /\ release' = release \/ workers[w].pc \in {"add", "remove", "collect", "delete_release"}
           /\ deployments' = deployments \/ workers[w].pc \in {"assign", "insert_deployment"}
           /\ workers[w].pc = "insert" => InsertImage(w)
           /\ workers[w].pc = "add" => AddToRelease(w)
           /\ workers[w].pc = "exists" => AnyDeployment(w)
           /\ workers[w].pc = "read" => ReadImages(w)
           /\ workers[w].pc = "assign" => AssignArtifacts(w)
           /\ workers[w].pc = "find" => FindImage(w)
           /\ workers[w].pc = "in_use" => CheckUse(w)
           /\ workers[w].pc = "delete_image" => DeleteMetadata(w)
           /\ workers[w].pc = "remove" => RemoveFromRelease(w)
           /\ workers[w].pc = "collect" => CollectRelease(w)
           /\ workers[w].pc = "insert_deployment" => InsertDeployment(w) \/ NoMoreDeployments(w)
           /\ workers[w].pc = "find_active" => FindActive(w)
           /\ workers[w].pc = "delete_images" => DeleteImagesByNames(w)
           /\ workers[w].pc = "delete_release" => DeleteReleasesByNames(w)
<1>1. ~StopCancelled(w)
  BY DEF FilesOK, StopCancelled
<1>2. CASE UploadStep(w)
  BY <1>2 DEF UploadStep, OpenObject, TakeLink, PutObject, InsertImage, DeleteObjectAgain, AddToRelease,
     AnyDeployment, ReadImages, AssignArtifacts, FinishProcessing, At, database, bounds
<1>3. CASE OtherStep(w)
  BY <1>1, <1>3 DEF OtherStep, FindImage, CheckUse, DeleteFile, DeleteMetadata, RemoveFromRelease,
     CollectRelease, ReadForDeployment, InsertDeployment, NoMoreDeployments, FindActive,
     DeleteImagesByNames, DeleteReleasesByNames, At, database, bounds
<1> QED BY <1>2, <1>3

\* What the steps without a worker leave alone.
LEMMA ElsewhereTouches ==
    ASSUME Elsewhere
    PROVE  /\ workers' = workers /\ images' = images /\ release' = release /\ overlap' = overlap
           /\ \/ deployments' = deployments
              \/ \E d \in Unfinished :
                    deployments' = [deployments EXCEPT ![d].state = "finished"]
BY ElsewhereKeeps DEF Elsewhere, UploadLink, Expire, GoStale, MissHeartbeat, PutWithLink,
   FinishDeployment, Clean, FindLink, ResetLink, DeleteUpload, SettleLink, CrashCleaner, vars,
   database, bounds

\* How a request begins.
Begins(w) ==
    /\ workers[w].pc = "idle" /\ UNCHANGED <<images, release, deployments>>
    /\ workers'[w].pc \in {"put", "open", "find", "read_images", "find_active"}
    /\ overlap' = "none" => overlap = "none" /\ Busy = {}
    /\ overlap' # "others" =>
         /\ overlap # "others"
         /\ Busy # {} =>
              (\A v \in Busy : Uploading(v)) /\ workers'[w].pc \in {"put", "open"}

\* Requests begin like this.
LEMMA RequestBegins ==
    ASSUME Inv, NEW w \in Workers, Arrive(w)
    PROVE  Others(w) /\ Begins(w)
<1>1. ASSUME NEW pc \in {"put", "open", "find", "read_images", "find_active"}, NEW a, NEW type,
             NEW uploads \in BOOLEAN, Start(w, pc, a, type, uploads),
             uploads => pc \in {"put", "open"}
      PROVE  Others(w) /\ Begins(w)
  <2>1. Others(w) /\ workers'[w].pc = pc
    BY <1>1 DEF Start, Others, Inv, WorkersOK, Idle
  <2>2. workers[w].pc = "idle" /\ UNCHANGED <<images, release, deployments>>
    BY <1>1 DEF Start, database
  <2>3. CASE Busy = {}
    BY <1>1, <2>1, <2>2, <2>3 DEF Start, Begins
  <2>4. CASE Busy # {}
    BY <1>1, <2>1, <2>2, <2>4 DEF Start, Begins
  <2> QED BY <2>3, <2>4
<1> QED BY <1>1 DEF Arrive, StartCreateImage, StartCompleteUpload, StartDeleteImage,
   StartCreateDeployment, StartDeleteReleases

\* A busy worker is known by its position.
LEMMA BusyWorker ==
    ASSUME NEW w \in Workers
    PROVE  /\ w \in Busy <=> workers[w].pc # "idle"
           /\ w \in Busy' <=> workers'[w].pc # "idle"
BY DEF Busy

\* Requests that have not met do not meet by going on.
LEMMA MeetingStep ==
    ASSUME Inv, FilesOK, MeetingOK, NEW w \in Workers,
           Arrive(w) \/ ((UploadStep(w) \/ OtherStep(w)) /\ ~Heartbeat(w))
    PROVE  MeetingOK'
<1>1. CASE Arrive(w)
  <2>1. Others(w) /\ Begins(w)
    BY <1>1, RequestBegins
  <2>2. \A v \in Busy' : v = w \/ (v \in Busy /\ (Uploading(v) => Uploading(v)'))
    BY <2>1 DEF Others, Busy, Uploading
  <2>3. workers'[w].pc \in {"put", "open"} => Uploading(w)'
    BY DEF Uploading, UploadSteps
  <2> QED BY <2>1, <2>2, <2>3 DEF Begins, MeetingOK
<1>2. CASE (UploadStep(w) \/ OtherStep(w)) /\ ~Heartbeat(w)
  <2>1. Others(w) /\ workers[w].pc # "idle" /\ (workers'[w].pc = "idle" \/ GoesOn(w)) /\ overlap' = overlap
    BY <1>2, RequestGoesOn, RequestTouches
  <2>2. workers'[w].pc # "idle" /\ Uploading(w) => Uploading(w)'
    BY <2>1 DEF GoesOn, Ways, Uploading, UploadSteps
  <2>3. \A v \in Busy' : v \in Busy /\ (Uploading(v) => Uploading(v)')
    BY <2>1, <2>2 DEF Others, Busy, Uploading
  <2> QED BY <2>1, <2>3 DEF MeetingOK
<1> QED BY <1>1, <1>2

\* Positions between which the release and the artifacts differ.
Between == {"add", "remove", "delete_release", "collect"}
Checked == {"in_use", "delete_file", "delete_image"}

\* A step that changes neither artifacts nor the release.
LEMMA ReleaseKept ==
    ASSUME Inv, ReleaseOK, images' = images, release' = release,
           NEW w \in Workers, Others(w), workers[w].pc \notin Between, workers'[w].pc \notin Between,
           workers'[w].pc \in Checked => workers'[w].id \in ImageIds
    PROVE  ReleaseOK'
<1>1. ImageIds' = ImageIds
  BY DEF ImageIds
<1>2. \A v \in Workers : ListedOK(v)'
  BY <1>1 DEF Others, ReleaseOK, ListedOK, Between, Checked
<1>3. \A v \in Workers, pc \in Between : workers'[v].pc = pc <=> workers[v].pc = pc
  BY DEF Others
<1>4. \A v \in Workers : workers'[v].pc \in Between => workers'[v].id = workers[v].id
  BY DEF Others
<1>5. \A u, v \in Workers :
         workers'[u].pc = "add" /\ workers'[v].pc = "add" /\ workers'[u].id = workers'[v].id => u = v
  BY <1>3, <1>4 DEF ReleaseOK, Between
<1>6. \/ \E v \in Workers : workers'[v].pc = "delete_release"
      \/ \A a \in Ids :
            a \in release.list <=>
              \/ a \in ImageIds /\ \A v \in Workers : workers'[v].pc = "add" => workers'[v].id # a
              \/ \E v \in Workers : workers'[v].pc = "remove" /\ workers'[v].id = a
  BY <1>3, <1>4 DEF ReleaseOK, Between
<1>7. release.exists /\ release.list = {} => \E v \in Workers : workers'[v].pc = "collect"
  BY <1>3 DEF ReleaseOK, Between
<1> QED BY <1>1, <1>2, <1>5, <1>6, <1>7 DEF ReleaseOK

\* What is known of the release when one request is served that is no upload.
LEMMA Solo ==
    ASSUME MeetingOK, overlap # "others", NEW w \in Workers, workers[w].pc # "idle", ~Uploading(w)
    PROVE  \A v \in Workers : v # w => workers[v].pc = "idle"
BY DEF MeetingOK, Busy

\* The artifact of an upload gets into the database before the release lists it.
LEMMA InsertListed ==
    ASSUME Inv, FilesOK, MeetingOK, overlap # "others", ReleaseOK, NEW w \in Workers, Others(w),
           InsertImage(w), workers[w].pc = "insert", Unique(workers[w].id, workers[w].type)
    PROVE  ReleaseOK'
<1>i. /\ workers \in [Workers -> WorkerType] /\ images \in [Ids -> Types \union {NoType}]
      /\ workers[w].type \in Types /\ NoType \notin Types /\ release \in [exists: BOOLEAN, list: SUBSET Ids, count: Int]
  BY ContentAssumption DEF Inv, WorkersOK, Positions, StoredOK
<1>1. PICK b : b = workers[w].id
  OBVIOUS
<1>2. b \in Ids /\ b \notin ImageIds
  BY <1>1 DEF Inv, Positions, Unique, ImageIds
<1>3. images' = [images EXCEPT ![b] = workers[w].type] /\ release' = release
  BY <1>1 DEF InsertImage
<1>4. workers'[w].pc = "add" /\ workers'[w].id = b
  BY <1>i, <1>1 DEF InsertImage, Goto, WorkerType
<1>5. ImageIds' = ImageIds \union {b}
  BY <1>i, <1>2, <1>3 DEF ImageIds
<1>6. \A v \in Workers : workers[v].pc \notin {"remove", "delete_release", "collect"}
  <2>1. w \in Busy
    BY DEF Busy
  <2>2. \A v \in Workers : workers[v].pc \in {"remove", "delete_release", "collect"} =>
          v \in Busy /\ ~Uploading(v)
    BY DEF Busy, Uploading, UploadSteps
  <2> QED BY <2>1, <2>2 DEF MeetingOK
<1>7. b \notin release.list
  BY <1>2, <1>6 DEF ReleaseOK
<1>8. \A v \in Workers : ListedOK(v)'
  <2>1. ListedOK(w)'
    BY <1>3, <1>4, <1>5, <1>7 DEF ListedOK
  <2>2. ASSUME NEW v \in Workers, v # w PROVE ListedOK(v)'
    <3>1. workers'[v] = workers[v] /\ workers[v].pc # "delete_release" /\ ListedOK(v) /\ workers[v].pc # "remove"
      BY <1>6, <2>2 DEF Others, ReleaseOK
    <3> QED BY <1>3, <1>5, <3>1 DEF ListedOK
  <2> QED BY <2>1, <2>2
<1>9. \A u, v \in Workers :
         workers'[u].pc = "add" /\ workers'[v].pc = "add" /\ workers'[u].id = workers'[v].id => u = v
  BY <1>2, <1>4 DEF Others, ReleaseOK, ListedOK
<1>10. ASSUME NEW a \in Ids
       PROVE  a \in release.list <=>
                \/ a \in ImageIds' /\ \A v \in Workers : workers'[v].pc = "add" => workers'[v].id # a
                \/ \E v \in Workers : workers'[v].pc = "remove" /\ workers'[v].id = a
  <2>1. \A v \in Workers : workers'[v].pc # "remove"
    BY <1>4, <1>6 DEF Others
  <2>2. CASE a = b
    BY <1>4, <1>7, <2>1, <2>2
  <2>3. CASE a # b
    BY <1>4, <1>5, <1>6, <2>1, <2>3 DEF Others, ReleaseOK
  <2> QED BY <2>2, <2>3
<1>11. release.exists /\ release.list = {} => \E v \in Workers : workers'[v].pc = "collect"
  BY <1>6 DEF ReleaseOK
<1> QED BY <1>3, <1>8, <1>9, <1>10, <1>11 DEF ReleaseOK

\* An upload adds its artifact to the release.
LEMMA AddListed ==
    ASSUME Inv, MeetingOK, overlap # "others", ReleaseOK, NEW w \in Workers, Others(w), GoesOn(w),
           AddToRelease(w), workers[w].pc = "add"
    PROVE  ReleaseOK'
<1>i. release \in [exists: BOOLEAN, list: SUBSET Ids, count: Int]
  BY DEF Inv, StoredOK
<1>1. PICK b : b = workers[w].id
  OBVIOUS
<1>2. b \in ImageIds /\ b \notin release.list /\ b \in Ids
  BY <1>1 DEF ReleaseOK, ListedOK, ImageIds
<1>3. release' = [exists |-> TRUE, list |-> release.list \union {b}, count |-> release.count + 1]
  BY <1>1 DEF AddToRelease
<1>4. workers'[w].pc = "exists" /\ images' = images
  BY DEF AddToRelease, GoesOn, Ways
<1>5. ImageIds' = ImageIds
  BY <1>4 DEF ImageIds
<1>6. \A v \in Workers : workers[v].pc \notin {"remove", "delete_release", "collect"}
  <2>1. w \in Busy
    BY DEF Busy
  <2>2. \A v \in Workers : workers[v].pc \in {"remove", "delete_release", "collect"} =>
          v \in Busy /\ ~Uploading(v)
    BY DEF Busy, Uploading, UploadSteps
  <2> QED BY <2>1, <2>2 DEF MeetingOK
<1>7. \A v \in Workers : v # w /\ workers[v].pc = "add" => workers[v].id # b
  BY <1>1 DEF ReleaseOK
<1>8. \A v \in Workers : ListedOK(v)'
  <2>1. ListedOK(w)'
    BY <1>4 DEF ListedOK
  <2>2. ASSUME NEW v \in Workers, v # w PROVE ListedOK(v)'
    <3>1. workers'[v] = workers[v] /\ ListedOK(v)
      BY <2>2 DEF Others, ReleaseOK
    <3> QED BY <1>3, <1>5, <1>6, <1>7, <2>2, <3>1 DEF ListedOK
  <2> QED BY <2>1, <2>2
<1>9. \A u, v \in Workers :
         workers'[u].pc = "add" /\ workers'[v].pc = "add" /\ workers'[u].id = workers'[v].id => u = v
  BY <1>4 DEF Others, ReleaseOK
<1>10. ASSUME NEW a \in Ids
       PROVE  a \in release'.list <=>
                \/ a \in ImageIds' /\ \A v \in Workers : workers'[v].pc = "add" => workers'[v].id # a
                \/ \E v \in Workers : workers'[v].pc = "remove" /\ workers'[v].id = a
  <2>1. \A v \in Workers : workers'[v].pc # "remove"
    BY <1>4, <1>6 DEF Others
  <2>2. CASE a = b
    BY <1>2, <1>3, <1>4, <1>5, <1>7, <2>1, <2>2 DEF Others
  <2>3. CASE a # b
    BY <1>1, <1>3, <1>4, <1>5, <1>6, <2>1, <2>3 DEF Others, ReleaseOK
  <2> QED BY <2>2, <2>3
<1>11. release'.count = Cardinality(release'.list) /\ release'.exists /\ release'.list # {}
  <2>1. IsFiniteSet(Ids) /\ release.list \in SUBSET Ids
    BY <1>i, FS_Interval, SizesAssumption DEF Ids
  <2>2. IsFiniteSet(release.list)
    BY <2>1, FS_Subset
  <2>3. Cardinality(release.list \union {b}) = Cardinality(release.list) + 1
    BY <1>2, <2>2, FS_AddElement
  <2> QED BY <1>2, <1>3, <2>3 DEF ReleaseOK
<1> QED BY <1>8, <1>9, <1>10, <1>11 DEF ReleaseOK

\* When all other workers are idle only the position of the one counts.
LEMMA SoloRelease ==
    ASSUME NEW w \in Workers, \A v \in Workers : v # w => workers'[v].pc = "idle", ListedOK(w)',
           workers'[w].pc # "add",
           \/ workers'[w].pc = "delete_release"
           \/ \A a \in Ids : a \in release'.list <=>
                 a \in ImageIds' \/ (workers'[w].pc = "remove" /\ workers'[w].id = a),
           release'.count = Cardinality(release'.list),
           release'.list # {} => release'.exists,
           release'.exists /\ release'.list = {} => workers'[w].pc = "collect"
    PROVE  ReleaseOK'
<1>1. \A v \in Workers : ListedOK(v)'
  <2>1. ASSUME NEW v \in Workers, v # w PROVE ListedOK(v)'
    <3>1. workers'[v].pc = "idle"
      BY <2>1
    <3> QED BY <3>1 DEF ListedOK
  <2> QED BY <2>1
<1>2. \A v \in Workers : workers'[v].pc \in {"add", "remove", "delete_release", "collect"} => v = w
  OBVIOUS
<1> QED BY <1>1, <1>2 DEF ReleaseOK

\* Deletions take the artifacts out of the database before the release.
LEMMA DeleteListed ==
    ASSUME Inv, MeetingOK, overlap # "others", ReleaseOK, NEW w \in Workers, Others(w),
           workers'[w].pc = "idle" \/ GoesOn(w),
           \/ workers[w].pc = "delete_image" /\ DeleteMetadata(w)
           \/ workers[w].pc = "remove" /\ RemoveFromRelease(w)
           \/ workers[w].pc = "collect" /\ CollectRelease(w)
           \/ workers[w].pc = "delete_images" /\ DeleteImagesByNames(w)
           \/ workers[w].pc = "delete_release" /\ DeleteReleasesByNames(w)
    PROVE  ReleaseOK'
<1>i. /\ release \in [exists: BOOLEAN, list: SUBSET Ids, count: Int] /\ workers \in [Workers -> WorkerType]
      /\ images \in [Ids -> Types \union {NoType}]
  BY DEF Inv, StoredOK, WorkersOK
<1>f. IsFiniteSet(release.list)
  BY <1>i, FS_Interval, FS_Subset, SizesAssumption DEF Ids
<1>1. ~Uploading(w) /\ workers[w].pc # "idle"
  BY DEF Uploading, UploadSteps
<1>2. \A v \in Workers : v # w => workers[v].pc = "idle" /\ workers'[v].pc = "idle"
  BY <1>1, Solo DEF Others
<1>3. PICK b : b = workers[w].id
  OBVIOUS
<1>4. ListedOK(w)
  BY DEF ReleaseOK
<1>5. \/ workers[w].pc = "delete_release"
      \/ \A a \in Ids : a \in release.list <=>
            a \in ImageIds \/ (workers[w].pc = "remove" /\ a = b)
  BY <1>1, <1>2, <1>3 DEF ReleaseOK, Uploading, UploadSteps
<1>6. release.exists /\ release.list = {} => workers[w].pc = "collect"
  BY <1>2 DEF ReleaseOK
<1>7. release.count = Cardinality(release.list) /\ (release.list # {} => release.exists)
  BY DEF ReleaseOK
<1>8. CASE workers[w].pc = "delete_image" /\ DeleteMetadata(w)
  <2>1. /\ workers'[w].pc = "remove" /\ workers'[w].id = b /\ release' = release
        /\ images' = [images EXCEPT ![b] = NoType]
    BY <1>i, <1>3, <1>8 DEF DeleteMetadata, Goto, WorkerType
  <2>2. b \in ImageIds /\ b \in Ids
    BY <1>3, <1>4, <1>8 DEF ListedOK, ImageIds
  <2>3. ImageIds' = ImageIds \ {b}
    BY <1>i, <2>1, <2>2 DEF ImageIds
  <2>4. ListedOK(w)'
    BY <2>1, <2>3 DEF ListedOK
  <2>5. \A a \in Ids : a \in release'.list <=> a \in ImageIds' \/ a = b
    BY <1>5, <1>8, <2>1, <2>2, <2>3
  <2> QED BY <1>2, <1>6, <1>7, <1>8, <2>1, <2>4, <2>5, SoloRelease
<1>9. CASE workers[w].pc = "remove" /\ RemoveFromRelease(w)
  <2>1. workers'[w].pc = "collect" /\ images' = images
    BY <1>i, <1>9 DEF RemoveFromRelease, Goto, WorkerType
  <2>2. b \in Ids /\ b \notin ImageIds /\ ImageIds' = ImageIds
    BY <1>3, <1>4, <1>9, <2>1 DEF ListedOK, ImageIds, Inv, Positions, UploadSteps
  <2>3. b \in release.list /\ release.exists
    BY <1>5, <1>7, <1>9, <2>2
  <2>4. release' = [release EXCEPT !.list = release.list \ {b}, !.count = release.count - 1]
    BY <1>3, <1>9, <2>3 DEF RemoveFromRelease
  <2>5. release'.list = release.list \ {b} /\ release'.count = release.count - 1 /\ release'.exists
    BY <1>i, <2>3, <2>4
  <2>6. release'.count = Cardinality(release'.list)
    BY <1>f, <1>7, <2>3, <2>5, FS_RemoveElement
  <2>7. ListedOK(w)'
    BY <2>1 DEF ListedOK
  <2>8. \A a \in Ids : a \in release'.list <=> a \in ImageIds'
    BY <1>5, <1>9, <2>2, <2>5
  <2> QED BY <1>2, <2>1, <2>5, <2>6, <2>7, <2>8, SoloRelease
<1>10. CASE workers[w].pc = "collect" /\ CollectRelease(w)
  <2>1. workers'[w].pc = "idle" /\ images' = images
    BY <1>i, <1>10 DEF CollectRelease, Done, Idle
  <2>2. ImageIds' = ImageIds /\ ListedOK(w)'
    BY <2>1 DEF ImageIds, ListedOK
  <2>3. /\ release'.list = release.list /\ release'.count = Cardinality(release'.list)
        /\ release'.list # {} => release'.exists
        /\ ~(release'.exists /\ release'.list = {})
    <3>1. CASE release.list = {}
      BY <1>10, <3>1, FS_EmptySet DEF CollectRelease, NoRelease
    <3>2. CASE release.list # {}
      BY <1>7, <1>10, <3>2 DEF CollectRelease
    <3> QED BY <3>1, <3>2
  <2>4. \A a \in Ids : a \in release'.list <=> a \in ImageIds'
    BY <1>5, <1>10, <2>2, <2>3
  <2> QED BY <1>2, <2>1, <2>2, <2>3, <2>4, SoloRelease
<1>11. CASE workers[w].pc = "delete_images" /\ DeleteImagesByNames(w)
  <2>1. workers'[w].pc = "delete_release" /\ release' = release /\ images' = [a \in Ids |-> NoType]
    BY <1>i, <1>11 DEF DeleteImagesByNames, Goto, WorkerType
  <2>2. ImageIds' = {}
    BY <2>1 DEF ImageIds
  <2>3. ListedOK(w)'
    BY <2>1, <2>2 DEF ListedOK
  <2> QED BY <1>2, <1>6, <1>7, <1>11, <2>1, <2>3, SoloRelease
<1>12. CASE workers[w].pc = "delete_release" /\ DeleteReleasesByNames(w)
  <2>1. workers'[w].pc = "idle" /\ images' = images /\ release' = NoRelease
    BY <1>i, <1>12 DEF DeleteReleasesByNames, Done, Idle
  <2>2. ImageIds' = {} /\ ListedOK(w)'
    BY <1>4, <1>12, <2>1 DEF ImageIds, ListedOK
  <2>3. release'.list = {} /\ release'.count = 0 /\ ~release'.exists
    BY <2>1 DEF NoRelease
  <2> QED BY <1>2, <2>1, <2>2, <2>3, FS_EmptySet, SoloRelease
<1> QED BY <1>8, <1>9, <1>10, <1>11, <1>12

\* So the release lists the artifacts, as long as requests that are no uploads are
\* served alone.
LEMMA ReleaseStep ==
    ASSUME Inv, FilesOK, MeetingOK, overlap # "others" => ReleaseOK, NEW w \in Workers,
           Arrive(w) \/ ((UploadStep(w) \/ OtherStep(w)) /\ ~Heartbeat(w))
    PROVE  overlap' # "others" => ReleaseOK'
<1> SUFFICES ASSUME overlap' # "others" PROVE ReleaseOK'
  OBVIOUS
<1>1. CASE Arrive(w)
  <2>1. Others(w) /\ Begins(w)
    BY <1>1, RequestBegins
  <2>2. ReleaseOK /\ workers[w].pc \notin Between /\ workers'[w].pc \notin Between \union Checked
    BY <2>1 DEF Begins, Between, Checked
  <2> QED BY <2>1, <2>2, ReleaseKept DEF Begins
<1>2. CASE (UploadStep(w) \/ OtherStep(w)) /\ ~Heartbeat(w)
  <2>1. /\ Others(w) /\ workers[w].pc # "idle" /\ (workers'[w].pc = "idle" \/ GoesOn(w))
        /\ overlap # "others" /\ ReleaseOK
    BY <1>2, RequestGoesOn, RequestTouches
  <2>2. CASE workers[w].pc \in {"delete_image", "remove", "collect", "delete_images", "delete_release"}
    BY <1>2, <2>1, <2>2, RequestTouches, DeleteListed
  <2>3. CASE workers[w].pc = "add"
    <3>1. AddToRelease(w) /\ workers \in [Workers -> WorkerType]
      BY <1>2, <2>3, RequestTouches DEF Inv, WorkersOK
    <3>2. workers'[w].pc = "exists"
      BY <3>1 DEF AddToRelease, Goto, WorkerType
    <3> QED BY <2>1, <2>3, <3>1, <3>2, AddListed
  <2>4. CASE workers[w].pc = "insert" /\ Unique(workers[w].id, workers[w].type)
    BY <1>2, <2>1, <2>4, RequestTouches, InsertListed
  <2>5. CASE workers[w].pc = "insert" /\ ~Unique(workers[w].id, workers[w].type)
    <3>1. InsertImage(w) /\ release' = release /\ workers \in [Workers -> WorkerType]
      BY <1>2, <2>5, RequestTouches DEF Inv, WorkersOK
    <3>2. workers'[w].pc = "undo" /\ images' = images
      BY <2>5, <3>1 DEF InsertImage, Goto, WorkerType
    <3> QED BY <2>1, <2>5, <3>1, <3>2, ReleaseKept DEF Between, Checked
  <2>6. CASE workers[w].pc \notin Between \union {"insert", "delete_image", "delete_images"}
    <3>1. images' = images /\ release' = release
      BY <1>2, <2>6, RequestTouches DEF Between
    <3>2. workers'[w].pc \notin Between
      BY <2>1, <2>6 DEF GoesOn, Ways, Between
    <3>3. workers'[w].pc \in Checked => workers'[w].id = workers[w].id /\ workers[w].pc \in {"find"} \union Checked
      BY <2>1 DEF GoesOn, Ways, Checked
    <3>4. workers[w].pc \in Checked => workers[w].id \in ImageIds
      BY <2>1 DEF ReleaseOK, ListedOK, Checked
    <3>5. workers[w].pc = "find" /\ workers'[w].pc \in Checked => workers[w].id \in ImageIds
      <4> SUFFICES ASSUME workers[w].pc = "find", workers'[w].pc \in Checked PROVE workers[w].id \in ImageIds
        OBVIOUS
      <4>1. FindImage(w) /\ workers \in [Workers -> WorkerType] /\ workers[w].id \in Ids
        BY <1>2, RequestTouches DEF Inv, WorkersOK, Positions, UploadSteps
      <4>2. images[workers[w].id] # NoType
        BY <4>1 DEF FindImage, Done, Idle, Checked
      <4> QED BY <4>1, <4>2 DEF ImageIds
    <3> QED BY <2>1, <2>6, <3>1, <3>2, <3>3, <3>4, <3>5, ReleaseKept DEF Between
  <2> QED BY <2>2, <2>3, <2>4, <2>5, <2>6 DEF Between
<1> QED BY <1>1, <1>2

\* A step that changes neither artifacts nor deployments.
LEMMA AssignedKept ==
    ASSUME AssignedOK, images' = images, deployments' = deployments, NEW w \in Workers, Others(w),
           workers'[w].pc \in {"delete_file", "delete_image", "remove", "collect", "delete_images",
                               "delete_release"} => Unfinished = {},
           workers'[w].pc \in {"assign", "insert_deployment"} => workers'[w].copy = ImageIds,
           workers'[w].pc \in {"add", "exists", "read"} => workers'[w].id \in ImageIds,
           workers[w].pc \in Assigning =>
             workers'[w].pc \in Assigning \/ \A d \in Unfinished : deployments[d].artifacts = ImageIds
    PROVE  AssignedOK'
<1>1. ImageIds' = ImageIds /\ Unfinished' = Unfinished
  BY DEF ImageIds, Unfinished
<1>2. \/ \E v \in Workers : workers'[v].pc \in Assigning
      \/ \A d \in Unfinished : deployments[d].artifacts = ImageIds
  BY DEF AssignedOK, Others
<1> QED BY <1>1, <1>2 DEF AssignedOK, Others

\* When all other workers are idle only the position of the one counts.
LEMMA SoloAssigned ==
    ASSUME NEW w \in Workers, \A v \in Workers : v # w => workers'[v].pc = "idle",
           workers'[w].pc \in {"delete_file", "delete_image", "remove", "collect", "delete_images",
                               "delete_release"} => Unfinished' = {},
           workers'[w].pc \notin {"assign", "insert_deployment"},
           workers'[w].pc \in {"add", "exists", "read"} => workers'[w].id \in ImageIds',
           workers'[w].pc \in Assigning \/ \A d \in Unfinished' : deployments'[d].artifacts = ImageIds'
    PROVE  AssignedOK'
<1>1. \A v \in Workers : v # w =>
        workers'[v].pc \notin {"delete_file", "delete_image", "remove", "collect", "delete_images",
              "delete_release", "assign", "insert_deployment", "add", "exists", "read"}
  OBVIOUS
<1> QED BY <1>1 DEF AssignedOK

\* As long as requests do not meet, each leaves the unfinished deployments with all
\* artifacts.
LEMMA AssignedStep ==
    ASSUME Inv, FilesOK, MeetingOK, ReleaseOK, overlap = "none" => AssignedOK, overlap' = "none",
           NEW w \in Workers, Arrive(w) \/ ((UploadStep(w) \/ OtherStep(w)) /\ ~Heartbeat(w)),
           overlap # "others"
    PROVE  AssignedOK'
<1>i. /\ workers \in [Workers -> WorkerType] /\ images \in [Ids -> Types \union {NoType}]
      /\ deployments \in [Deployments -> [state: {"none", "unfinished", "finished"}, artifacts: SUBSET Ids]]
  BY DEF Inv, WorkersOK, StoredOK
<1>1. CASE Arrive(w)
  <2>1. Others(w) /\ Begins(w) /\ AssignedOK
    BY <1>1, RequestBegins DEF Begins
  <2>2. workers[w].pc \notin Assigning
    BY <2>1 DEF Begins, Assigning
  <2> QED BY <2>1, <2>2, AssignedKept DEF Begins
<1>2. CASE (UploadStep(w) \/ OtherStep(w)) /\ ~Heartbeat(w)
  <2>1. /\ Others(w) /\ workers[w].pc # "idle" /\ (workers'[w].pc = "idle" \/ GoesOn(w))
        /\ overlap = "none" /\ AssignedOK
    BY <1>2, RequestGoesOn, RequestTouches
  <2>2. \A v \in Workers : v # w => workers[v].pc = "idle" /\ workers'[v].pc = "idle"
    BY <2>1 DEF MeetingOK, Busy, Others
  <2>3. \/ workers[w].pc \in Assigning
        \/ \A d \in Unfinished : deployments[d].artifacts = ImageIds
    BY <2>1, <2>2 DEF AssignedOK, Assigning
  <2>4. CASE workers[w].pc \in {"open", "take", "put", "undo", "finish"}
    <3>1. images' = images /\ deployments' = deployments
      BY <1>2, <2>4, RequestTouches
    <3>2. workers[w].pc \notin Assigning
      BY <2>4 DEF Assigning
    <3>3. workers'[w].pc \notin {"delete_file", "delete_image", "remove", "collect", "delete_images",
              "delete_release", "assign", "insert_deployment", "add", "exists", "read"}
      BY <2>1, <2>4 DEF GoesOn, Ways
    <3> QED BY <2>1, <3>1, <3>2, <3>3, AssignedKept
  <2>5. CASE workers[w].pc = "insert"
    <3>1. InsertImage(w) /\ deployments' = deployments /\ workers[w].id \in Ids
      BY <1>2, <2>5, RequestTouches DEF Inv, Positions, UploadSteps
    <3>2. CASE Unique(workers[w].id, workers[w].type)
      <4>1. /\ workers'[w].pc = "add" /\ workers'[w].id = workers[w].id
            /\ images' = [images EXCEPT ![workers[w].id] = workers[w].type]
        BY <1>i, <3>1, <3>2 DEF InsertImage, Goto, WorkerType
      <4>2. workers[w].type # NoType
        BY <2>5, ContentAssumption DEF Inv, Positions
      <4>3. workers'[w].id \in ImageIds'
        BY <1>i, <3>1, <4>1, <4>2 DEF ImageIds
      <4> QED BY <2>2, <4>1, <4>3, SoloAssigned DEF Assigning
    <3>3. CASE ~Unique(workers[w].id, workers[w].type)
      <4>1. workers'[w].pc = "undo" /\ images' = images
        BY <1>i, <3>1, <3>3 DEF InsertImage, Goto, WorkerType
      <4> QED BY <2>1, <2>5, <3>1, <4>1, AssignedKept DEF Assigning
    <3> QED BY <3>2, <3>3
  <2>6. CASE workers[w].pc = "add"
    <3>1. AddToRelease(w)
      BY <1>2, <2>6, RequestTouches
    <3>2. /\ workers'[w].pc = "exists" /\ workers'[w].id = workers[w].id
          /\ images' = images /\ deployments' = deployments
      BY <1>i, <3>1 DEF AddToRelease, Goto, WorkerType
    <3>3. workers[w].id \in ImageIds
      BY <2>1, <2>6 DEF AssignedOK
    <3> QED BY <2>1, <3>2, <3>3, AssignedKept DEF Assigning
  <2>7. CASE workers[w].pc \in {"exists", "read"}
    <3>1. AnyDeployment(w) \/ ReadImages(w)
      BY <1>2, <2>7, RequestTouches
    <3>2. workers[w].id \in ImageIds /\ images' = images /\ deployments' = deployments
      BY <1>2, <2>1, <2>7, RequestTouches DEF AssignedOK
    <3>3. workers'[w].pc \notin {"delete_file", "delete_image", "remove", "collect", "delete_images",
                                 "delete_release", "insert_deployment", "add", "exists"}
      BY <2>1, <2>7 DEF GoesOn, Ways
    <3>4. workers'[w].pc \in Assigning \/ Unfinished = {}
      <4>1. CASE AnyDeployment(w)
        BY <1>i, <4>1 DEF AnyDeployment, Goto, Assigning, WorkerType
      <4>2. CASE ReadImages(w)
        BY <1>i, <3>2, <4>2 DEF ReadImages, Assigning, WorkerType
      <4> QED BY <3>1, <4>1, <4>2
    <3>5. workers'[w].pc = "assign" => workers'[w].copy = ImageIds
      BY <2>1 DEF GoesOn
    <3>6. workers'[w].pc = "read" => workers'[w].id = workers[w].id
      BY <2>1 DEF GoesOn
    <3> QED BY <2>1, <3>2, <3>3, <3>4, <3>5, <3>6, AssignedKept
  <2>8. CASE workers[w].pc = "assign"
    <3>1. AssignArtifacts(w) /\ workers[w].copy = ImageIds /\ images' = images
      BY <1>2, <2>1, <2>8, RequestTouches DEF AssignedOK
    <3>2. /\ ImageIds' = ImageIds
          /\ \A d \in Deployments :
               deployments'[d] = IF d \in Unfinished
                                   THEN [deployments[d] EXCEPT !.artifacts = ImageIds]
                                   ELSE deployments[d]
      BY <3>1 DEF AssignArtifacts, ImageIds
    <3>3. \A d \in Unfinished' : deployments'[d].artifacts = ImageIds'
      BY <1>i, <3>2 DEF Unfinished
    <3>4. workers'[w].pc \in {"finish", "idle"}
      BY <2>1, <2>8 DEF GoesOn, Ways
    <3> QED BY <2>2, <3>3, <3>4, SoloAssigned
  <2>9. CASE workers[w].pc \in {"find", "in_use", "delete_file", "find_active", "read_images"}
    <3>1. images' = images /\ deployments' = deployments
      BY <1>2, <2>9, RequestTouches
    <3>2. workers[w].pc \notin Assigning
      BY <2>9 DEF Assigning
    <3>3. workers'[w].pc \notin {"remove", "collect", "delete_release", "assign", "add", "exists", "read"}
      BY <2>1, <2>9 DEF GoesOn, Ways
    <3>4. workers'[w].pc = "insert_deployment" => workers'[w].copy = ImageIds
      BY <2>1 DEF GoesOn
    <3>5. workers'[w].pc = "delete_image" => Unfinished = {}
      BY <2>1, <2>9 DEF GoesOn, Ways, AssignedOK
    <3>6. workers'[w].pc = "delete_file" => Unfinished = {}
      <4> SUFFICES ASSUME workers'[w].pc = "delete_file" PROVE Unfinished = {}
        OBVIOUS
      <4>1. workers[w].pc = "in_use"
        BY <2>1, <2>9 DEF GoesOn, Ways
      <4>2. CheckUse(w) /\ workers[w].id \in ImageIds
        BY <1>2, <4>1, RequestTouches DEF ReleaseOK, ListedOK
      <4>3. ~UsedInActiveDeployment(workers[w].id)
        BY <1>i, <4>2 DEF CheckUse, Done, Idle
      <4> QED BY <2>3, <3>2, <4>2, <4>3 DEF UsedInActiveDeployment
    <3>7. workers'[w].pc = "delete_images" => Unfinished = {}
      <4> SUFFICES ASSUME workers'[w].pc = "delete_images" PROVE Unfinished = {}
        OBVIOUS
      <4>1. FindActive(w)
        BY <1>2, <2>1, <2>9, RequestTouches DEF GoesOn, Ways
      <4> QED BY <1>i, <4>1 DEF FindActive, Done, Idle
    <3> QED BY <2>1, <3>1, <3>2, <3>3, <3>4, <3>5, <3>6, <3>7, AssignedKept
  <2>10. CASE workers[w].pc \in {"delete_image", "remove", "collect", "delete_images", "delete_release"}
    <3>1. deployments' = deployments /\ Unfinished = {}
      BY <1>2, <2>1, <2>10, RequestTouches DEF AssignedOK
    <3>2. Unfinished' = {}
      BY <3>1 DEF Unfinished
    <3>3. workers'[w].pc \notin {"assign", "insert_deployment", "add", "exists", "read"}
      BY <2>1, <2>10 DEF GoesOn, Ways
    <3> QED BY <2>2, <3>2, <3>3, SoloAssigned
  <2>11. CASE workers[w].pc = "insert_deployment"
    <3>1. /\ InsertDeployment(w) \/ NoMoreDeployments(w)
          /\ workers[w].copy = ImageIds /\ images' = images
      BY <1>2, <2>1, <2>11, RequestTouches DEF AssignedOK
    <3>2. workers'[w].pc = "idle" /\ ImageIds' = ImageIds
      BY <1>i, <3>1 DEF InsertDeployment, NoMoreDeployments, Done, Idle, ImageIds
    <3>3. \A d \in Unfinished : deployments[d].artifacts = ImageIds
      BY <2>3, <2>11 DEF Assigning
    <3>4. \A d \in Unfinished' : deployments'[d].artifacts = ImageIds'
      <4>1. CASE NoMoreDeployments(w)
        BY <3>2, <3>3, <4>1 DEF NoMoreDeployments, database, Unfinished
      <4>2. CASE InsertDeployment(w)
        <5>1. PICK e \in Deployments :
                deployments' = [deployments EXCEPT ![e] =
                                  [state |-> "unfinished", artifacts |-> ImageIds]]
          BY <3>1, <4>2 DEF InsertDeployment
        <5>2. deployments'[e].artifacts = ImageIds
          BY <1>i, <5>1
        <5>3. \A d \in Deployments : d # e => deployments'[d] = deployments[d]
          BY <1>i, <5>1
        <5> QED BY <3>2, <3>3, <5>2, <5>3 DEF Unfinished
      <4> QED BY <3>1, <4>1, <4>2
    <3> QED BY <2>2, <3>2, <3>4, SoloAssigned
  <2>12. workers[w].pc \in PCs
    BY <1>i DEF WorkerType
  <2> QED BY <2>1, <2>4, <2>5, <2>6, <2>7, <2>8, <2>9, <2>10, <2>11, <2>12 DEF PCs, UploadSteps
<1> QED BY <1>1, <1>2

\* Without a failure every step keeps the requests, the release and the deployments
\* in order.
LEMMA OrderedStep == Inv /\ Unharmed /\ FilesUnharmed /\ Ordered /\ [Next]_vars => Ordered'
<1> SUFFICES ASSUME Inv, Unharmed, FilesUnharmed, Ordered, [Next]_vars, faults' = 0
             PROVE  /\ MeetingOK'
                    /\ overlap' # "others" => ReleaseOK'
                    /\ overlap' = "none" => AssignedOK'
  BY DEF Ordered
<1>1. FilesOK /\ MeetingOK /\ (overlap # "others" => ReleaseOK) /\ (overlap = "none" => AssignedOK)
  BY FaultlessSteps DEF Ordered
<1>2. CASE Elsewhere
  <2>1. /\ workers' = workers /\ images' = images /\ release' = release /\ overlap' = overlap
        /\ \/ deployments' = deployments
           \/ \E d \in Unfinished : deployments' = [deployments EXCEPT ![d].state = "finished"]
    BY <1>2, ElsewhereTouches
  <2>2. ImageIds' = ImageIds /\ Busy' = Busy /\ \A v : Uploading(v)' <=> Uploading(v)
    BY <2>1 DEF ImageIds, Busy, Uploading
  <2>3. MeetingOK'
    BY <1>1, <2>1, <2>2 DEF MeetingOK
  <2>4. overlap' # "others" => ReleaseOK'
    BY <1>1, <2>1, <2>2 DEF ReleaseOK, ListedOK
  <2>5. Unfinished' \subseteq Unfinished /\ \A d \in Unfinished' : deployments'[d].artifacts = deployments[d].artifacts
    <3>1. deployments \in [Deployments -> [state: {"none", "unfinished", "finished"}, artifacts: SUBSET Ids]]
      BY DEF Inv, StoredOK
    <3> QED BY <2>1, <3>1 DEF Unfinished
  <2>6. overlap' = "none" => AssignedOK'
    BY <1>1, <2>1, <2>2, <2>5 DEF AssignedOK
  <2> QED BY <2>3, <2>4, <2>6
<1>3. ASSUME NEW w \in Workers, Arrive(w) \/ ((UploadStep(w) \/ OtherStep(w)) /\ ~Heartbeat(w))
      PROVE  /\ MeetingOK'
             /\ overlap' # "others" => ReleaseOK'
             /\ overlap' = "none" => AssignedOK'
  <2>1. MeetingOK' /\ (overlap' # "others" => ReleaseOK')
    BY <1>1, <1>3, MeetingStep, ReleaseStep
  <2>2. ASSUME overlap' = "none" PROVE AssignedOK'
    <3>1. overlap = "none"
      BY <1>3, <2>2, RequestBegins, RequestTouches, <1>1 DEF Begins
    <3> QED BY <1>1, <1>3, <2>2, <3>1, AssignedStep
  <2> QED BY <2>1, <2>2
<1> QED BY <1>2, <1>3, FaultlessSteps

\* Nothing is stored and nobody is busy at first.
LEMMA OrderedInit == Init => Ordered
<1> SUFFICES ASSUME Init PROVE MeetingOK /\ ReleaseOK /\ AssignedOK
  BY DEF Ordered
<1>1. Busy = {} /\ ImageIds = {} /\ Unfinished = {}
  BY DEF Init, Busy, ImageIds, Unfinished, Idle
<1>2. \A w \in Workers : workers[w].pc = "idle"
  BY DEF Init, Idle
<1> QED BY <1>1, <1>2, FS_EmptySet DEF Init, MeetingOK, ReleaseOK, ListedOK, AssignedOK, NoRelease

\* The invariant when no request is in flight.
LEMMA OrderedShows == Inv /\ Ordered => ReleaseListsArtifacts /\ DeploymentsGetArtifacts
<1> SUFFICES ASSUME Inv, Ordered, Quiet, faults = 0
             PROVE  /\ overlap # "others" =>
                         release = [exists |-> ImageIds # {}, list |-> ImageIds,
                                    count |-> Cardinality(ImageIds)]
                    /\ overlap = "none" => \A d \in Unfinished : deployments[d].artifacts = ImageIds
  BY DEF ReleaseListsArtifacts, DeploymentsGetArtifacts
<1>1. \A w \in Workers : workers[w].pc = "idle"
  BY DEF Quiet, Busy
<1>2. ASSUME overlap # "others"
      PROVE  release = [exists |-> ImageIds # {}, list |-> ImageIds, count |-> Cardinality(ImageIds)]
  <2>1. release \in [exists: BOOLEAN, list: SUBSET Ids, count: Int] /\ ImageIds \subseteq Ids
    BY DEF Inv, StoredOK, ImageIds
  <2>2. ReleaseOK
    BY <1>2 DEF Ordered
  <2>3. release.list = ImageIds
    BY <1>1, <2>1, <2>2 DEF ReleaseOK
  <2>4. release.exists = (ImageIds # {})
    BY <1>1, <2>1, <2>2, <2>3 DEF ReleaseOK
  <2>5. release.count = Cardinality(ImageIds)
    BY <2>2, <2>3 DEF ReleaseOK
  <2> QED BY <2>1, <2>3, <2>4, <2>5
<1>3. ASSUME overlap = "none" PROVE \A d \in Unfinished : deployments[d].artifacts = ImageIds
  BY <1>1, <1>3 DEF Ordered, AssignedOK, Assigning
<1> QED BY <1>2, <1>3

\* What the proofs of both theorems share.
LEMMA OrderedAlways == Spec => [](Inv /\ Ordered)
<1>1. Init => Unharmed /\ FilesUnharmed
  BY DEF Unharmed, FilesUnharmed, Init, Attended, FilesOK, Idle, NoLink, Resting, Storing
<1> QED BY InvInit, InvStep, AttendedStep, FilesStep, OrderedInit, OrderedStep, <1>1, PTL DEF Spec

\* When no request is in flight, the release lists and counts the artifacts of its
\* name, in whatever order uploads inserted and added theirs at the same time, as
\* long as deletions and deployments were requested one at a time and nothing failed
\* (UpdateReleaseArtifacts, DeleteImage, DeleteReleases).
THEOREM ReleaseAgrees == Spec => []ReleaseListsArtifacts
BY OrderedAlways, OrderedShows, PTL

\* Of requests one after the other each leaves the unfinished deployments with all
\* artifacts of their name, and no artifact of theirs is deleted
\* (UpdateDeploymentsWithArtifactName, CreateDeployment, DeleteImage).
THEOREM DeploymentsAgree == Spec => []DeploymentsGetArtifacts
BY OrderedAlways, OrderedShows, PTL
=============================================================================
