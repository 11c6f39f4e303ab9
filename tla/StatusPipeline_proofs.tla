----------------------- MODULE StatusPipeline_proofs -----------------------
(***************************************************************************)
(* Proofs about StatusPipeline, for any number of devices, workers, jobs,  *)
(* revisions and failures.                                                 *)
(***************************************************************************)
EXTENDS StatusPipeline, FiniteSetTheorems, SequenceTheorems, TLAPS

---------------------------------------------------------------------------
(* The invariant, in parts: the types, with what ties the workers to the   *)
(* jobs in the queue and the history of a device to its being there.       *)

EntryType == [status: Statuses, told: BOOLEAN]
AuthType ==
    [present: BOOLEAN, provisioned: BOOLEAN, decommissioning: BOOLEAN, log: Seq(EntryType)]
QueuedType == [job: JobType, state: QueueStates]
WorkerType == [n: 0..NumJobs, task: 0..7, attempt: 0..Retries, watched: BOOLEAN]
DocumentType ==
    [exists: BOOLEAN, revision: {NoRevision} \union Nat, status: Statuses \union {"none"}]

AuthOK ==
    /\ auth \in [Devices -> AuthType]
    /\ \A d \in Devices : auth[d].present => auth[d].log # << >>

QueueOK ==
    /\ unsent \subseteq JobType /\ IsFiniteSet(unsent)
    /\ jobs \in Seq(QueuedType)
    /\ Len(jobs) + Cardinality(unsent) <= NumJobs

WorkersOK ==
    /\ workers \in [Workers -> WorkerType]
    /\ \A w \in Workers :
         Working(w) => workers[w].n \in DOMAIN jobs /\ workers[w].task \in 1..Len(TasksOf(w)) + 1

ServicesOK ==
    /\ inventory \in [Devices -> DocumentType]
    /\ \A d \in Devices : ~inventory[d].exists => inventory[d].revision = 0
    /\ known \in [Services -> SUBSET Devices]
    /\ background \subseteq [op: {"provision", "decommission"}, device: Devices]

HistoryOK ==
    /\ failed \subseteq JobType /\ interrupted \subseteq JobType
    /\ crossed \subseteq Devices
    /\ faults \in 0..MaxFaults

Inv == AuthOK /\ QueueOK /\ WorkersOK /\ ServicesOK /\ HistoryOK

\* The invariant contains the types.
LEMMA InvType == Inv => TypeOK
<1> SUFFICES ASSUME Inv PROVE TypeOK
  OBVIOUS
<1>1. Len(jobs) \in Nat /\ Cardinality(unsent) \in Nat
  BY FS_CardinalityType DEF Inv, QueueOK
<1>2. Len(jobs) <= NumJobs
  BY <1>1, BoundsAssumption DEF Inv, QueueOK
<1> QED BY <1>2 DEF Inv, AuthOK, QueueOK, WorkersOK, ServicesOK, HistoryOK, TypeOK, EntryType, AuthType,
                    QueuedType, WorkerType, DocumentType

\* It holds before anything was announced.
LEMMA InvInit == Init => Inv
<1> SUFFICES ASSUME Init PROVE Inv
  OBVIOUS
<1>1. AuthOK /\ ServicesOK /\ HistoryOK
  BY BoundsAssumption DEF Init, AuthOK, ServicesOK, HistoryOK, AuthType, DocumentType, Missing
<1>2. QueueOK
  BY FS_EmptySet, BoundsAssumption DEF Init, QueueOK
<1>3. WorkersOK
  BY BoundsAssumption DEF Init, WorkersOK, WorkerType, Idle, Working
<1> QED BY <1>1, <1>2, <1>3 DEF Inv

---------------------------------------------------------------------------
(* The tasks of a worker.                                                  *)

\* A workflow has six tasks or two.
LEMMA TaskCounts ==
    /\ Len(ProvisionTasks) = 6 /\ Len(StatusTasks) = 2 /\ Len(DecommissionTasks) = 6
    /\ \A workflow \in DOMAIN Tasks : Len(Tasks[workflow]) \in {2, 6}
BY DEF Tasks, ProvisionTasks, StatusTasks, DecommissionTasks

\* The job of a working worker is in the queue.
LEMMA WorkingJob ==
    ASSUME Inv, NEW w \in Workers, Working(w)
    PROVE  /\ workers[w].n \in 1..Len(jobs) /\ JobOf(w) \in JobType
           /\ Len(TasksOf(w)) \in {2, 6}
<1>1. jobs \in Seq(QueuedType) /\ workers[w].n \in 1..Len(jobs)
  BY DEF Inv, QueueOK, WorkersOK
<1>2. jobs[workers[w].n] \in QueuedType
  BY <1>1
<1>3. JobOf(w) \in JobType
  BY <1>2 DEF JobOf, QueuedType
<1>4. JobOf(w).workflow \in DOMAIN Tasks
  BY <1>3 DEF JobType
<1> QED BY <1>1, <1>3, <1>4, TaskCounts DEF TasksOf

\* The decommissioning of a device does not write its status.
LEMMA StatusTasksOnly ==
    ASSUME Inv, NEW w \in Workers, UpsertStatus(w)
    PROVE  Working(w) /\ JobOf(w).workflow # "decommission_device"
<1>1. Working(w) /\ InTask(w)
  BY DEF UpsertStatus, At, InTask
<1>2. workers[w].task \in 1..Len(TasksOf(w)) + 1 /\ workers[w].task <= Len(TasksOf(w))
  BY <1>1 DEF Inv, WorkersOK, InTask
<1>3. Len(TasksOf(w)) \in {2, 6}
  BY <1>1, WorkingJob
<1>4. TasksOf(w)[workers[w].task] \in
          {"create_device_inventory", "update_device_identity_inventory"}
  BY DEF UpsertStatus, At
<1>5. ASSUME JobOf(w).workflow = "decommission_device" PROVE FALSE
  <2>1. TasksOf(w) = DecommissionTasks
    BY <1>5 DEF TasksOf, Tasks
  <2>2. workers[w].task \in 1..6
    BY <1>2, <2>1, TaskCounts
  <2>3. DecommissionTasks[workers[w].task] \in
          {"delete_device_deployments", "delete_device_deviceconnect", "delete_device_deviceconfig",
           "delete_iot_device", "delete_device_inventory", "delete_device_auth"}
    BY <2>2 DEF DecommissionTasks
  <2> QED BY <1>4, <2>1, <2>3
<1> QED BY <1>1, <1>5

\* The positions in a job: its tasks, and the one behind the last of them.
LEMMA Positions ==
    ASSUME NEW n \in {2, 6}, NEW t \in 1..n
    PROVE  /\ t + 1 \in 1..n + 1 /\ t + 1 \in 0..7
           /\ n + 1 \in 1..n + 1 /\ n + 1 \in 0..7
<1>1. CASE n = 2
  BY <1>1
<1>2. CASE n = 6
  BY <1>2
<1> QED BY <1>1, <1>2

\* A worker goes on in its job, or leaves it, and nothing else happens to the
\* queue and the other workers.
GoesOn(w) ==
    /\ workers' \in [Workers -> WorkerType]
    /\ \A v \in Workers : v # w => workers'[v] = workers[v]
    /\ workers'[w].n = workers[w].n /\ workers'[w].task \in 1..Len(TasksOf(w)) + 1

\* An answer takes a worker to its next task, back to the same one, or to the end.
LEMMA AnswerGoesOn ==
    ASSUME Inv, NEW w \in Workers, InTask(w), NEW answer, Answer(w, answer)
    PROVE  GoesOn(w)
<1> DEFINE me == workers[w]
<1>1. Working(w) /\ me \in WorkerType /\ Len(TasksOf(w)) \in {2, 6} /\ me.task \in 1..Len(TasksOf(w))
  BY WorkingJob DEF InTask, Inv, WorkersOK, WorkerType
<1>2. /\ me.task + 1 \in 1..Len(TasksOf(w)) + 1 /\ me.task + 1 \in 0..7
      /\ Len(TasksOf(w)) + 1 \in 1..Len(TasksOf(w)) + 1 /\ Len(TasksOf(w)) + 1 \in 0..7
  BY <1>1, Positions
<1>a. 0 \in 0..Retries
  BY BoundsAssumption
<1>3. me.attempt < Retries => me.attempt + 1 \in 0..Retries
  BY <1>1, BoundsAssumption DEF WorkerType
<1>4. [me EXCEPT !.task = @ + 1, !.attempt = 0] \in WorkerType
  BY <1>1, <1>2, <1>a DEF WorkerType
<1>5. me.attempt < Retries => [me EXCEPT !.attempt = @ + 1] \in WorkerType
  BY <1>1, <1>3 DEF WorkerType
<1>6. [me EXCEPT !.task = Len(TasksOf(w)) + 1] \in WorkerType
  BY <1>1, <1>2 DEF WorkerType
<1>7. /\ workers \in [Workers -> WorkerType]
      /\ \E new \in WorkerType :
           /\ workers' = [workers EXCEPT ![w] = new]
           /\ new.n = me.n /\ new.task \in 1..Len(TasksOf(w)) + 1
  <2>1. CASE answer \in Tolerated(TasksOf(w)[me.task])
    BY <1>1, <1>2, <1>4, <2>1 DEF Answer, Inv, WorkersOK, WorkerType
  <2>2. CASE answer \notin Tolerated(TasksOf(w)[me.task]) /\ me.attempt < Retries
    BY <1>1, <1>2, <1>5, <2>2 DEF Answer, Inv, WorkersOK, WorkerType
  <2>3. CASE answer \notin Tolerated(TasksOf(w)[me.task]) /\ ~(me.attempt < Retries)
    BY <1>1, <1>2, <1>6, <2>3 DEF Answer, Inv, WorkersOK, WorkerType
  <2> QED BY <2>1, <2>2, <2>3
<1> QED BY <1>7 DEF GoesOn

\* A call without an answer takes a worker to the end of its job.
LEMMA NoAnswerGoesOn ==
    ASSUME Inv, NEW w \in Workers, InTask(w), NoAnswer(w)
    PROVE  GoesOn(w) /\ HistoryOK'
<1>1. Working(w) /\ JobOf(w) \in JobType /\ Len(TasksOf(w)) \in {2, 6}
  BY WorkingJob DEF InTask
<1>2. Len(TasksOf(w)) + 1 \in 1..Len(TasksOf(w)) + 1 /\ Len(TasksOf(w)) + 1 \in 0..7
  BY <1>1, Positions, 1 \in 1..2, 1 \in 1..6
<1>3. /\ workers \in [Workers -> WorkerType]
      /\ workers' = [workers EXCEPT ![w] = [workers[w] EXCEPT !.task = Len(TasksOf(w)) + 1]]
  BY DEF NoAnswer, Inv, WorkersOK
<1>4. [workers[w] EXCEPT !.task = Len(TasksOf(w)) + 1] \in WorkerType
  BY <1>2, <1>3 DEF WorkerType
<1>5. GoesOn(w)
  BY <1>2, <1>3, <1>4 DEF GoesOn, WorkerType
<1>6. faults' \in 0..MaxFaults
  BY BoundsAssumption DEF NoAnswer, Fault, Inv, HistoryOK
<1> QED BY <1>1, <1>5, <1>6 DEF NoAnswer, Inv, HistoryOK

\* So a call of a task takes a worker on, whether its answer arrives or not.
LEMMA RespondGoesOn ==
    ASSUME Inv, NEW w \in Workers, InTask(w), NEW answer, Respond(w, answer)
    PROVE  GoesOn(w) /\ HistoryOK' /\ UNCHANGED <<unsent, jobs>>
<1>1. CASE Answer(w, answer) /\ UNCHANGED history
  BY <1>1, AnswerGoesOn DEF Respond, history, Inv, HistoryOK
<1>2. CASE NoAnswer(w)
  BY <1>2, NoAnswerGoesOn DEF Respond
<1> QED BY <1>1, <1>2 DEF Respond

---------------------------------------------------------------------------
(* Each part of the invariant is kept by every step.                       *)

\* The steps of a job: those of a worker on a task of it.
TaskStep(w) == UpsertStatus(w) \/ ProvisioningTasks(w) \/ DeletionTasks(w) \/ CallOther(w)

\* Each of them calls a service, and goes on by its answer.
LEMMA TaskStepResponds ==
    ASSUME NEW w \in Workers, TaskStep(w)
    PROVE  InTask(w) /\ \E answer : Respond(w, answer)
<1>1. CASE UpsertStatus(w)
  BY <1>1 DEF UpsertStatus, At
<1>2. CASE ProvisioningTasks(w)
  BY <1>2 DEF ProvisioningTasks, Provision, StartInBackground, PatchDevice, At
<1>3. CASE DeletionTasks(w)
  BY <1>3 DEF DeletionTasks, Delete, StartInBackground, DeleteInventory, DeleteAuth, At
<1>4. CASE CallOther(w)
  BY <1>4 DEF CallOther, At
<1> QED BY <1>1, <1>2, <1>3, <1>4 DEF TaskStep

\* None of them touches the queue or another worker.
LEMMA TaskStepGoesOn ==
    ASSUME Inv, NEW w \in Workers, TaskStep(w)
    PROVE  GoesOn(w) /\ HistoryOK' /\ UNCHANGED <<unsent, jobs>>
BY TaskStepResponds, RespondGoesOn

\* A new entry of the history of a device, whatever else is noted of it.
LEMMA LogGrows ==
    ASSUME AuthOK, NEW d \in Devices, NEW e \in EntryType, NEW new \in AuthType,
           auth' = [auth EXCEPT ![d] = new], new.log = Append(auth[d].log, e)
    PROVE  AuthOK'
<1>1. auth[d].log \in Seq(EntryType)
  BY DEF AuthOK, AuthType
<1>2. new.log # << >>
  BY <1>1, AppendProperties
<1> QED BY <1>2 DEF AuthOK

\* A device that is there has a status.
LEMMA StatusKnown ==
    ASSUME AuthOK, NEW d \in Devices, Current(d)
    PROVE  Status(d) \in Statuses
<1>1. auth[d].log \in Seq(EntryType) /\ auth[d].log # << >>
  BY DEF AuthOK, AuthType, Current
<1>2. Len(auth[d].log) \in 1..Len(auth[d].log)
  BY <1>1, EmptySeq
<1>3. auth[d].log[Len(auth[d].log)] \in EntryType
  BY <1>1, <1>2
<1> QED BY <1>3 DEF Status, LastOf, EntryType

\* A status write of deviceauth appends one entry.
Writes(d) ==
    \/ \E st \in {"noauth", "preauthorized"} : Register(d, st)
    \/ \E st \in {"pending", "accepted", "rejected"} : ChangeStatus(d, st)
    \/ RequestDecommission(d)

\* Each write of deviceauth adds one entry to the history of one device.
LEMMA WritesAppend ==
    ASSUME AuthOK, NEW d \in Devices,
           Writes(d) \/ \E w \in Workers : PatchDevice(w) /\ JobOf(w).device = d
    PROVE  \/ auth' = auth
           \/ \E e \in EntryType, new \in AuthType :
                 /\ auth' = [auth EXCEPT ![d] = new]
                 /\ new.log = Append(auth[d].log, e)
<1> USE DEF EntryType, AuthType
<1>t. auth \in [Devices -> AuthType] /\ auth[d] \in AuthType /\ auth[d].log \in Seq(EntryType)
  BY DEF AuthOK
<1>a. ASSUME NEW e \in EntryType
      PROVE  Append(auth[d].log, e) \in Seq(EntryType)
  BY <1>t, AppendProperties
<1>1. ASSUME NEW st \in {"noauth", "preauthorized"}, Register(d, st)
      PROVE  \E e \in EntryType, new \in AuthType :
               auth' = [auth EXCEPT ![d] = new] /\ new.log = Append(auth[d].log, e)
  <2> DEFINE e == Entry(st, st = "preauthorized")
  <2> DEFINE new == [auth[d] EXCEPT !.present = TRUE, !.log = <<e>>]
  <2>1. e \in EntryType
    BY DEF Entry, Statuses
  <2>2. <<e>> = Append(auth[d].log, e)
    BY <1>1, <2>1 DEF Register
  <2>3. new \in AuthType /\ new.log = Append(auth[d].log, e)
    BY <1>t, <1>a, <2>1, <2>2
  <2>4. auth' = [auth EXCEPT ![d] = new]
    BY <1>1, <1>t DEF Register
  <2> HIDE DEF e, new
  <2> QED BY <2>1, <2>3, <2>4
<1>2. ASSUME NEW st \in {"pending", "accepted", "rejected"}, ChangeStatus(d, st)
      PROVE  \E e \in EntryType, new \in AuthType :
               auth' = [auth EXCEPT ![d] = new] /\ new.log = Append(auth[d].log, e)
  <2> DEFINE e == Entry(st, TRUE)
  <2> DEFINE new == [auth[d] EXCEPT !.log = Append(@, e)]
  <2>1. e \in EntryType
    BY DEF Entry, Statuses
  <2>3. new \in AuthType /\ new.log = Append(auth[d].log, e)
    BY <1>t, <1>a, <2>1
  <2>4. auth' = [auth EXCEPT ![d] = new]
    BY <1>2, <1>t DEF ChangeStatus
  <2> HIDE DEF e, new
  <2> QED BY <2>1, <2>3, <2>4
<1>3. ASSUME RequestDecommission(d)
      PROVE  \E e \in EntryType, new \in AuthType :
               auth' = [auth EXCEPT ![d] = new] /\ new.log = Append(auth[d].log, e)
  <2> DEFINE e == Entry(Status(d), FALSE)
  <2> DEFINE new == [auth[d] EXCEPT !.decommissioning = TRUE, !.log = Append(@, e)]
  <2>1. e \in EntryType
    BY <1>3, StatusKnown DEF Entry, RequestDecommission
  <2>3. new \in AuthType /\ new.log = Append(auth[d].log, e)
    BY <1>t, <1>a, <2>1
  <2>4. auth' = [auth EXCEPT ![d] = new]
    BY <1>3, <1>t DEF RequestDecommission
  <2> HIDE DEF e, new
  <2> QED BY <2>1, <2>3, <2>4
<1>4. ASSUME NEW w \in Workers, PatchDevice(w), JobOf(w).device = d, Current(d)
      PROVE  \E e \in EntryType, new \in AuthType :
               auth' = [auth EXCEPT ![d] = new] /\ new.log = Append(auth[d].log, e)
  <2> DEFINE e == Entry(Status(d), FALSE)
  <2> DEFINE new == [auth[d] EXCEPT !.provisioned = TRUE, !.log = Append(@, e)]
  <2>1. e \in EntryType
    BY <1>4, StatusKnown DEF Entry
  <2>3. new \in AuthType /\ new.log = Append(auth[d].log, e)
    BY <1>t, <1>a, <2>1
  <2>4. auth' = [auth EXCEPT ![d] = new]
    BY <1>4, <1>t DEF PatchDevice
  <2> HIDE DEF e, new
  <2> QED BY <2>1, <2>3, <2>4
<1>5. ASSUME NEW w \in Workers, PatchDevice(w), JobOf(w).device = d, ~Current(d)
      PROVE  auth' = auth
  BY <1>5 DEF PatchDevice
<1> QED BY <1>1, <1>2, <1>3, <1>4, <1>5 DEF Writes

\* The deletion of a device keeps its history.
Deletes(d) ==
    DismissPreauthorized(d) \/ \E w \in Workers : DeleteAuth(w) /\ JobOf(w).device = d

\* A deletion changes nothing of a device but that it is there.
LEMMA DeletesKeep ==
    ASSUME NEW d, Deletes(d)
    PROVE  auth' = [auth EXCEPT ![d].present = FALSE]
BY DEF Deletes, DismissPreauthorized, DeleteAuth

\* Every step is one of these.
AuthStepOf(d) ==
    \/ Writes(d) \/ Deletes(d)
    \/ \E w \in Workers : PatchDevice(w) /\ JobOf(w).device = d

Submits == \E job \in unsent : SubmitJob(job) \/ LoseSubmission(job)

Takes(w) == \E n \in 1..NumJobs : Fetch(w, n)

Drops(w) == Acknowledge(w) \/ LoseAcknowledgement(w) \/ LoseWatch(w) \/ Crash(w)

\* The steps of the system in these groups.
LEMMA Steps ==
    ASSUME Next
    PROVE  \/ \E d \in Devices : \/ Writes(d) \/ DismissPreauthorized(d)
                                 \/ \E r \in {0, NoRevision} : WriteAttributes(d, r)
           \/ Submits
           \/ \E w \in Workers : \/ Takes(w) \/ TaskStep(w) \/ BrokenCall(w) \/ ServerError(w)
                                 \/ Drops(w)
           \/ \E n \in 1..NumJobs : Redeliver(n)
           \/ \E b \in background : FinishInBackground(b)
BY DEF Next, Admin, Writes, Work, Disturb, TaskStep, Submits, Takes, Drops

\* A step that leaves deviceauth alone, but for the jobs.
LEMMA OthersKeepAuth ==
    ASSUME \/ Submits
           \/ \E d : \E r \in {0, NoRevision} : WriteAttributes(d, r)
           \/ \E w : \/ Takes(w) \/ BrokenCall(w) \/ ServerError(w) \/ Drops(w)
                     \/ UpsertStatus(w) \/ CallOther(w) \/ DeleteInventory(w)
                     \/ \E service, task : Provision(w, service, task) \/ Delete(w, service, task)
                     \/ \E op, task : StartInBackground(w, op, task)
           \/ \E n : Redeliver(n)
           \/ \E b : FinishInBackground(b)
           \/ UNCHANGED vars
    PROVE  auth' = auth
BY DEF Submits, WriteAttributes, Takes, BrokenCall, ServerError, Drops, UpsertStatus, CallOther,
       DeleteInventory, Provision, Delete, StartInBackground, Redeliver, FinishInBackground, vars,
       SubmitJob, LoseSubmission, Fetch, Acknowledge, LoseAcknowledgement, LoseWatch, Crash

\* Devices of deviceauth change in one of three ways.
LEMMA AuthChanges ==
    ASSUME Inv, [Next]_vars
    PROVE  auth' = auth \/ \E d \in Devices : AuthStepOf(d)
<1>1. ASSUME NEW w \in Workers, TaskStep(w)
      PROVE  auth' = auth \/ \E d \in Devices : AuthStepOf(d)
  <2>1. JobOf(w).device \in Devices
    BY <1>1, TaskStepResponds, WorkingJob DEF InTask, JobType
  <2>2. CASE PatchDevice(w)
    BY <2>1, <2>2 DEF AuthStepOf
  <2>3. CASE DeleteAuth(w)
    BY <2>1, <2>3 DEF AuthStepOf, Deletes
  <2>4. CASE ~PatchDevice(w) /\ ~DeleteAuth(w)
    BY <1>1, <2>4, OthersKeepAuth DEF TaskStep, ProvisioningTasks, DeletionTasks
  <2> QED BY <2>2, <2>3, <2>4
<1>2. ASSUME NEW d \in Devices, Writes(d) \/ DismissPreauthorized(d)
      PROVE  AuthStepOf(d)
  BY <1>2 DEF AuthStepOf, Deletes
<1>3. CASE UNCHANGED vars
  BY <1>3 DEF vars
<1> QED BY <1>1, <1>2, <1>3, Steps, OthersKeepAuth

\* Every step keeps the types of deviceauth, and a status for each device.
LEMMA AuthStep == Inv /\ [Next]_vars => AuthOK'
<1> SUFFICES ASSUME Inv, [Next]_vars PROVE AuthOK'
  OBVIOUS
<1>a. AuthOK
  BY DEF Inv
<1>1. CASE auth' = auth
  BY <1>a, <1>1 DEF AuthOK
<1>2. ASSUME NEW d \in Devices, AuthStepOf(d) PROVE AuthOK'
  <2>1. CASE Deletes(d)
    <3>1. auth' = [auth EXCEPT ![d].present = FALSE]
      BY <2>1, DeletesKeep
    <3> QED BY <1>a, <3>1 DEF AuthOK, AuthType
  <2>2. CASE ~Deletes(d)
    BY <1>a, <1>1, <1>2, <2>2, WritesAppend, LogGrows DEF AuthStepOf
  <2> QED BY <2>1, <2>2
<1> QED BY <1>1, <1>2, AuthChanges

---------------------------------------------------------------------------

\* Jobs stay in the queue, in their order.
JobsKept == \A n \in DOMAIN jobs : n \in DOMAIN jobs' /\ jobs'[n].job = jobs[n].job

\* A new job is about to be submitted, and there is room for it.
LEMMA Announced ==
    ASSUME QueueOK, NEW job \in JobType, Room, unsent' = unsent \union {job}, jobs' = jobs
    PROVE  QueueOK'
<1>1. /\ IsFiniteSet(unsent')
      /\ Cardinality(unsent') = IF job \in unsent THEN Cardinality(unsent) ELSE Cardinality(unsent) + 1
  BY FS_AddElement DEF QueueOK
<1>2. Len(jobs) \in Nat /\ Cardinality(unsent) \in Nat /\ Cardinality(unsent') \in Nat
  BY <1>1, FS_CardinalityType DEF QueueOK
<1>3. Len(jobs) + Cardinality(unsent') <= NumJobs
  BY <1>1, <1>2, BoundsAssumption DEF Room
<1> QED BY <1>1, <1>3 DEF QueueOK

\* The state of one job of the queue changes.
LEMMA Marked ==
    ASSUME QueueOK, NEW n \in DOMAIN jobs, NEW state \in QueueStates,
           jobs' = [jobs EXCEPT ![n].state = state], unsent' = unsent
    PROVE  QueueOK' /\ JobsKept
<1>1. jobs \in Seq(QueuedType) /\ jobs[n] \in QueuedType /\ DOMAIN jobs = 1..Len(jobs)
  BY DEF QueueOK
<1>2. [jobs[n] EXCEPT !.state = state] \in QueuedType
  BY <1>1 DEF QueuedType
<1>3. jobs' = [jobs EXCEPT ![n] = [jobs[n] EXCEPT !.state = state]]
  BY <1>1
<1>4. jobs' \in Seq(QueuedType) /\ Len(jobs') = Len(jobs)
  BY <1>1, <1>2, <1>3
<1>5. JobsKept
  BY <1>1, <1>3, <1>4 DEF JobsKept, QueuedType
<1> QED BY <1>4, <1>5 DEF QueueOK

\* A history has room for one more entry; the announced status is that entry's.
LEMMA WritesAnnounce ==
    ASSUME Inv, NEW d \in Devices, Writes(d) \/ DismissPreauthorized(d)
    PROVE  /\ jobs' = jobs
           /\ unsent' # unsent => Room /\ \E job \in JobType : unsent' = unsent \union {job}
<1>t. AuthOK /\ auth[d].log \in Seq(EntryType) /\ Len(auth[d].log) + 1 \in Nat
  BY DEF Inv, AuthOK, AuthType
<1>w. \A workflow \in {"provision_device", "update_device_status", "decommission_device"} :
        workflow \in DOMAIN Tasks
  BY DEF Tasks
<1> DEFINE Told == Statuses \union {"decommissioned"}
<1>j. ASSUME NEW workflow \in DOMAIN Tasks, NEW st \in Told, NEW r \in Nat
      PROVE  Announcement(workflow, d, st, r) \in JobType
  BY DEF Announcement, JobType
<1> HIDE DEF Told
<1>s. Statuses \subseteq Told /\ "decommissioned" \in Told
  BY DEF Told
<1>1. ASSUME NEW st \in {"noauth", "preauthorized"}, Register(d, st)
      PROVE  Room /\ jobs' = jobs /\ (unsent' = unsent \/ \E job \in JobType : unsent' = unsent \union {job})
  <2>1. Announcement("update_device_status", d, st, 1) \in JobType
    BY <1>j, <1>w, <1>s DEF Statuses
  <2> QED BY <1>1, <2>1 DEF Register
<1>2. ASSUME NEW st \in {"pending", "accepted", "rejected"}, ChangeStatus(d, st)
      PROVE  Room /\ jobs' = jobs /\ \E job \in JobType : unsent' = unsent \union {job}
  <2>1. WorkflowFor(d, st) \in DOMAIN Tasks /\ st \in Told
    BY <1>w, <1>s DEF WorkflowFor, Statuses
  <2>2. Announcement(WorkflowFor(d, st), d, st, Len(auth[d].log) + 1) \in JobType
    BY <1>j, <1>t, <2>1
  <2> QED BY <1>2, <2>2 DEF ChangeStatus
<1>3. ASSUME RequestDecommission(d)
      PROVE  Room /\ jobs' = jobs /\ \E job \in JobType : unsent' = unsent \union {job}
  <2>1. Status(d) \in Told
    BY <1>3, <1>t, <1>s, StatusKnown DEF RequestDecommission
  <2>2. Announcement("decommission_device", d, Status(d), Len(auth[d].log) + 1) \in JobType
    BY <1>j, <1>t, <1>w, <2>1
  <2> QED BY <1>3, <2>2 DEF RequestDecommission
<1>4. ASSUME DismissPreauthorized(d)
      PROVE  Room /\ jobs' = jobs /\ \E job \in JobType : unsent' = unsent \union {job}
  <2>1. Announcement("update_device_status", d, "decommissioned", 0) \in JobType
    BY <1>j, <1>w, <1>s
  <2> QED BY <1>4, <2>1 DEF DismissPreauthorized
<1> QED BY <1>1, <1>2, <1>3, <1>4 DEF Writes

\* A submission, or its loss, takes no more room than the announcement had.
LEMMA Submitted ==
    ASSUME QueueOK, NEW job \in unsent, unsent' = unsent \ {job},
           jobs' = Append(jobs, [job |-> job, state |-> "new"]) \/ jobs' = jobs
    PROVE  QueueOK' /\ JobsKept
<1>1. /\ IsFiniteSet(unsent') /\ Cardinality(unsent') = Cardinality(unsent) - 1
      /\ unsent' \subseteq JobType /\ job \in JobType
  BY FS_RemoveElement DEF QueueOK
<1>2. Len(jobs) \in Nat /\ Cardinality(unsent) \in Nat /\ jobs \in Seq(QueuedType)
  BY FS_CardinalityType DEF QueueOK
<1>3. [job |-> job, state |-> "new"] \in QueuedType
  BY <1>1 DEF QueuedType, QueueStates
<1>4. CASE jobs' = jobs
  <2>1. Len(jobs) + Cardinality(unsent') <= NumJobs
    BY <1>1, <1>2, BoundsAssumption DEF QueueOK
  <2> QED BY <1>1, <1>4, <2>1 DEF QueueOK, JobsKept
<1>5. CASE jobs' = Append(jobs, [job |-> job, state |-> "new"])
  <2>1. /\ jobs' \in Seq(QueuedType) /\ Len(jobs') = Len(jobs) + 1
        /\ \A n \in 1..Len(jobs) : jobs'[n] = jobs[n]
    BY <1>2, <1>3, <1>5, AppendProperties
  <2>2. Len(jobs') + Cardinality(unsent') <= NumJobs
    BY <1>1, <1>2, <2>1, BoundsAssumption DEF QueueOK
  <2>3. \A n \in 1..Len(jobs) : n \in 1..Len(jobs')
    BY <1>2, <2>1
  <2>4. DOMAIN jobs = 1..Len(jobs) /\ DOMAIN jobs' = 1..Len(jobs')
    BY <1>2, <2>1
  <2> QED BY <1>1, <2>1, <2>2, <2>3, <2>4 DEF QueueOK, JobsKept
<1> QED BY <1>4, <1>5

\* Every step keeps the bound on jobs, and no job of the queue is replaced.
LEMMA QueueStep == Inv /\ [Next]_vars => QueueOK' /\ JobsKept
<1> SUFFICES ASSUME Inv, [Next]_vars PROVE QueueOK' /\ JobsKept
  OBVIOUS
<1>q. QueueOK
  BY DEF Inv
<1>1. CASE UNCHANGED <<unsent, jobs>>
  BY <1>q, <1>1 DEF QueueOK, JobsKept
<1>2. ASSUME NEW d \in Devices, Writes(d) \/ DismissPreauthorized(d) PROVE QueueOK' /\ JobsKept
  BY <1>q, <1>1, <1>2, WritesAnnounce, Announced DEF JobsKept
<1>3. CASE Submits
  BY <1>q, <1>3, Submitted DEF Submits, SubmitJob, LoseSubmission
<1>4. ASSUME NEW w \in Workers, Takes(w) PROVE QueueOK' /\ JobsKept
  <2>1. "out" \in QueueStates
    BY DEF QueueStates
  <2> QED BY <1>q, <1>4, <2>1, Marked DEF Takes, Fetch
<1>5. ASSUME NEW w \in Workers, Drops(w) PROVE QueueOK' /\ JobsKept
  <2>1. CASE Acknowledge(w)
    <3>1. "gone" \in QueueStates /\ workers[w].n \in DOMAIN jobs
      BY <2>1 DEF QueueStates, Acknowledge, Inv, WorkersOK
    <3> QED BY <1>q, <2>1, <3>1, Marked DEF Acknowledge
  <2> QED BY <1>1, <1>5, <2>1 DEF Drops, LoseAcknowledgement, LoseWatch, Crash
<1>6. ASSUME NEW n \in 1..NumJobs, Redeliver(n) PROVE QueueOK' /\ JobsKept
  <2>1. "again" \in QueueStates
    BY DEF QueueStates
  <2> QED BY <1>q, <1>6, <2>1, Marked DEF Redeliver
<1>7. ASSUME NEW w \in Workers, TaskStep(w) \/ BrokenCall(w) \/ ServerError(w)
      PROVE  QueueOK' /\ JobsKept
  BY <1>1, <1>7, TaskStepGoesOn DEF BrokenCall, ServerError
<1>8. CASE (\E d \in Devices : \E r \in {0, NoRevision} : WriteAttributes(d, r))
           \/ (\E b \in background : FinishInBackground(b)) \/ UNCHANGED vars
  BY <1>1, <1>8 DEF WriteAttributes, FinishInBackground, vars
<1> QED BY <1>2, <1>3, <1>4, <1>5, <1>6, <1>7, <1>8, Steps

\* Every step leaves each worker idle, or at a task of a job in the queue.
LEMMA WorkersStep == Inv /\ [Next]_vars => WorkersOK'
<1> SUFFICES ASSUME Inv, [Next]_vars PROVE WorkersOK'
  OBVIOUS
<1>k. JobsKept /\ QueueOK /\ QueueOK'
  BY QueueStep DEF Inv
<1>t. workers \in [Workers -> WorkerType]
  BY DEF Inv, WorkersOK
<1>a. ASSUME NEW v \in Workers, Working(v), workers'[v].n = workers[v].n
      PROVE  workers'[v].n \in DOMAIN jobs' /\ TasksOf(v)' = TasksOf(v)
  BY <1>k, <1>a DEF JobsKept, Inv, WorkersOK, TasksOf, JobOf
<1>b. ASSUME NEW v \in Workers, workers'[v] = workers[v], Working(v)
      PROVE  workers'[v].n \in DOMAIN jobs' /\ workers'[v].task \in 1..Len(TasksOf(v)') + 1
  BY <1>a, <1>b DEF Inv, WorkersOK
<1>1. CASE workers' = workers
  BY <1>t, <1>1, <1>b DEF WorkersOK, Working
<1>2. ASSUME NEW w \in Workers, InTask(w), GoesOn(w) PROVE WorkersOK'
  <2>1. Working(w) /\ workers'[w].n = workers[w].n /\ workers'[w].task \in 1..Len(TasksOf(w)) + 1
    BY <1>2 DEF InTask, GoesOn
  <2>2. workers'[w].n \in DOMAIN jobs' /\ workers'[w].task \in 1..Len(TasksOf(w)') + 1
    BY <1>a, <2>1
  <2> QED BY <1>b, <1>2, <2>2 DEF GoesOn, WorkersOK, Working
<1>3. ASSUME NEW w \in Workers, NEW new \in WorkerType, workers' = [workers EXCEPT ![w] = new],
             new.n # 0 => new.n \in DOMAIN jobs' /\ new.task \in 1..Len(TasksOf(w)') + 1
      PROVE  WorkersOK'
  <2>1. workers'[w] = new /\ \A v \in Workers : v # w => workers'[v] = workers[v]
    BY <1>t, <1>3
  <2>2. workers' \in [Workers -> WorkerType]
    BY <1>t, <1>3
  <2> QED BY <1>b, <1>3, <2>1, <2>2 DEF WorkersOK, Working
<1>4. ASSUME NEW w \in Workers, Takes(w) PROVE WorkersOK'
  <2> PICK n \in 1..NumJobs : Fetch(w, n)
    BY <1>4 DEF Takes
  <2> DEFINE new == [n |-> n, task |-> 1, attempt |-> 0, watched |-> TRUE]
  <2>1. new \in WorkerType /\ workers' = [workers EXCEPT ![w] = new]
    BY BoundsAssumption DEF Fetch, WorkerType
  <2>2. n \in DOMAIN jobs' /\ jobs'[n] \in QueuedType
    BY <1>k DEF Fetch, JobsKept, QueueOK
  <2>3. TasksOf(w)' = Tasks[jobs'[n].job.workflow] /\ jobs'[n].job.workflow \in DOMAIN Tasks
    BY <1>t, <2>1, <2>2 DEF TasksOf, JobOf, QueuedType, JobType
  <2>4. Len(TasksOf(w)') \in {2, 6}
    BY <2>3, TaskCounts
  <2>5. 1 \in 1..Len(TasksOf(w)') + 1
    BY <2>4
  <2> QED BY <1>3, <2>1, <2>2, <2>5
<1>5. ASSUME NEW w \in Workers, Drops(w) PROVE WorkersOK'
  <2>1. CASE LoseWatch(w)
    <3>1. /\ workers' = [workers EXCEPT ![w] = [workers[w] EXCEPT !.watched = FALSE]]
          /\ [workers[w] EXCEPT !.watched = FALSE] \in WorkerType
      BY <1>t, <2>1 DEF LoseWatch, WorkerType
    <3>2. Working(w) /\ workers'[w].n = workers[w].n /\ workers'[w].task = workers[w].task
      BY <1>t, <2>1 DEF LoseWatch, WorkerType
    <3>3. workers[w].n \in DOMAIN jobs' /\ workers[w].task \in 1..Len(TasksOf(w)') + 1
      BY <1>a, <3>2 DEF Inv, WorkersOK
    <3> QED BY <1>t, <1>3, <3>1, <3>3 DEF WorkerType
  <2>2. CASE Acknowledge(w) \/ LoseAcknowledgement(w) \/ Crash(w)
    <3>1. workers' = [workers EXCEPT ![w] = Idle] /\ Idle \in WorkerType /\ Idle.n = 0
      BY <2>2, BoundsAssumption DEF Acknowledge, LoseAcknowledgement, Crash, Idle, WorkerType
    <3> QED BY <1>3, <3>1
  <2> QED BY <1>5, <2>1, <2>2 DEF Drops
<1>6. ASSUME NEW w \in Workers, TaskStep(w) PROVE WorkersOK'
  BY <1>2, <1>6, TaskStepResponds, TaskStepGoesOn
<1>7. ASSUME NEW w \in Workers, BrokenCall(w) \/ ServerError(w) PROVE WorkersOK'
  BY <1>2, <1>7, AnswerGoesOn, NoAnswerGoesOn DEF BrokenCall, ServerError
<1>8. ASSUME NEW d \in Devices, Writes(d) \/ DismissPreauthorized(d) PROVE workers' = workers
  BY <1>8 DEF Writes, Register, ChangeStatus, RequestDecommission, DismissPreauthorized
<1>9. CASE (\E d \in Devices : \E r \in {0, NoRevision} : WriteAttributes(d, r))
           \/ (\E b \in background : FinishInBackground(b)) \/ Submits
           \/ (\E n \in 1..NumJobs : Redeliver(n)) \/ UNCHANGED vars
  BY <1>1, <1>9 DEF WriteAttributes, FinishInBackground, Submits, SubmitJob, LoseSubmission, Redeliver, vars
<1> QED BY <1>1, <1>4, <1>5, <1>6, <1>7, <1>8, <1>9, Steps

---------------------------------------------------------------------------

\* The documents of the inventory and what is written to them.
LEMMA InventoryStep ==
    ASSUME Inv, [Next]_vars
    PROVE  \/ inventory' = inventory
           \/ \E d \in Devices : inventory' = [inventory EXCEPT ![d] = Missing]
           \/ \E d \in Devices, r \in {0, NoRevision} :
                 /\ ~inventory[d].exists
                 /\ inventory' = [inventory EXCEPT ![d] =
                                    [exists |-> TRUE, revision |-> r, status |-> "none"]]
           \/ \E w \in Workers :
                 LET job == JobOf(w)
                 IN /\ UpsertStatus(w) /\ job \in JobType /\ job.status # "decommissioned"
                    /\ inventory[job.device].exists => Newer(inventory[job.device], job.revision)
                    /\ inventory' = [inventory EXCEPT ![job.device] =
                          [exists |-> TRUE, revision |-> job.revision, status |-> job.status]]
<1>1. ASSUME NEW w \in Workers, UpsertStatus(w)
      PROVE  \/ inventory' = inventory
             \/ inventory' = [inventory EXCEPT ![JobOf(w).device] = Missing]
             \/ LET job == JobOf(w)
                IN /\ UpsertStatus(w) /\ job.status # "decommissioned"
                   /\ inventory[job.device].exists => Newer(inventory[job.device], job.revision)
                   /\ inventory' = [inventory EXCEPT ![job.device] =
                         [exists |-> TRUE, revision |-> job.revision, status |-> job.status]]
  <2> DEFINE job == JobOf(w)
  <2> DEFINE new == [exists |-> TRUE, revision |-> job.revision, status |-> job.status]
  <2>1. \/ inventory' = [inventory EXCEPT ![job.device] = Missing]
        \/ /\ job.status # "decommissioned"
           /\ inventory[job.device].exists => Newer(inventory[job.device], job.revision)
           /\ inventory' = [inventory EXCEPT ![job.device] = new]
        \/ inventory' = inventory
    BY <1>1 DEF UpsertStatus
  <2> QED BY <1>1, <2>1
<1>2. ASSUME NEW w \in Workers, TaskStep(w), ~UpsertStatus(w)
      PROVE  inventory' = inventory \/ inventory' = [inventory EXCEPT ![JobOf(w).device] = Missing]
  BY <1>2 DEF TaskStep, ProvisioningTasks, Provision, StartInBackground, PatchDevice, services,
              DeletionTasks, Delete, DeleteInventory, DeleteAuth, CallOther
<1>3. ASSUME NEW w \in Workers, TaskStep(w)
      PROVE  JobOf(w) \in JobType /\ JobOf(w).device \in Devices
  BY <1>3, TaskStepResponds, WorkingJob DEF InTask, JobType
<1>4. ASSUME NEW d \in Devices, NEW r \in {0, NoRevision}, WriteAttributes(d, r)
      PROVE  /\ ~inventory[d].exists
             /\ inventory' = [inventory EXCEPT ![d] =
                               [exists |-> TRUE, revision |-> r, status |-> "none"]]
  BY <1>4 DEF WriteAttributes
<1>5. ASSUME NEW w \in Workers, Takes(w) \/ BrokenCall(w) \/ ServerError(w) \/ Drops(w)
      PROVE  inventory' = inventory
  BY <1>5 DEF Takes, Fetch, BrokenCall, ServerError, Drops, Acknowledge, LoseAcknowledgement,
              LoseWatch, Crash, services
<1>6. ASSUME NEW d \in Devices, Writes(d) \/ DismissPreauthorized(d)
      PROVE  inventory' = inventory
  BY <1>6 DEF Writes, Register, ChangeStatus, RequestDecommission, DismissPreauthorized, services
<1>7. CASE Submits \/ (\E n \in 1..NumJobs : Redeliver(n))
           \/ (\E b \in background : FinishInBackground(b)) \/ UNCHANGED vars
  BY <1>7 DEF Submits, SubmitJob, LoseSubmission, Redeliver, FinishInBackground, services, vars
<1>8. ASSUME NEW w \in Workers, TaskStep(w)
      PROVE  \/ inventory' = inventory
             \/ \E d \in Devices : inventory' = [inventory EXCEPT ![d] = Missing]
             \/ LET job == JobOf(w)
                IN /\ UpsertStatus(w) /\ job \in JobType /\ job.status # "decommissioned"
                   /\ inventory[job.device].exists => Newer(inventory[job.device], job.revision)
                   /\ inventory' = [inventory EXCEPT ![job.device] =
                         [exists |-> TRUE, revision |-> job.revision, status |-> job.status]]
  BY <1>1, <1>2, <1>3, <1>8
<1> QED BY <1>4, <1>5, <1>6, <1>7, <1>8, Steps

\* Every step keeps the types of the other services.
LEMMA ServicesStep == Inv /\ [Next]_vars => ServicesOK'
<1> SUFFICES ASSUME Inv, [Next]_vars PROVE ServicesOK'
  OBVIOUS
<1> DEFINE InventoryOK ==
      /\ inventory \in [Devices -> DocumentType]
      /\ \A d \in Devices : ~inventory[d].exists => inventory[d].revision = 0
<1>t. /\ InventoryOK /\ known \in [Services -> SUBSET Devices]
      /\ background \subseteq [op: {"provision", "decommission"}, device: Devices]
  BY DEF Inv, ServicesOK
<1>1. InventoryOK'
  <2>1. ASSUME NEW d \in Devices, NEW new \in DocumentType,
               inventory' = [inventory EXCEPT ![d] = new], ~new.exists => new.revision = 0
        PROVE  InventoryOK'
    BY <1>t, <2>1
  <2>2. Missing \in DocumentType /\ Missing.revision = 0
    BY DEF Missing, DocumentType
  <2>3. ASSUME NEW r \in {0, NoRevision}
        PROVE  [exists |-> TRUE, revision |-> r, status |-> "none"] \in DocumentType
    BY DEF DocumentType
  <2>4. ASSUME NEW job \in JobType, job.status # "decommissioned"
        PROVE  /\ [exists |-> TRUE, revision |-> job.revision, status |-> job.status] \in DocumentType
               /\ job.device \in Devices
    BY <2>4 DEF DocumentType, JobType
  <2>5. ASSUME NEW w \in Workers, JobOf(w) \in JobType, JobOf(w).status # "decommissioned",
               inventory' = [inventory EXCEPT ![JobOf(w).device] =
                  [exists |-> TRUE, revision |-> JobOf(w).revision, status |-> JobOf(w).status]]
        PROVE  InventoryOK'
    BY <2>1, <2>4, <2>5
  <2> QED BY <1>t, <2>1, <2>2, <2>3, <2>5, InventoryStep
<1>j. ASSUME NEW w \in Workers, TaskStep(w) PROVE JobOf(w).device \in Devices
  BY <1>j, TaskStepResponds, WorkingJob DEF InTask, JobType
<1>2. known' \in [Services -> SUBSET Devices]
  <2>1. ASSUME NEW w \in Workers, TaskStep(w) PROVE known' \in [Services -> SUBSET Devices]
    BY <1>t, <1>j, <2>1 DEF TaskStep, UpsertStatus, ProvisioningTasks, Provision, StartInBackground,
       PatchDevice, services, DeletionTasks, Delete, DeleteInventory, DeleteAuth, CallOther, Services
  <2>2. ASSUME NEW b \in background, FinishInBackground(b) PROVE known' \in [Services -> SUBSET Devices]
    BY <1>t, <2>2 DEF FinishInBackground, Services
  <2>3. ASSUME NEW w \in Workers, Takes(w) \/ BrokenCall(w) \/ ServerError(w) \/ Drops(w)
        PROVE  known' = known
    BY <2>3 DEF Takes, Fetch, BrokenCall, ServerError, Drops, Acknowledge, LoseAcknowledgement,
                LoseWatch, Crash, services
  <2>4. ASSUME NEW d \in Devices, \/ Writes(d) \/ DismissPreauthorized(d)
                                 \/ \E r \in {0, NoRevision} : WriteAttributes(d, r)
        PROVE  known' = known
    BY <2>4 DEF Writes, Register, ChangeStatus, RequestDecommission, DismissPreauthorized, services,
                WriteAttributes
  <2>5. CASE Submits \/ (\E n \in 1..NumJobs : Redeliver(n)) \/ UNCHANGED vars
    BY <1>t, <2>5 DEF Submits, SubmitJob, LoseSubmission, Redeliver, services, vars
  <2> QED BY <1>t, <2>1, <2>2, <2>3, <2>4, <2>5, Steps
<1>3. background' \subseteq [op: {"provision", "decommission"}, device: Devices]
  <2>1. ASSUME NEW w \in Workers, TaskStep(w)
        PROVE  background' \subseteq [op: {"provision", "decommission"}, device: Devices]
    <3>1. \/ background' = background
          \/ \E op \in {"provision", "decommission"} :
                background' = background \union {[op |-> op, device |-> JobOf(w).device]}
      BY <2>1 DEF TaskStep, UpsertStatus, ProvisioningTasks, Provision, StartInBackground,
         PatchDevice, services, DeletionTasks, Delete, DeleteInventory, DeleteAuth, CallOther
    <3>2. \A op \in {"provision", "decommission"} :
            [op |-> op, device |-> JobOf(w).device] \in [op: {"provision", "decommission"}, device: Devices]
      BY <1>j, <2>1
    <3> QED BY <1>t, <3>1, <3>2
  <2>2. ASSUME NEW b \in background, FinishInBackground(b)
        PROVE  background' \subseteq background
    BY <2>2 DEF FinishInBackground
  <2>3. ASSUME NEW w \in Workers, Takes(w) \/ BrokenCall(w) \/ ServerError(w) \/ Drops(w)
        PROVE  background' = background
    BY <2>3 DEF Takes, Fetch, BrokenCall, ServerError, Drops, Acknowledge, LoseAcknowledgement,
                LoseWatch, Crash, services
  <2>4. ASSUME NEW d \in Devices, \/ Writes(d) \/ DismissPreauthorized(d)
                                 \/ \E r \in {0, NoRevision} : WriteAttributes(d, r)
        PROVE  background' = background
    BY <2>4 DEF Writes, Register, ChangeStatus, RequestDecommission, DismissPreauthorized, services,
                WriteAttributes
  <2>5. ASSUME Submits \/ (\E n \in 1..NumJobs : Redeliver(n)) \/ UNCHANGED vars
        PROVE  background' = background
    <3>1. CASE UNCHANGED vars
      BY <3>1 DEF vars, services
    <3>2. CASE Submits
      BY <3>2 DEF Submits, SubmitJob, LoseSubmission, services
    <3>3. ASSUME NEW n \in 1..NumJobs, Redeliver(n) PROVE background' = background
      BY <3>3 DEF Redeliver, services
    <3> QED BY <2>5, <3>1, <3>2, <3>3
  <2> QED BY <1>t, <2>1, <2>2, <2>3, <2>4, <2>5, Steps
<1> QED BY <1>1, <1>2, <1>3 DEF ServicesOK

\* Every step keeps the types of what is only remembered.
LEMMA HistoryStep == Inv /\ [Next]_vars => HistoryOK'
<1> SUFFICES ASSUME Inv, [Next]_vars PROVE HistoryOK'
  OBVIOUS
<1> USE DEF HistoryOK
<1>t. HistoryOK /\ unsent \subseteq JobType
  BY DEF Inv, QueueOK
<1>f. Fault => faults' \in 0..MaxFaults
  BY <1>t, BoundsAssumption DEF Fault
<1>1. ASSUME NEW d \in Devices, Writes(d) \/ DismissPreauthorized(d) PROVE HistoryOK'
  BY <1>t, <1>1 DEF Writes, Register, ChangeStatus, RequestDecommission, DismissPreauthorized, history
<1>2. CASE Submits
  BY <1>t, <1>f, <1>2 DEF Submits, SubmitJob, LoseSubmission, history
<1>3. ASSUME NEW w \in Workers, TaskStep(w) PROVE HistoryOK'
  BY <1>3, TaskStepGoesOn
<1>4. ASSUME NEW w \in Workers, BrokenCall(w) PROVE HistoryOK'
  BY <1>4, NoAnswerGoesOn DEF BrokenCall
<1>5. ASSUME NEW w \in Workers, ServerError(w) PROVE HistoryOK'
  <2>1. JobOf(w) \in JobType
    BY <1>5, WorkingJob DEF ServerError, InTask
  <2>2. failed' \subseteq JobType
    BY <1>t, <1>5, <2>1 DEF ServerError
  <2> QED BY <1>t, <1>f, <1>5, <2>2 DEF ServerError
<1>6. ASSUME NEW w \in Workers, Drops(w) PROVE HistoryOK'
  <2>1. CASE Crash(w)
    <3>1. JobOf(w) \in JobType
      BY <2>1, WorkingJob DEF Crash
    <3> QED BY <1>t, <1>f, <2>1, <3>1 DEF Crash
  <2> QED BY <1>t, <1>f, <1>6, <2>1 DEF Drops, Acknowledge, LoseAcknowledgement, LoseWatch, history
<1>7. ASSUME NEW w \in Workers, Takes(w) PROVE HistoryOK'
  BY <1>t, <1>7 DEF Takes, Fetch, history
<1>8. CASE (\E d \in Devices : \E r \in {0, NoRevision} : WriteAttributes(d, r))
           \/ (\E n \in 1..NumJobs : Redeliver(n))
           \/ (\E b \in background : FinishInBackground(b)) \/ UNCHANGED vars
  BY <1>t, <1>8 DEF WriteAttributes, Redeliver, FinishInBackground, history, vars
<1> QED BY <1>1, <1>2, <1>3, <1>4, <1>5, <1>6, <1>7, <1>8, Steps

\* The invariant is inductive.
LEMMA InvStep == Inv /\ [Next]_vars => Inv'
BY AuthStep, QueueStep, WorkersStep, ServicesStep, HistoryStep DEF Inv

\* Every reachable state of the services, the queue and the workers has the
\* shape TypeOK states; no job is lost from the queue's bound by a repetition,
\* and no worker is at a task its job does not have.
THEOREM TypeCorrect == Spec => []TypeOK
BY InvInit, InvStep, InvType, PTL DEF Spec

---------------------------------------------------------------------------
(* The statuses of the inventory.                                          *)

StatusAt(d, r) == auth[d].log[r].status
Revisions(d) == 1..Len(auth[d].log)

\* The statuses that jobs carry, and those the inventory shows, are those the
\* devices had at the revision that goes with them.
Truthful(job) ==
    job.workflow # "decommission_device" /\ job.status # "decommissioned" =>
        job.revision \in Revisions(job.device) /\ StatusAt(job.device, job.revision) = job.status

HonestJob(n) == Truthful(jobs[n].job)

HonestDocument(d) ==
    inventory[d].revision > 0 =>
        /\ inventory[d].revision \in Revisions(d)
        /\ StatusAt(d, inventory[d].revision) = inventory[d].status

Honest ==
    /\ \A job \in unsent : Truthful(job)
    /\ \A n \in DOMAIN jobs : HonestJob(n)
    /\ \A d \in Devices : HonestDocument(d)

\* At first nothing is told.
LEMMA HonestInit == Init => Honest
BY DEF Init, Honest, HonestDocument, Missing

\* The history of a device is only added to.
LEMMA LogsKept ==
    ASSUME Inv, [Next]_vars, NEW d \in Devices, NEW r \in Revisions(d)
    PROVE  r \in Revisions(d)' /\ StatusAt(d, r)' = StatusAt(d, r)
<1> USE DEF Revisions, StatusAt
<1>t. AuthOK /\ auth \in [Devices -> AuthType] /\ auth[d].log \in Seq(EntryType)
  BY DEF Inv, AuthOK, AuthType
<1>1. CASE auth' = auth
  BY <1>1
<1>2. ASSUME NEW b \in Devices, NEW e \in EntryType, NEW new \in AuthType,
             auth' = [auth EXCEPT ![b] = new], new.log = Append(auth[b].log, e)
      PROVE  r \in Revisions(d)' /\ StatusAt(d, r)' = StatusAt(d, r)
  <2>1. CASE b # d
    BY <1>t, <1>2, <2>1
  <2>2. CASE b = d
    <3>1. auth'[d].log = Append(auth[d].log, e)
      BY <1>t, <1>2, <2>2
    <3>2. Len(auth'[d].log) = Len(auth[d].log) + 1 /\ auth'[d].log[r] = auth[d].log[r]
      BY <1>t, <3>1, AppendProperties
    <3>3. Len(auth[d].log) \in Nat
      BY <1>t
    <3>4. r \in 1..Len(auth'[d].log)
      BY <3>2, <3>3
    <3> QED BY <3>2, <3>4
  <2> QED BY <2>1, <2>2
<1>3. ASSUME NEW b \in Devices, Deletes(b)
      PROVE  r \in Revisions(d)' /\ StatusAt(d, r)' = StatusAt(d, r)
  <2>1. auth' = [auth EXCEPT ![b].present = FALSE]
    BY <1>3, DeletesKeep
  <2>2. auth'[d].log = auth[d].log
    BY <1>t, <2>1 DEF AuthType
  <2> QED BY <2>2
<1> QED BY <1>t, <1>1, <1>2, <1>3, AuthChanges, WritesAppend DEF AuthStepOf

\* What a job says of a revision stays true.
LEMMA TruthKept ==
    ASSUME Inv, [Next]_vars, NEW job \in JobType, Truthful(job)
    PROVE  Truthful(job)'
<1>1. job.device \in Devices
  BY DEF JobType
<1> QED BY <1>1, LogsKept DEF Truthful

\* What deviceauth announces is the status it wrote, with its revision.
LEMMA AnnouncesTruth ==
    ASSUME Inv, NEW d \in Devices, Writes(d) \/ DismissPreauthorized(d),
           NEW job \in unsent', job \notin unsent
    PROVE  Truthful(job)'
<1>t. AuthOK /\ auth \in [Devices -> AuthType] /\ auth[d].log \in Seq(EntryType)
      /\ Len(auth[d].log) \in Nat
  BY DEF Inv, AuthOK, AuthType
<1>r. Len(auth[d].log) + 1 \in 1..Len(auth[d].log) + 1
  BY <1>t
<1>1. ASSUME NEW st \in {"noauth", "preauthorized"}, Register(d, st) PROVE Truthful(job)'
  <2>1. job = Announcement("update_device_status", d, st, 1) /\ st = "preauthorized"
    BY <1>1 DEF Register
  <2>2. auth'[d].log = <<Entry(st, st = "preauthorized")>>
    BY <1>1, <1>t DEF Register, AuthType
  <2>3. 1 \in 1..Len(auth'[d].log) /\ auth'[d].log[1].status = st
    BY <2>2 DEF Entry
  <2> QED BY <2>1, <2>3 DEF Truthful, Announcement, Revisions, StatusAt
<1>2. ASSUME NEW st \in {"pending", "accepted", "rejected"}, ChangeStatus(d, st)
      PROVE  Truthful(job)'
  <2> DEFINE n == Len(auth[d].log) + 1
  <2>1. job = Announcement(WorkflowFor(d, st), d, st, n)
    BY <1>2 DEF ChangeStatus
  <2>2. auth'[d].log = Append(auth[d].log, Entry(st, TRUE)) /\ Entry(st, TRUE) \in EntryType
    BY <1>2, <1>t DEF ChangeStatus, AuthType, Entry, EntryType, Statuses
  <2>a. ASSUME NEW log \in Seq(EntryType), NEW e \in EntryType
        PROVE  Len(Append(log, e)) = Len(log) + 1 /\ Append(log, e)[Len(log) + 1] = e
    BY AppendProperties
  <2>3. Len(auth'[d].log) = n /\ auth'[d].log[n] = Entry(st, TRUE)
    BY <1>t, <2>2, <2>a
  <2>4. job.device = d /\ job.revision = n /\ job.status = st
    BY <2>1 DEF Announcement
  <2> QED BY <1>r, <2>3, <2>4 DEF Truthful, Revisions, StatusAt, Entry
<1>3. CASE RequestDecommission(d)
  <2>1. job.workflow = "decommission_device"
    BY <1>3 DEF RequestDecommission, Announcement
  <2> QED BY <2>1 DEF Truthful
<1>4. CASE DismissPreauthorized(d)
  <2>1. job.status = "decommissioned"
    BY <1>4 DEF DismissPreauthorized, Announcement
  <2> QED BY <2>1 DEF Truthful
<1> QED BY <1>1, <1>2, <1>3, <1>4 DEF Writes

\* Nothing but the status of a revision ever gets into a job or the inventory.
LEMMA HonestStep == Inv /\ Honest /\ [Next]_vars => Honest'
<1> SUFFICES ASSUME Inv, Honest, [Next]_vars PROVE Honest'
  OBVIOUS
<1>i. Inv' /\ QueueOK /\ JobsKept
  BY InvStep, QueueStep DEF Inv
<1>u. unsent \subseteq JobType /\ jobs \in Seq(QueuedType)
  BY <1>i DEF QueueOK
<1>1. ASSUME NEW job \in unsent' PROVE Truthful(job)'
  <2>1. CASE job \in unsent
    BY <1>u, <2>1, TruthKept DEF Honest
  <2>2. CASE job \notin unsent
    <3>1. \E d \in Devices : Writes(d) \/ DismissPreauthorized(d)
      <4>1. ASSUME NEW w \in Workers, TaskStep(w) PROVE unsent' = unsent
        BY <4>1, TaskStepGoesOn
      <4>2. ASSUME NEW w \in Workers, Takes(w) \/ BrokenCall(w) \/ ServerError(w) \/ Drops(w)
            PROVE  unsent' = unsent
        BY <4>2 DEF Takes, Fetch, BrokenCall, ServerError, Drops, Acknowledge, LoseAcknowledgement,
                    LoseWatch, Crash
      <4>3. ASSUME NEW d \in Devices, \E r \in {0, NoRevision} : WriteAttributes(d, r)
            PROVE  unsent' = unsent
        BY <4>3 DEF WriteAttributes
      <4>4. CASE Submits
        BY <2>2, <4>4 DEF Submits, SubmitJob, LoseSubmission
      <4>5. CASE (\E n \in 1..NumJobs : Redeliver(n)) \/ (\E b \in background : FinishInBackground(b))
        BY <2>2, <4>5 DEF Redeliver, FinishInBackground
      <4>6. CASE UNCHANGED vars
        BY <2>2, <4>6 DEF vars
      <4> QED BY <2>2, <4>1, <4>2, <4>3, <4>4, <4>5, <4>6, Steps
    <3> QED BY <1>1, <2>2, <3>1, AnnouncesTruth
  <2> QED BY <2>1, <2>2
<1>2. ASSUME NEW n \in DOMAIN jobs' PROVE HonestJob(n)'
  <2>1. CASE n \in DOMAIN jobs
    <3>1. jobs'[n].job = jobs[n].job /\ jobs[n] \in QueuedType /\ HonestJob(n)
      BY <1>i, <1>u, <2>1 DEF JobsKept, Honest
    <3>2. \A job \in JobType : Truthful(job) => Truthful(job)'
      BY TruthKept
    <3> QED BY <3>1, <3>2 DEF HonestJob, QueuedType, Truthful, Revisions, StatusAt
  <2>2. CASE n \notin DOMAIN jobs
    <3>1. PICK job \in unsent : SubmitJob(job)
      <4>1. ASSUME NEW w \in Workers, TaskStep(w) PROVE jobs' = jobs
        BY <4>1, TaskStepGoesOn
      <4>2. ASSUME NEW w \in Workers, Takes(w) \/ BrokenCall(w) \/ ServerError(w) \/ Drops(w)
            PROVE  DOMAIN jobs' = DOMAIN jobs
        BY <4>2, <1>u DEF Takes, Fetch, BrokenCall, ServerError, Drops, Acknowledge, LoseAcknowledgement,
                    LoseWatch, Crash
      <4>3. ASSUME NEW d \in Devices, \E r \in {0, NoRevision} : WriteAttributes(d, r)
            PROVE  jobs' = jobs
        BY <4>3 DEF WriteAttributes
      <4>4. ASSUME NEW d \in Devices, Writes(d) \/ DismissPreauthorized(d) PROVE jobs' = jobs
        BY <4>4, WritesAnnounce
      <4>5. CASE \E m \in 1..NumJobs : Redeliver(m)
        BY <1>u, <2>2, <4>5, <1>2 DEF Redeliver
      <4>6. CASE \E b \in background : FinishInBackground(b)
        BY <2>2, <4>6, <1>2 DEF FinishInBackground
      <4>7. CASE UNCHANGED vars
        BY <2>2, <4>7, <1>2 DEF vars
      <4> QED BY <1>2, <2>2, <4>1, <4>2, <4>3, <4>4, <4>5, <4>6, <4>7, Steps
              DEF Submits, LoseSubmission
    <3>2. job \in JobType /\ jobs' = Append(jobs, [job |-> job, state |-> "new"])
          /\ [job |-> job, state |-> "new"] \in QueuedType
      BY <1>u, <3>1 DEF SubmitJob, QueuedType, QueueStates
    <3>3. Len(jobs') = Len(jobs) + 1 /\ jobs'[Len(jobs) + 1] = [job |-> job, state |-> "new"]
          /\ DOMAIN jobs' = 1..Len(jobs') /\ DOMAIN jobs = 1..Len(jobs) /\ Len(jobs) \in Nat
      BY <1>u, <3>2, AppendProperties
    <3>4. n = Len(jobs) + 1
      BY <1>2, <2>2, <3>3
    <3>5. Truthful(job)'
      BY <3>1, <3>2, TruthKept DEF Honest
    <3> QED BY <3>3, <3>4, <3>5 DEF HonestJob, Truthful
  <2> QED BY <2>1, <2>2
<1>3. ASSUME NEW d \in Devices PROVE HonestDocument(d)'
  <2> SUFFICES ASSUME inventory'[d].revision > 0 PROVE HonestDocument(d)'
    BY DEF HonestDocument
  <2>k. \A r \in Revisions(d) : r \in Revisions(d)' /\ StatusAt(d, r)' = StatusAt(d, r)
    BY LogsKept
  <2>t. inventory \in [Devices -> DocumentType]
    BY DEF Inv, ServicesOK
  <2>1. CASE inventory'[d] = inventory[d]
    <3>1. /\ inventory[d].revision \in Revisions(d)
          /\ StatusAt(d, inventory[d].revision) = inventory[d].status
      BY <2>1 DEF Honest, HonestDocument
    <3> QED BY <2>1, <2>k, <3>1 DEF HonestDocument, Revisions, StatusAt
  <2>2. CASE \E w \in Workers :
               /\ UpsertStatus(w) /\ JobOf(w).status # "decommissioned" /\ JobOf(w).device = d
               /\ inventory'[d].revision = JobOf(w).revision
               /\ inventory'[d].status = JobOf(w).status
    <3> PICK w \in Workers :
               /\ UpsertStatus(w) /\ JobOf(w).status # "decommissioned" /\ JobOf(w).device = d
               /\ inventory'[d].revision = JobOf(w).revision
               /\ inventory'[d].status = JobOf(w).status
      BY <2>2
    <3>1. JobOf(w).workflow # "decommission_device" /\ Working(w) /\ JobOf(w) \in JobType
      BY StatusTasksOnly, WorkingJob
    <3>2. Truthful(JobOf(w))
      BY <3>1 DEF Honest, HonestJob, Inv, WorkersOK, JobOf
    <3>3. /\ JobOf(w).revision \in Revisions(d)
          /\ StatusAt(d, JobOf(w).revision) = JobOf(w).status
      BY <3>1, <3>2 DEF Truthful
    <3> QED BY <2>k, <3>3 DEF HonestDocument, Revisions, StatusAt
  <2>3. CASE inventory'[d].revision \in {0, NoRevision}
    BY <2>3 DEF NoRevision
  <2>4. \/ inventory'[d] = inventory[d] \/ inventory'[d].revision \in {0, NoRevision}
        \/ \E w \in Workers :
             /\ UpsertStatus(w) /\ JobOf(w).status # "decommissioned" /\ JobOf(w).device = d
             /\ inventory'[d].revision = JobOf(w).revision
             /\ inventory'[d].status = JobOf(w).status
    <3>1. CASE inventory' = inventory
      BY <3>1
    <3>2. ASSUME NEW b \in Devices, inventory' = [inventory EXCEPT ![b] = Missing]
          PROVE  inventory'[d] = inventory[d] \/ inventory'[d].revision = 0
      BY <2>t, <3>2 DEF Missing
    <3>3. ASSUME NEW b \in Devices, NEW r \in {0, NoRevision},
                 inventory' = [inventory EXCEPT ![b] =
                                [exists |-> TRUE, revision |-> r, status |-> "none"]]
          PROVE  inventory'[d] = inventory[d] \/ inventory'[d].revision = r
      BY <2>t, <3>3
    <3>4. ASSUME NEW w \in Workers, JobOf(w) \in JobType,
                 inventory' = [inventory EXCEPT ![JobOf(w).device] =
                   [exists |-> TRUE, revision |-> JobOf(w).revision, status |-> JobOf(w).status]]
          PROVE  \/ inventory'[d] = inventory[d]
                 \/ /\ JobOf(w).device = d
                    /\ inventory'[d].revision = JobOf(w).revision
                    /\ inventory'[d].status = JobOf(w).status
      <4>1. JobOf(w).device \in Devices
        BY <3>4 DEF JobType
      <4> QED BY <2>t, <3>4, <4>1
    <3> QED BY <3>1, <3>2, <3>3, <3>4, InventoryStep
  <2> QED BY <2>1, <2>2, <2>3, <2>4
<1> QED BY <1>1, <1>2, <1>3 DEF Honest

---------------------------------------------------------------------------
(* The inventory as the board of statuses.                                 *)

AnnouncedOf(d) == [r \in 1..Len(auth[d].log) |-> auth[d].log[r].status]
Announcements == [d \in Devices |-> AnnouncedOf(d)]
Shown == [d \in Devices |-> ShownDocument(d)]

\* At first the board is empty.
LEMMA BoardInit == Init => Board!Init
<1> SUFFICES ASSUME Init PROVE Board!Init
  OBVIOUS
<1>1. ASSUME NEW d \in Devices
      PROVE  AnnouncedOf(d) = << >> /\ ShownDocument(d) = Board!Blank
  <2>1. auth[d].log = << >> /\ inventory[d].revision = 0
    BY DEF Init, Missing
  <2> QED BY <2>1 DEF AnnouncedOf, ShownDocument, Board!Blank
<1> QED BY <1>1 DEF Board!Init, AnnouncedOf

\* The statuses of a history to which an entry is appended.
LEMMA StatusesAppend ==
    ASSUME NEW log \in Seq(EntryType), NEW e \in EntryType
    PROVE  [r \in 1..Len(Append(log, e)) |-> Append(log, e)[r].status]
              = Append([r \in 1..Len(log) |-> log[r].status], e.status)
<1> DEFINE s == [r \in 1..Len(log) |-> log[r].status]
<1>e. Len(log) \in Nat /\ \A r \in 1..Len(log) : log[r] \in EntryType
  OBVIOUS
<1>1. Len(log) \in Nat /\ \A r \in 1..Len(log) : log[r].status \in Statuses
  BY <1>e DEF EntryType
<1>2. s \in Seq(Statuses) /\ Len(s) = Len(log)
  BY <1>1
<1>3. e.status \in Statuses
  BY DEF EntryType
<1>4. /\ Append(s, e.status) \in Seq(Statuses) /\ Len(Append(s, e.status)) = Len(log) + 1
      /\ \A r \in 1..Len(log) : Append(s, e.status)[r] = log[r].status
      /\ Append(s, e.status)[Len(log) + 1] = e.status
  BY <1>2, <1>3, AppendProperties
<1>5. /\ Len(Append(log, e)) = Len(log) + 1
      /\ \A r \in 1..Len(log) : Append(log, e)[r] = log[r]
      /\ Append(log, e)[Len(log) + 1] = e
  BY AppendProperties
<1>6. \A r \in 1..Len(log) + 1 : r \in 1..Len(log) \/ r = Len(log) + 1
  BY <1>1
<1>7. DOMAIN Append(s, e.status) = 1..Len(log) + 1
  BY <1>4
<1>8. Append(s, e.status) = [r \in 1..Len(log) + 1 |-> Append(s, e.status)[r]]
  BY <1>4, <1>7
<1>9. \A r \in 1..Len(log) + 1 : Append(s, e.status)[r] = Append(log, e)[r].status
  BY <1>4, <1>5, <1>6
<1> QED BY <1>5, <1>8, <1>9

\* No step changes deviceauth and the inventory at once.
LEMMA OneSide ==
    ASSUME Inv, [Next]_vars
    PROVE  auth' = auth \/ inventory' = inventory
<1>1. ASSUME NEW d \in Devices, Writes(d) \/ DismissPreauthorized(d) PROVE inventory' = inventory
  BY <1>1 DEF Writes, Register, ChangeStatus, RequestDecommission, DismissPreauthorized, services
<1>2. ASSUME NEW w \in Workers, TaskStep(w) PROVE auth' = auth \/ inventory' = inventory
  <2>1. CASE PatchDevice(w) \/ DeleteAuth(w)
    BY <2>1 DEF PatchDevice, DeleteAuth, services
  <2>2. CASE ~PatchDevice(w) /\ ~DeleteAuth(w)
    BY <1>2, <2>2, OthersKeepAuth DEF TaskStep, ProvisioningTasks, DeletionTasks
  <2> QED BY <2>1, <2>2
<1>3. CASE UNCHANGED vars
  BY <1>3 DEF vars
<1> QED BY <1>1, <1>2, <1>3, Steps, OthersKeepAuth

\* Every step is one of the board, or none.
LEMMA BoardStep == Inv /\ Honest /\ [Next]_vars => [Board!Next]_Board!vars
<1> SUFFICES ASSUME Inv, Honest, [Next]_vars PROVE [Board!Next]_Board!vars
  OBVIOUS
<1>t. /\ auth \in [Devices -> AuthType] /\ \A d \in Devices : auth[d].log \in Seq(EntryType)
      /\ inventory \in [Devices -> DocumentType]
  BY DEF Inv, AuthOK, AuthType, ServicesOK
<1>s. inventory' = inventory => Shown' = Shown
  BY DEF Shown, ShownDocument
<1>a. auth' = auth => Announcements' = Announcements
  BY DEF Announcements, AnnouncedOf
<1>1. ASSUME NEW d \in Devices, NEW e \in EntryType, NEW new \in AuthType,
             auth' = [auth EXCEPT ![d] = new], new.log = Append(auth[d].log, e)
      PROVE  Announcements' = [Announcements EXCEPT ![d] = Append(@, e.status)]
  <2>1. AnnouncedOf(d)' = Append(AnnouncedOf(d), e.status)
    <3>1. auth'[d].log = Append(auth[d].log, e)
      BY <1>t, <1>1
    <3> QED BY <1>t, <3>1, StatusesAppend DEF AnnouncedOf
  <2>2. \A b \in Devices : b # d => AnnouncedOf(b)' = AnnouncedOf(b)
    BY <1>t, <1>1 DEF AnnouncedOf
  <2>3. /\ Announcements' = [b \in Devices |-> AnnouncedOf(b)']
        /\ Announcements = [b \in Devices |-> AnnouncedOf(b)]
    BY DEF Announcements
  <2> QED BY <2>1, <2>2, <2>3
<1>2. ASSUME NEW d \in Devices, NEW new \in DocumentType,
             inventory' = [inventory EXCEPT ![d] = new]
      PROVE  Shown' = [Shown EXCEPT ![d] = ShownDocument(d)']
  <2>1. \A b \in Devices : b # d => ShownDocument(b)' = ShownDocument(b)
    BY <1>t, <1>2 DEF ShownDocument
  <2>2. /\ Shown' = [b \in Devices |-> ShownDocument(b)'] /\ Shown = [b \in Devices |-> ShownDocument(b)]
    BY DEF Shown
  <2> QED BY <2>1, <2>2
<1>3. CASE Announcements' = Announcements /\ Shown' = Shown
  <2>1. Board!vars' = Board!vars
    BY <1>3 DEF Board!vars, Announcements, AnnouncedOf, Shown
  <2> QED BY <2>1
<1>4. ASSUME NEW d \in Devices, NEW st \in Statuses, Shown' = Shown,
             Announcements' = [Announcements EXCEPT ![d] = Append(@, st)]
      PROVE  Board!Next
  BY <1>4 DEF Board!Next, Board!Announce, Announcements, AnnouncedOf, Shown
<1>5. ASSUME NEW d \in Devices, Announcements' = Announcements,
             Shown' = [Shown EXCEPT ![d] = Board!Blank]
      PROVE  Board!Next
  BY <1>5 DEF Board!Next, Board!Forget, Announcements, AnnouncedOf, Shown
<1>6. ASSUME NEW d \in Devices, Announcements' = Announcements,
             NEW r \in 1..Len(Announcements[d]), ShownDocument(d).revision < r,
             Shown' = [Shown EXCEPT ![d] = [revision |-> r, status |-> Announcements[d][r]]]
      PROVE  Board!Next
  <2>1. Shown[d].revision < r
    BY <1>6 DEF Shown
  <2>2. Board!Show(d, r)
    BY <1>6, <2>1 DEF Board!Show, Announcements, AnnouncedOf, Shown
  <2>3. r \in 1..Len([b \in Devices |-> [q \in 1..Len(auth[b].log) |-> auth[b].log[q].status]][d])
    BY <1>6 DEF Announcements, AnnouncedOf
  <2> QED BY <2>2, <2>3 DEF Board!Next
<1>7. CASE auth' # auth
  <2>1. Shown' = Shown
    BY <1>7, <1>s, OneSide
  <2>2. PICK d \in Devices : AuthStepOf(d)
    BY <1>7, AuthChanges
  <2>3. CASE Deletes(d)
    <3>1. auth' = [auth EXCEPT ![d].present = FALSE]
      BY <2>3, DeletesKeep
    <3>2. \A b \in Devices : auth'[b].log = auth[b].log
      BY <1>t, <3>1 DEF AuthType
    <3>3. Announcements' = Announcements
      BY <3>2 DEF Announcements, AnnouncedOf
    <3> QED BY <1>3, <2>1, <3>3
  <2>4. CASE ~Deletes(d)
    <3>1. PICK e \in EntryType, new \in AuthType :
            auth' = [auth EXCEPT ![d] = new] /\ new.log = Append(auth[d].log, e)
      BY <1>7, <2>2, <2>4, WritesAppend DEF AuthStepOf, Inv
    <3>2. e.status \in Statuses
      BY DEF EntryType
    <3> QED BY <1>1, <1>4, <2>1, <3>1, <3>2
  <2> QED BY <2>3, <2>4
<1>8. CASE inventory' # inventory
  <2>1. Announcements' = Announcements
    BY <1>8, <1>a, OneSide
  <2>2. ASSUME NEW d \in Devices, inventory' = [inventory EXCEPT ![d] = Missing]
        PROVE  Board!Next
    <3>1. Missing \in DocumentType /\ inventory'[d] = Missing
      BY <1>t, <2>2 DEF Missing, DocumentType
    <3>2. ShownDocument(d)' = Board!Blank
      BY <3>1 DEF ShownDocument, Missing, Board!Blank
    <3> QED BY <1>2, <1>5, <2>1, <2>2, <3>1, <3>2
  <2>3. ASSUME NEW d \in Devices, NEW r \in {0, NoRevision}, ~inventory[d].exists,
               inventory' = [inventory EXCEPT ![d] =
                               [exists |-> TRUE, revision |-> r, status |-> "none"]]
        PROVE  Shown' = Shown
    <3>1. inventory[d].revision = 0 /\ ~(inventory'[d].revision > 0)
      BY <1>t, <2>3 DEF Inv, ServicesOK, NoRevision
    <3>2. ShownDocument(d)' = ShownDocument(d)
      BY <3>1 DEF ShownDocument
    <3>3. \A b \in Devices : b # d => ShownDocument(b)' = ShownDocument(b)
      BY <1>t, <2>3 DEF ShownDocument
    <3> QED BY <3>2, <3>3 DEF Shown
  <2>4. ASSUME NEW w \in Workers, UpsertStatus(w), JobOf(w) \in JobType,
               JobOf(w).status # "decommissioned",
               inventory[JobOf(w).device].exists
                   => Newer(inventory[JobOf(w).device], JobOf(w).revision),
               inventory' = [inventory EXCEPT ![JobOf(w).device] =
                  [exists |-> TRUE, revision |-> JobOf(w).revision, status |-> JobOf(w).status]]
        PROVE  Board!Next
    <3>1. JobOf(w).workflow # "decommission_device" /\ Working(w)
      BY <2>4, StatusTasksOnly
    <3>2. Truthful(JobOf(w))
      BY <3>1 DEF Honest, HonestJob, Inv, WorkersOK, JobOf
    <3> PICK d \in Devices, r \in Nat, st \in Statuses :
           d = JobOf(w).device /\ r = JobOf(w).revision /\ st = JobOf(w).status
      BY <2>4 DEF JobType
    <3>3. r \in 1..Len(auth[d].log) /\ auth[d].log[r].status = st
      BY <2>4, <3>1, <3>2 DEF Truthful, Revisions, StatusAt
    <3>4. r > 0
      BY <1>t, <3>3
    <3>5. [exists |-> TRUE, revision |-> r, status |-> st] \in DocumentType
      BY <3>4 DEF DocumentType
    <3>6. inventory'[d] = [exists |-> TRUE, revision |-> r, status |-> st]
      BY <1>t, <2>4
    <3>7. ShownDocument(d)' = [revision |-> r, status |-> st]
      BY <3>4, <3>6 DEF ShownDocument
    <3>8. Len(Announcements[d]) = Len(auth[d].log) /\ Announcements[d][r] = st
      BY <1>t, <3>3 DEF Announcements, AnnouncedOf
    <3>9. ShownDocument(d).revision < r
      <4>1. CASE inventory[d].exists
        BY <2>4, <3>4, <4>1 DEF Newer, ShownDocument
      <4>2. CASE ~inventory[d].exists
        <5>1. inventory[d].revision = 0
          BY <3>3, <4>2 DEF Inv, ServicesOK
        <5> QED BY <3>4, <5>1 DEF ShownDocument
      <4> QED BY <4>1, <4>2
    <3>10. Shown' = [Shown EXCEPT ![d] = [revision |-> r, status |-> Announcements[d][r]]]
      BY <1>2, <2>4, <3>3, <3>5, <3>7, <3>8
    <3> QED BY <1>6, <2>1, <3>3, <3>8, <3>9, <3>10
  <2> QED BY <1>3, <1>8, <2>1, <2>2, <2>3, <2>4, InventoryStep
<1> QED BY <1>3, <1>7, <1>8, <1>a, <1>s

\* The inventory is a board of the announced statuses: it shows a status a device
\* had, with its revision, and goes forward only, whatever the workers repeat and
\* reorder, whoever crashes, and whatever else writes to the inventory
\* (UpsertDevicesStatus in the store of the inventory, with the revisions that
\* UpdateDeviceWithRevision of deviceauth gives out).
THEOREM InventoryHonest == Spec => BoardHonest
BY InvInit, InvStep, HonestInit, HonestStep, BoardInit, BoardStep, PTL
   DEF Spec, BoardHonest, Board!Spec

---------------------------------------------------------------------------
(* Where the news of a device are: on their way, or in what the services   *)
(* keep of the device.                                                     *)

\* Jobs that tell the inventory a status, and jobs that remove a device.
Telling(job) == job.workflow # "decommission_device" /\ job.status # "decommissioned"
Removal(job) ==
    \/ job.workflow = "decommission_device"
    \/ job.workflow = "update_device_status" /\ job.status = "decommissioned"

\* A job is live until the queue drops it, and stays queued after that.
Queued(job) == job \in unsent \/ \E n \in DOMAIN jobs : jobs[n].job = job
Live(job) ==
    job \in unsent \/ \E n \in DOMAIN jobs : jobs[n].job = job /\ jobs[n].state # "gone"

Pending(op, d) == [op |-> op, device |-> d] \in background

\* What the services keep of a device, and whether its decommissioning met others.
SameDevice(d) ==
    /\ auth'[d] = auth[d] /\ inventory'[d] = inventory[d]
    /\ \A s \in Services : d \in known'[s] <=> d \in known[s]
    /\ \A op \in {"provision", "decommission"} : Pending(op, d)' <=> Pending(op, d)
    /\ d \in crossed' <=> d \in crossed

\* The steps that change it.
DeviceStep(d) ==
    \/ Writes(d) \/ DismissPreauthorized(d)
    \/ \E r \in {0, NoRevision} : WriteAttributes(d, r)
    \/ \E w \in Workers : TaskStep(w) /\ JobOf(w).device = d
    \/ \E b \in background : FinishInBackground(b) /\ b.device = d

\* A step that changes what a service keeps of a device is about that device.
LEMMA Elsewhere ==
    ASSUME Inv, [Next]_vars, NEW d \in Devices, ~DeviceStep(d)
    PROVE  SameDevice(d)
<1> USE DEF SameDevice, Pending
<1>t. /\ auth \in [Devices -> AuthType] /\ inventory \in [Devices -> DocumentType]
      /\ known \in [Services -> SUBSET Devices]
      /\ background \subseteq [op: {"provision", "decommission"}, device: Devices]
  BY DEF Inv, AuthOK, ServicesOK
<1>1. ASSUME NEW b \in Devices, Writes(b) \/ DismissPreauthorized(b) PROVE SameDevice(d)
  <2>1. b # d
    BY <1>1 DEF DeviceStep
  <2> QED BY <1>t, <1>1, <2>1 DEF Writes, Register, ChangeStatus, RequestDecommission,
                                 DismissPreauthorized, services, history
<1>2. ASSUME NEW b \in Devices, NEW r \in {0, NoRevision}, WriteAttributes(b, r)
      PROVE  SameDevice(d)
  <2>1. b # d
    BY <1>2 DEF DeviceStep
  <2> QED BY <1>t, <1>2, <2>1 DEF WriteAttributes, history
<1>3. ASSUME NEW w \in Workers, TaskStep(w) PROVE SameDevice(d)
  <2>1. JobOf(w).device # d /\ JobOf(w).device \in Devices
    BY <1>3, TaskStepResponds, WorkingJob DEF DeviceStep, InTask, JobType
  <2>2. crossed' = crossed
    BY <1>3, TaskStepResponds DEF Respond, NoAnswer, history
  <2>3. auth'[d] = auth[d]
    <3>1. CASE PatchDevice(w) \/ DeleteAuth(w)
      BY <1>t, <2>1, <3>1 DEF PatchDevice, DeleteAuth
    <3>2. CASE ~PatchDevice(w) /\ ~DeleteAuth(w)
      BY <1>3, <3>2, OthersKeepAuth DEF TaskStep, ProvisioningTasks, DeletionTasks
    <3> QED BY <3>1, <3>2
  <2>4. inventory'[d] = inventory[d]
    BY <1>t, <1>3, <2>1 DEF TaskStep, UpsertStatus, ProvisioningTasks, Provision, StartInBackground,
       PatchDevice, services, DeletionTasks, Delete, DeleteInventory, DeleteAuth, CallOther
  <2>5. \A s \in Services : d \in known'[s] <=> d \in known[s]
    BY <1>t, <1>3, <2>1 DEF TaskStep, UpsertStatus, ProvisioningTasks, Provision, StartInBackground,
       PatchDevice, services, DeletionTasks, Delete, DeleteInventory, DeleteAuth, CallOther, Services
  <2>6. \A op \in {"provision", "decommission"} : Pending(op, d)' <=> Pending(op, d)
    <3>1. \/ background' = background
          \/ \E op : background' = background \union {[op |-> op, device |-> JobOf(w).device]}
      BY <1>3 DEF TaskStep, UpsertStatus, ProvisioningTasks, Provision, StartInBackground,
         PatchDevice, services, DeletionTasks, Delete, DeleteInventory, DeleteAuth, CallOther
    <3> QED BY <2>1, <3>1
  <2> QED BY <2>2, <2>3, <2>4, <2>5, <2>6
<1>4. ASSUME NEW b \in background, FinishInBackground(b) PROVE SameDevice(d)
  <2>1. b.device # d
    BY <1>4 DEF DeviceStep
  <2> QED BY <1>t, <1>4, <2>1 DEF FinishInBackground, history, Services
<1>5. ASSUME NEW w \in Workers, Takes(w) \/ BrokenCall(w) \/ ServerError(w) \/ Drops(w)
      PROVE  SameDevice(d)
  BY <1>5, OthersKeepAuth DEF Takes, Fetch, BrokenCall, NoAnswer, ServerError, Drops, Acknowledge, LoseAcknowledgement,
              LoseWatch, Crash, services, history
<1>6. CASE Submits
  BY <1>6 DEF Submits, SubmitJob, LoseSubmission, services, history
<1>7. CASE (\E n \in 1..NumJobs : Redeliver(n)) \/ UNCHANGED vars
  BY <1>7 DEF Redeliver, services, history, vars
<1> QED BY <1>1, <1>2, <1>3, <1>4, <1>5, <1>6, <1>7, Steps

---------------------------------------------------------------------------
(* Where the workers are.                                                  *)

\* An answer that is tolerated takes a worker to its next task; another one lets
\* it repeat its task or give up; no answer is an error of the job.
LEMMA RespondMoves ==
    ASSUME Inv, NEW w \in Workers, InTask(w), NEW answer, Respond(w, answer)
    PROVE  \/ JobOf(w) \in failed'
           \/ /\ UNCHANGED history
              /\ IF answer \in Tolerated(TasksOf(w)[workers[w].task])
                   THEN workers'[w].task = workers[w].task + 1
                   ELSE workers'[w].task \in {workers[w].task, Len(TasksOf(w)) + 1}
<1>t. workers \in [Workers -> WorkerType] /\ workers[w] \in WorkerType
  BY DEF Inv, WorkersOK
<1>1. CASE NoAnswer(w)
  BY <1>1 DEF NoAnswer
<1>2. CASE Answer(w, answer) /\ UNCHANGED history
  <2> DEFINE me == workers[w]
  <2>1. CASE answer \in Tolerated(TasksOf(w)[me.task])
    BY <1>t, <1>2, <2>1 DEF Answer, WorkerType
  <2>2. CASE answer \notin Tolerated(TasksOf(w)[me.task]) /\ me.attempt < Retries
    BY <1>t, <1>2, <2>2 DEF Answer, WorkerType
  <2>3. CASE answer \notin Tolerated(TasksOf(w)[me.task]) /\ ~(me.attempt < Retries)
    BY <1>t, <1>2, <2>3 DEF Answer, WorkerType
  <2> QED BY <1>2, <2>1, <2>2, <2>3
<1> QED BY <1>1, <1>2 DEF Respond

\* Errors and crashes are not forgotten.
LEMMA HistoryGrows ==
    ASSUME [Next]_vars
    PROVE  failed \subseteq failed' /\ interrupted \subseteq interrupted'
<1>1. ASSUME NEW w \in Workers, TaskStep(w) PROVE failed \subseteq failed' /\ interrupted' = interrupted
  BY <1>1, TaskStepResponds DEF Respond, NoAnswer, history
<1>2. ASSUME NEW d \in Devices, \/ Writes(d) \/ DismissPreauthorized(d)
                               \/ \E r \in {0, NoRevision} : WriteAttributes(d, r)
      PROVE  failed' = failed /\ interrupted' = interrupted
  BY <1>2 DEF Writes, Register, ChangeStatus, RequestDecommission, DismissPreauthorized, history,
              WriteAttributes
<1>3. CASE Submits
  BY <1>3 DEF Submits, SubmitJob, LoseSubmission, history
<1>4. ASSUME NEW w \in Workers, Takes(w) \/ BrokenCall(w) \/ ServerError(w) \/ Drops(w)
      PROVE  failed \subseteq failed' /\ interrupted \subseteq interrupted'
  BY <1>4 DEF Takes, Fetch, BrokenCall, NoAnswer, ServerError, Drops, Acknowledge,
              LoseAcknowledgement, LoseWatch, Crash, history
<1>5. CASE (\E n \in 1..NumJobs : Redeliver(n)) \/ (\E b \in background : FinishInBackground(b))
           \/ UNCHANGED vars
  BY <1>5 DEF Redeliver, FinishInBackground, history, vars
<1> QED BY <1>1, <1>2, <1>3, <1>4, <1>5, Steps

\* The task at each position of the workflows.
LEMMA ProvisionPlaces ==
    ASSUME Inv, NEW w \in Workers, InTask(w), JobOf(w).workflow = "provision_device"
    PROVE  /\ workers[w].task \in 1..6 /\ Len(TasksOf(w)) = 6
           /\ TasksOf(w)[1] = "create_device_inventory"
           /\ TasksOf(w)[2] = "provision_deviceconnect"
           /\ TasksOf(w)[3] = "provision_deviceconfig"
           /\ TasksOf(w)[4] = "provision_iot-manager"
           /\ TasksOf(w)[5] = "provision_deviceauth"
           /\ TasksOf(w)[6] = "update_iot_manager_status"
<1>1. TasksOf(w) = ProvisionTasks
  BY DEF TasksOf, Tasks
<1>2. workers[w].task \in 1..Len(TasksOf(w)) + 1 /\ workers[w].task <= Len(TasksOf(w))
  BY DEF Inv, WorkersOK, InTask
<1> QED BY <1>1, <1>2, TaskCounts DEF ProvisionTasks

\* A change of the status is told in two tasks.
LEMMA StatusPlaces ==
    ASSUME Inv, NEW w \in Workers, InTask(w), JobOf(w).workflow = "update_device_status"
    PROVE  /\ workers[w].task \in 1..2 /\ Len(TasksOf(w)) = 2
           /\ TasksOf(w)[1] = "update_device_identity_inventory"
           /\ TasksOf(w)[2] = "update_azure_status"
<1>1. TasksOf(w) = StatusTasks
  BY DEF TasksOf, Tasks
<1>2. workers[w].task \in 1..Len(TasksOf(w)) + 1 /\ workers[w].task <= Len(TasksOf(w))
  BY DEF Inv, WorkersOK, InTask
<1> QED BY <1>1, <1>2, TaskCounts DEF StatusTasks

\* A decommissioning has six.
LEMMA DecommissionPlaces ==
    ASSUME Inv, NEW w \in Workers, InTask(w), JobOf(w).workflow = "decommission_device"
    PROVE  /\ workers[w].task \in 1..6 /\ Len(TasksOf(w)) = 6
           /\ TasksOf(w)[1] = "delete_device_deployments"
           /\ TasksOf(w)[2] = "delete_device_deviceconnect"
           /\ TasksOf(w)[3] = "delete_device_deviceconfig"
           /\ TasksOf(w)[4] = "delete_iot_device"
           /\ TasksOf(w)[5] = "delete_device_inventory"
           /\ TasksOf(w)[6] = "delete_device_auth"
<1>1. TasksOf(w) = DecommissionTasks
  BY DEF TasksOf, Tasks
<1>2. workers[w].task \in 1..Len(TasksOf(w)) + 1 /\ workers[w].task <= Len(TasksOf(w))
  BY DEF Inv, WorkersOK, InTask
<1> QED BY <1>1, <1>2, TaskCounts DEF DecommissionTasks

\* So each step of a job is the call of the task at its position.
ProvisioningStep(w) ==
    /\ JobOf(w).workflow = "provision_device" /\ Len(TasksOf(w)) = 6
    /\ \/ workers[w].task = 1 /\ UpsertStatus(w)
       \/ workers[w].task = 2 /\ Provision(w, "deviceconnect", "provision_deviceconnect")
       \/ workers[w].task = 3 /\ Provision(w, "deviceconfig", "provision_deviceconfig")
       \/ workers[w].task = 4 /\ StartInBackground(w, "provision", "provision_iot-manager")
       \/ workers[w].task = 5 /\ PatchDevice(w)
       \/ workers[w].task = 6 /\ CallOther(w)

StatusStep(w) ==
    /\ JobOf(w).workflow = "update_device_status" /\ Len(TasksOf(w)) = 2
    /\ \/ workers[w].task = 1 /\ UpsertStatus(w)
       \/ workers[w].task = 2 /\ CallOther(w)

DecommissioningStep(w) ==
    /\ JobOf(w).workflow = "decommission_device" /\ Len(TasksOf(w)) = 6
    /\ \/ workers[w].task = 1 /\ CallOther(w)
       \/ workers[w].task = 2 /\ Delete(w, "deviceconnect", "delete_device_deviceconnect")
       \/ workers[w].task = 3 /\ Delete(w, "deviceconfig", "delete_device_deviceconfig")
       \/ workers[w].task = 4 /\ StartInBackground(w, "decommission", "delete_iot_device")
       \/ workers[w].task = 5 /\ DeleteInventory(w)
       \/ workers[w].task = 6 /\ DeleteAuth(w)

\* A job knows one workflow, and a worker is at one of its tasks.
LEMMA TaskSteps ==
    ASSUME Inv, NEW w \in Workers, TaskStep(w)
    PROVE  /\ Working(w) /\ JobOf(w) \in JobType
           /\ ProvisioningStep(w) \/ StatusStep(w) \/ DecommissioningStep(w)
<1>1. InTask(w) /\ Working(w) /\ JobOf(w) \in JobType
  BY TaskStepResponds, WorkingJob DEF InTask
<1>2. JobOf(w).workflow \in {"provision_device", "update_device_status", "decommission_device"}
  BY <1>1 DEF JobType, Tasks
<1> DEFINE task == TasksOf(w)[workers[w].task]
<1>3. \/ UpsertStatus(w) /\ task \in {"create_device_inventory", "update_device_identity_inventory"}
      \/ /\ Provision(w, "deviceconnect", "provision_deviceconnect")
         /\ task = "provision_deviceconnect"
      \/ /\ Provision(w, "deviceconfig", "provision_deviceconfig")
         /\ task = "provision_deviceconfig"
      \/ /\ StartInBackground(w, "provision", "provision_iot-manager")
         /\ task = "provision_iot-manager"
      \/ PatchDevice(w) /\ task = "provision_deviceauth"
      \/ /\ Delete(w, "deviceconnect", "delete_device_deviceconnect")
         /\ task = "delete_device_deviceconnect"
      \/ /\ Delete(w, "deviceconfig", "delete_device_deviceconfig")
         /\ task = "delete_device_deviceconfig"
      \/ /\ StartInBackground(w, "decommission", "delete_iot_device")
         /\ task = "delete_iot_device"
      \/ DeleteInventory(w) /\ task = "delete_device_inventory"
      \/ DeleteAuth(w) /\ task = "delete_device_auth"
      \/ /\ CallOther(w)
         /\ task \in {"update_iot_manager_status", "update_azure_status",
                      "delete_device_deployments"}
  <2>1. CASE UpsertStatus(w)
    BY <2>1 DEF UpsertStatus, At
  <2>2. CASE ProvisioningTasks(w)
    BY <2>2 DEF ProvisioningTasks, Provision, StartInBackground, PatchDevice, At
  <2>3. CASE DeletionTasks(w)
    BY <2>3 DEF DeletionTasks, Delete, StartInBackground, DeleteInventory, DeleteAuth, At
  <2>4. CASE CallOther(w)
    BY <2>4 DEF CallOther, At
  <2> QED BY <2>1, <2>2, <2>3, <2>4 DEF TaskStep
<1>4. CASE JobOf(w).workflow = "provision_device"
  <2>0. workers[w].task \in 1..6 /\ Len(TasksOf(w)) = 6
    BY <1>1, <1>4, ProvisionPlaces
  <2>1. \/ workers[w].task = 1 /\ task = "create_device_inventory"
        \/ workers[w].task = 2 /\ task = "provision_deviceconnect"
        \/ workers[w].task = 3 /\ task = "provision_deviceconfig"
        \/ workers[w].task = 4 /\ task = "provision_iot-manager"
        \/ workers[w].task = 5 /\ task = "provision_deviceauth"
        \/ workers[w].task = 6 /\ task = "update_iot_manager_status"
    BY <1>1, <1>4, <2>0, ProvisionPlaces
  <2> HIDE DEF task
  <2>2. ProvisioningStep(w)
    BY <1>3, <1>4, <2>0, <2>1 DEF ProvisioningStep
  <2> QED BY <1>1, <2>2
<1>5. CASE JobOf(w).workflow = "update_device_status"
  <2>0. workers[w].task \in 1..2 /\ Len(TasksOf(w)) = 2
    BY <1>1, <1>5, StatusPlaces
  <2>1. \/ workers[w].task = 1 /\ task = "update_device_identity_inventory"
        \/ workers[w].task = 2 /\ task = "update_azure_status"
    BY <1>1, <1>5, <2>0, StatusPlaces
  <2> HIDE DEF task
  <2>2. StatusStep(w)
    BY <1>3, <1>5, <2>0, <2>1 DEF StatusStep
  <2> QED BY <1>1, <2>2
<1>6. CASE JobOf(w).workflow = "decommission_device"
  <2>0. workers[w].task \in 1..6 /\ Len(TasksOf(w)) = 6
    BY <1>1, <1>6, DecommissionPlaces
  <2>1. \/ workers[w].task = 1 /\ task = "delete_device_deployments"
        \/ workers[w].task = 2 /\ task = "delete_device_deviceconnect"
        \/ workers[w].task = 3 /\ task = "delete_device_deviceconfig"
        \/ workers[w].task = 4 /\ task = "delete_iot_device"
        \/ workers[w].task = 5 /\ task = "delete_device_inventory"
        \/ workers[w].task = 6 /\ task = "delete_device_auth"
    BY <1>1, <1>6, <2>0, DecommissionPlaces
  <2> HIDE DEF task
  <2>2. DecommissioningStep(w)
    BY <1>3, <1>6, <2>0, <2>1 DEF DecommissioningStep
  <2> QED BY <1>1, <2>2
<1> QED BY <1>2, <1>4, <1>5, <1>6

\* The inventory has something newer of the device than the job tells.
Conflict(w) ==
    /\ UpsertStatus(w) /\ inventory' = inventory
    /\ JobOf(w).status # "decommissioned"
    /\ inventory[JobOf(w).device].exists
    /\ ~Newer(inventory[JobOf(w).device], JobOf(w).revision)

\* A worker moves on to the next task, unless its job meets an error, is late,
\* or finds nothing to delete in deviceauth.
LEMMA TaskMoves ==
    ASSUME Inv, NEW w \in Workers, TaskStep(w)
    PROVE  \/ JobOf(w) \in failed'
           \/ UNCHANGED history /\ workers'[w].task = workers[w].task + 1
           \/ /\ UNCHANGED history
              /\ Conflict(w) \/ DeleteAuth(w)
              /\ workers'[w].task \in {workers[w].task, Len(TasksOf(w)) + 1}
<1> DEFINE Moved ==
      \/ JobOf(w) \in failed'
      \/ UNCHANGED history /\ workers'[w].task = workers[w].task + 1
<1>1. InTask(w) /\ Working(w) /\ JobOf(w) \in JobType
  BY TaskStepResponds, WorkingJob DEF InTask
<1>2. \A task : "done" \in Tolerated(task)
  BY DEF Tolerated
<1>3. Respond(w, "done") => Moved
  BY <1>1, <1>2, RespondMoves
<1>4. Conflict(w) /\ Respond(w, "conflict") =>
        \/ JobOf(w) \in failed'
        \/ UNCHANGED history /\ workers'[w].task = workers[w].task + 1
        \/ UNCHANGED history /\ workers'[w].task \in {workers[w].task, Len(TasksOf(w)) + 1}
  BY <1>1, RespondMoves
<1>5. CASE UpsertStatus(w)
  BY <1>3, <1>4, <1>5 DEF UpsertStatus, Conflict
<1>6. CASE Provision(w, "deviceconnect", "provision_deviceconnect")
  BY <1>3, <1>6 DEF Provision
<1>7. CASE Provision(w, "deviceconfig", "provision_deviceconfig")
  <2>1. TasksOf(w)[workers[w].task] = "provision_deviceconfig"
    BY <1>7 DEF Provision, At
  <2>2. Respond(w, "exists") => Moved
    BY <1>1, <2>1, RespondMoves DEF Tolerated
  <2> QED BY <1>3, <1>7, <2>2 DEF Provision
<1>8. CASE \E op, task : StartInBackground(w, op, task)
  BY <1>3, <1>8 DEF StartInBackground
<1>9. CASE PatchDevice(w)
  <2>1. TasksOf(w)[workers[w].task] = "provision_deviceauth"
    BY <1>9 DEF PatchDevice, At
  <2>2. Respond(w, "missing") => Moved
    BY <1>1, <2>1, RespondMoves DEF Tolerated
  <2> QED BY <1>3, <1>9, <2>2 DEF PatchDevice
<1>10. ASSUME NEW service, NEW task \in {"delete_device_deviceconnect", "delete_device_deviceconfig"},
              Delete(w, service, task)
       PROVE  Moved
  <2>1. TasksOf(w)[workers[w].task] = task
    BY <1>10 DEF Delete, At
  <2>2. Respond(w, "missing") => Moved
    BY <1>1, <2>1, RespondMoves DEF Tolerated
  <2> QED BY <1>3, <1>10, <2>2 DEF Delete
<1>11. CASE DeleteInventory(w)
  BY <1>3, <1>11 DEF DeleteInventory
<1>12. CASE DeleteAuth(w)
  <2>1. Respond(w, "missing") =>
        \/ Moved
        \/ UNCHANGED history /\ workers'[w].task \in {workers[w].task, Len(TasksOf(w)) + 1}
    BY <1>1, RespondMoves
  <2> QED BY <1>3, <1>12, <2>1 DEF DeleteAuth
<1>13. CASE CallOther(w)
  BY <1>3, <1>13 DEF CallOther
<1> QED BY <1>5, <1>6, <1>7, <1>8, <1>9, <1>10, <1>11, <1>12, <1>13
        DEF TaskStep, ProvisioningTasks, DeletionTasks

\* Errors are answers that no task tolerates.
LEMMA ServerErrorMoves ==
    ASSUME Inv, NEW w \in Workers, ServerError(w)
    PROVE  workers'[w].task = workers[w].task \/ JobOf(w) \in failed'
<1> DEFINE me == workers[w]
<1>1. \A task : "error" \notin Tolerated(task)
  BY DEF Tolerated
<1>2. workers \in [Workers -> WorkerType] /\ me \in WorkerType
  BY DEF Inv, WorkersOK
<1>3. CASE me.attempt < Retries
  BY <1>1, <1>2, <1>3 DEF ServerError, Answer, WorkerType
<1>4. CASE ~(me.attempt < Retries)
  BY <1>4 DEF ServerError
<1> QED BY <1>3, <1>4

\* A worker has the job it had and is at the same task, or did its task, or met
\* an error; or it has begun a job that the queue had.
LEMMA WorkerFate ==
    ASSUME Inv, [Next]_vars, NEW v \in Workers, Working(v)'
    PROVE  \/ /\ Working(v) /\ JobOf(v)' = JobOf(v) /\ TasksOf(v)' = TasksOf(v)
              /\ \/ TaskStep(v) \/ workers'[v].task = workers[v].task \/ JobOf(v) \in failed'
           \/ \E n \in DOMAIN jobs :
                 /\ ~Working(v) /\ JobOf(v)' = jobs[n].job /\ jobs[n].state # "gone"
                 /\ workers'[v].task = 1
<1> DEFINE Same == Working(v) /\ JobOf(v)' = JobOf(v) /\ TasksOf(v)' = TasksOf(v)
<1>k. JobsKept /\ jobs \in Seq(QueuedType)
  BY QueueStep DEF Inv, QueueOK
<1>t. workers \in [Workers -> WorkerType]
  BY DEF Inv, WorkersOK
<1>a. workers'[v].n = workers[v].n => Same
  <2> SUFFICES ASSUME workers'[v].n = workers[v].n PROVE Same
    OBVIOUS
  <2>1. Working(v)
    BY DEF Working
  <2>2. workers[v].n \in DOMAIN jobs
    BY <2>1 DEF Inv, WorkersOK
  <2>3. JobOf(v)' = JobOf(v)
    BY <1>k, <2>2 DEF JobsKept, JobOf
  <2> QED BY <2>1, <2>3 DEF TasksOf
<1>1. CASE workers'[v] = workers[v]
  BY <1>1, <1>a
<1>2. ASSUME NEW w \in Workers, TaskStep(w)
      PROVE  Same /\ (TaskStep(v) \/ workers'[v].task = workers[v].task)
  <2>1. GoesOn(w)
    BY <1>2, TaskStepGoesOn
  <2>2. CASE v = w
    BY <1>2, <1>a, <2>1, <2>2 DEF GoesOn
  <2>3. CASE v # w
    BY <1>a, <2>1, <2>3 DEF GoesOn
  <2> QED BY <2>2, <2>3
<1>3. ASSUME NEW w \in Workers, BrokenCall(w) \/ ServerError(w)
      PROVE  Same /\ (workers'[v].task = workers[v].task \/ JobOf(v) \in failed')
  <2>1. GoesOn(w)
    BY <1>3, AnswerGoesOn, NoAnswerGoesOn DEF BrokenCall, ServerError
  <2>2. workers'[w].task = workers[w].task \/ JobOf(w) \in failed'
    BY <1>3, ServerErrorMoves DEF BrokenCall, NoAnswer
  <2>3. CASE v = w
    BY <1>a, <2>1, <2>2, <2>3 DEF GoesOn
  <2>4. CASE v # w
    BY <1>a, <2>1, <2>4 DEF GoesOn
  <2> QED BY <2>3, <2>4
<1>4. ASSUME NEW w \in Workers, Drops(w)
      PROVE  Same /\ workers'[v].task = workers[v].task
  <2>1. CASE v # w
    BY <1>t, <1>4, <1>a, <2>1 DEF Drops, Acknowledge, LoseAcknowledgement, LoseWatch, Crash
  <2>2. CASE v = w
    <3>1. LoseWatch(v)
      BY <1>t, <1>4, <2>2 DEF Drops, Acknowledge, LoseAcknowledgement, Crash, Idle, Working
    <3>2. workers[v] \in WorkerType
      BY <1>t
    <3>3. workers'[v].n = workers[v].n /\ workers'[v].task = workers[v].task
      BY <1>t, <3>1, <3>2 DEF LoseWatch, WorkerType
    <3> QED BY <1>a, <3>3
  <2> QED BY <2>1, <2>2
<1>5. ASSUME NEW w \in Workers, NEW n \in 1..NumJobs, Fetch(w, n)
      PROVE  \/ Same /\ workers'[v].task = workers[v].task
             \/ \E m \in DOMAIN jobs :
                 /\ ~Working(v) /\ JobOf(v)' = jobs[m].job /\ jobs[m].state # "gone"
                 /\ workers'[v].task = 1
  <2>1. CASE v # w
    BY <1>t, <1>5, <1>a, <2>1 DEF Fetch
  <2>2. CASE v = w
    <3>1. workers'[v] = [n |-> n, task |-> 1, attempt |-> 0, watched |-> TRUE]
      BY <1>t, <1>5, <2>2 DEF Fetch
    <3>2. n \in DOMAIN jobs /\ jobs[n].state # "gone" /\ ~Working(v)
      BY <1>5, <2>2 DEF Fetch
    <3>3. JobOf(v)' = jobs[n].job
      BY <1>k, <3>1, <3>2 DEF JobOf, JobsKept
    <3> QED BY <3>1, <3>2, <3>3
  <2> QED BY <2>1, <2>2
<1>6. ASSUME NEW d \in Devices, Writes(d) \/ DismissPreauthorized(d) PROVE workers' = workers
  BY <1>6 DEF Writes, Register, ChangeStatus, RequestDecommission, DismissPreauthorized
<1>7. CASE (\E d \in Devices : \E r \in {0, NoRevision} : WriteAttributes(d, r))
           \/ (\E b \in background : FinishInBackground(b)) \/ Submits
           \/ (\E n \in 1..NumJobs : Redeliver(n)) \/ UNCHANGED vars
  BY <1>1, <1>7 DEF WriteAttributes, FinishInBackground, Submits, SubmitJob, LoseSubmission, Redeliver, vars
<1> QED BY <1>1, <1>2, <1>3, <1>4, <1>5, <1>6, <1>7, Steps DEF Takes

\* A worker leaves a job when it is through with it, or by a crash.
LEMMA WorkerStays ==
    ASSUME Inv, [Next]_vars, NEW v \in Workers, Working(v)
    PROVE  \/ Working(v)' /\ JobOf(v)' = JobOf(v)
           \/ ~InTask(v) \/ JobOf(v) \in interrupted'
<1>k. JobsKept
  BY QueueStep
<1>t. workers \in [Workers -> WorkerType] /\ workers[v].n \in DOMAIN jobs
  BY DEF Inv, WorkersOK
<1>a. workers'[v].n = workers[v].n => Working(v)' /\ JobOf(v)' = JobOf(v)
  BY <1>k, <1>t DEF Working, JobsKept, JobOf
<1>1. CASE workers'[v] = workers[v]
  BY <1>1, <1>a
<1>2. ASSUME NEW w \in Workers, InTask(w), GoesOn(w) PROVE workers'[v].n = workers[v].n
  BY <1>2 DEF GoesOn
<1>3. ASSUME NEW w \in Workers, TaskStep(w) PROVE workers'[v].n = workers[v].n
  BY <1>2, <1>3, TaskStepResponds, TaskStepGoesOn
<1>4. ASSUME NEW w \in Workers, BrokenCall(w) \/ ServerError(w) PROVE workers'[v].n = workers[v].n
  BY <1>2, <1>4, AnswerGoesOn, NoAnswerGoesOn DEF BrokenCall, ServerError
<1>5. ASSUME NEW w \in Workers, Drops(w)
      PROVE  workers'[v].n = workers[v].n \/ ~InTask(v) \/ JobOf(v) \in interrupted'
  <2>1. CASE v # w
    BY <1>t, <1>5, <2>1 DEF Drops, Acknowledge, LoseAcknowledgement, LoseWatch, Crash
  <2>2. CASE v = w
    <3>1. workers[v] \in WorkerType
      BY <1>t
    <3> QED BY <1>t, <1>5, <2>2, <3>1 DEF Drops, Acknowledge, LoseAcknowledgement, LoseWatch, Crash,
                                        WorkerType
  <2> QED BY <2>1, <2>2
<1>6. ASSUME NEW w \in Workers, Takes(w) PROVE workers'[v].n = workers[v].n
  BY <1>t, <1>6 DEF Takes, Fetch
<1>7. ASSUME NEW d \in Devices, Writes(d) \/ DismissPreauthorized(d) PROVE workers' = workers
  BY <1>7 DEF Writes, Register, ChangeStatus, RequestDecommission, DismissPreauthorized
<1>8. CASE (\E d \in Devices : \E r \in {0, NoRevision} : WriteAttributes(d, r))
           \/ (\E b \in background : FinishInBackground(b)) \/ Submits
           \/ (\E n \in 1..NumJobs : Redeliver(n)) \/ UNCHANGED vars
  BY <1>1, <1>8 DEF WriteAttributes, FinishInBackground, Submits, SubmitJob, LoseSubmission, Redeliver, vars
<1> QED BY <1>1, <1>3, <1>4, <1>5, <1>6, <1>7, <1>8, <1>a, Steps

---------------------------------------------------------------------------
(* Where the jobs are.                                                     *)

\* What deviceauth announces with a step about a device.
Announces(d, job) ==
    \/ /\ Register(d, "preauthorized")
       /\ job = Announcement("update_device_status", d, "preauthorized", 1)
    \/ \E st \in {"pending", "accepted", "rejected"} :
         /\ ChangeStatus(d, st)
         /\ job = Announcement(WorkflowFor(d, st), d, st, Len(auth[d].log) + 1)
    \/ /\ RequestDecommission(d)
       /\ job = Announcement("decommission_device", d, Status(d), Len(auth[d].log) + 1)
    \/ /\ DismissPreauthorized(d)
       /\ job = Announcement("update_device_status", d, "decommissioned", 0)

\* Jobs come into the queue by an announcement.
LEMMA JobsCome ==
    ASSUME Inv, [Next]_vars, NEW job
    PROVE  /\ Live(job)' => Live(job) \/ \E d \in Devices : Announces(d, job)
           /\ Queued(job)' => Queued(job) \/ \E d \in Devices : Announces(d, job)
<1> USE DEF Live, Queued
<1>u. jobs \in Seq(QueuedType) /\ DOMAIN jobs = 1..Len(jobs) /\ Len(jobs) \in Nat
  BY DEF Inv, QueueOK
<1>1. CASE UNCHANGED <<unsent, jobs>>
  BY <1>1
<1>2. ASSUME NEW d \in Devices, Writes(d) \/ DismissPreauthorized(d)
      PROVE  jobs' = jobs /\ (job \in unsent' => job \in unsent \/ Announces(d, job))
  <2>1. ASSUME NEW st \in {"noauth", "preauthorized"}, Register(d, st)
        PROVE  jobs' = jobs /\ (job \in unsent' => job \in unsent \/ Announces(d, job))
    BY <2>1 DEF Register, Announces
  <2>2. ASSUME NEW st \in {"pending", "accepted", "rejected"}, ChangeStatus(d, st)
        PROVE  jobs' = jobs /\ (job \in unsent' => job \in unsent \/ Announces(d, job))
    BY <2>2 DEF ChangeStatus, Announces
  <2>3. CASE RequestDecommission(d)
    BY <2>3 DEF RequestDecommission, Announces
  <2>4. CASE DismissPreauthorized(d)
    BY <2>4 DEF DismissPreauthorized, Announces
  <2> QED BY <1>2, <2>1, <2>2, <2>3, <2>4 DEF Writes
<1>3. ASSUME NEW new \in unsent, SubmitJob(new)
      PROVE  (Live(job)' => Live(job)) /\ (Queued(job)' => Queued(job))
  <2>1. new \in JobType /\ [job |-> new, state |-> "new"] \in QueuedType
    BY <1>3 DEF Inv, QueueOK, QueuedType, QueueStates
  <2>2. /\ Len(jobs') = Len(jobs) + 1 /\ jobs'[Len(jobs) + 1] = [job |-> new, state |-> "new"]
        /\ \A n \in 1..Len(jobs) : jobs'[n] = jobs[n]
        /\ DOMAIN jobs' = 1..Len(jobs) + 1
    BY <1>u, <1>3, <2>1, AppendProperties DEF SubmitJob
  <2>3. \A n \in DOMAIN jobs' : n \in DOMAIN jobs \/ n = Len(jobs) + 1
    BY <1>u, <2>2
  <2> QED BY <1>u, <1>3, <2>2, <2>3 DEF SubmitJob
<1>4. ASSUME NEW new \in unsent, LoseSubmission(new)
      PROVE  (Live(job)' => Live(job)) /\ (Queued(job)' => Queued(job))
  BY <1>4 DEF LoseSubmission
<1>5. ASSUME NEW n \in DOMAIN jobs, NEW state, jobs[n].state # "gone" \/ state = "gone",
             unsent' = unsent, jobs' = [jobs EXCEPT ![n].state = state]
      PROVE  (Live(job)' => Live(job)) /\ (Queued(job)' => Queued(job))
  <2>1. DOMAIN jobs' = DOMAIN jobs /\ \A m \in DOMAIN jobs : m # n => jobs'[m] = jobs[m]
    BY <1>u, <1>5
  <2>2. jobs[n] \in QueuedType
    BY <1>u
  <2>3. jobs'[n].job = jobs[n].job /\ jobs'[n].state = state
    BY <1>u, <1>5, <2>2 DEF QueuedType
  <2> QED BY <1>5, <2>1, <2>3
<1>6. ASSUME NEW w \in Workers, Takes(w)
      PROVE  (Live(job)' => Live(job)) /\ (Queued(job)' => Queued(job))
  BY <1>5, <1>6 DEF Takes, Fetch
<1>7. ASSUME NEW n \in 1..NumJobs, Redeliver(n)
      PROVE  (Live(job)' => Live(job)) /\ (Queued(job)' => Queued(job))
  BY <1>5, <1>7 DEF Redeliver
<1>8. ASSUME NEW w \in Workers, Drops(w)
      PROVE  (Live(job)' => Live(job)) /\ (Queued(job)' => Queued(job))
  <2>1. CASE Acknowledge(w)
    BY <1>5, <2>1 DEF Acknowledge, Inv, WorkersOK
  <2> QED BY <1>1, <1>8, <2>1 DEF Drops, LoseAcknowledgement, LoseWatch, Crash
<1>9. ASSUME NEW w \in Workers, TaskStep(w) \/ BrokenCall(w) \/ ServerError(w)
      PROVE  UNCHANGED <<unsent, jobs>>
  BY <1>9, TaskStepGoesOn DEF BrokenCall, ServerError
<1>10. CASE (\E d \in Devices : \E r \in {0, NoRevision} : WriteAttributes(d, r))
            \/ (\E b \in background : FinishInBackground(b)) \/ UNCHANGED vars
  BY <1>1, <1>10 DEF WriteAttributes, FinishInBackground, vars
<1> QED BY <1>1, <1>2, <1>3, <1>4, <1>6, <1>7, <1>8, <1>9, <1>10, Steps DEF Submits

\* Jobs leave the queue by an error or an acknowledgement.
LEMMA JobsGo ==
    ASSUME Inv, [Next]_vars, NEW job, Live(job)
    PROVE  \/ Live(job)' \/ job \in failed'
           \/ \E w \in Workers : Acknowledge(w) /\ JobOf(w) = job
<1> USE DEF Live
<1>u. jobs \in Seq(QueuedType) /\ DOMAIN jobs = 1..Len(jobs) /\ Len(jobs) \in Nat
  BY DEF Inv, QueueOK
<1>1. CASE unsent \subseteq unsent' /\ jobs' = jobs
  BY <1>1
<1>2. ASSUME NEW d \in Devices, Writes(d) \/ DismissPreauthorized(d)
      PROVE  unsent \subseteq unsent' /\ jobs' = jobs
  BY <1>2, WritesAnnounce
<1>3. ASSUME NEW new \in unsent, SubmitJob(new)
      PROVE  Live(job)'
  <2>1. new \in JobType /\ [job |-> new, state |-> "new"] \in QueuedType
    BY <1>3 DEF Inv, QueueOK, QueuedType, QueueStates
  <2>2. /\ Len(jobs') = Len(jobs) + 1 /\ jobs'[Len(jobs) + 1] = [job |-> new, state |-> "new"]
        /\ \A n \in 1..Len(jobs) : jobs'[n] = jobs[n]
        /\ DOMAIN jobs' = 1..Len(jobs) + 1
    BY <1>u, <1>3, <2>1, AppendProperties DEF SubmitJob
  <2>3. Len(jobs) + 1 \in DOMAIN jobs' /\ \A n \in DOMAIN jobs : n \in DOMAIN jobs'
    BY <1>u, <2>2
  <2>4. CASE job = new
    BY <2>2, <2>3, <2>4
  <2>5. CASE job # new
    BY <1>u, <1>3, <2>2, <2>3, <2>5 DEF SubmitJob
  <2> QED BY <2>4, <2>5
<1>4. ASSUME NEW new \in unsent, LoseSubmission(new)
      PROVE  Live(job)' \/ job \in failed'
  BY <1>4 DEF LoseSubmission
<1>5. ASSUME NEW n \in DOMAIN jobs, NEW state,
             unsent' = unsent, jobs' = [jobs EXCEPT ![n].state = state]
      PROVE  Live(job)' \/ (state = "gone" /\ job = jobs[n].job)
  <2>1. DOMAIN jobs' = DOMAIN jobs /\ \A m \in DOMAIN jobs : m # n => jobs'[m] = jobs[m]
    BY <1>u, <1>5
  <2>2. jobs[n] \in QueuedType
    BY <1>u
  <2>3. jobs'[n].job = jobs[n].job /\ jobs'[n].state = state
    BY <1>u, <1>5, <2>2 DEF QueuedType
  <2> QED BY <1>5, <2>1, <2>3
<1>6. ASSUME NEW w \in Workers, Takes(w) PROVE Live(job)'
  BY <1>5, <1>6 DEF Takes, Fetch
<1>7. ASSUME NEW n \in 1..NumJobs, Redeliver(n) PROVE Live(job)'
  BY <1>5, <1>7 DEF Redeliver
<1>8. ASSUME NEW w \in Workers, Drops(w)
      PROVE  Live(job)' \/ (Acknowledge(w) /\ JobOf(w) = job)
  <2>1. CASE Acknowledge(w)
    BY <1>5, <2>1 DEF Acknowledge, Inv, WorkersOK, JobOf
  <2> QED BY <1>1, <1>8, <2>1 DEF Drops, LoseAcknowledgement, LoseWatch, Crash
<1>9. ASSUME NEW w \in Workers, TaskStep(w) \/ BrokenCall(w) \/ ServerError(w)
      PROVE  UNCHANGED <<unsent, jobs>>
  BY <1>9, TaskStepGoesOn DEF BrokenCall, ServerError
<1>10. CASE (\E d \in Devices : \E r \in {0, NoRevision} : WriteAttributes(d, r))
            \/ (\E b \in background : FinishInBackground(b)) \/ UNCHANGED vars
  BY <1>1, <1>10 DEF WriteAttributes, FinishInBackground, vars
<1> QED BY <1>1, <1>2, <1>3, <1>4, <1>6, <1>7, <1>8, <1>9, <1>10, Steps DEF Submits

\* The job of a worker is queued, and a job that a worker begins is live.
LEMMA WorkersQueued ==
    ASSUME Inv, NEW w \in Workers, Working(w)
    PROVE  Queued(JobOf(w)) /\ JobOf(w) \in JobType
BY WorkingJob DEF Inv, WorkersOK, Queued, JobOf

\* Live jobs are queued, and queued jobs are jobs.
LEMMA QueuedJobs ==
    ASSUME Inv, NEW job
    PROVE  (Live(job) => Queued(job)) /\ (Queued(job) => job \in JobType)
<1>1. \A n \in DOMAIN jobs : jobs[n] \in QueuedType
  BY DEF Inv, QueueOK
<1> QED BY <1>1 DEF Inv, QueueOK, Live, Queued, QueuedType

---------------------------------------------------------------------------
(* The history of a device.                                                *)

\* A device without a status of its own, or preauthorized: nobody knows it yet.
Fresh(d) == auth[d].log = << >> \/ Status(d) \in {"noauth", "preauthorized"}

Latest(d, r) == r \in Given(d) /\ \A q \in Given(d) : q <= r

\* What is written to deviceauth.
Changeable == {"pending", "accepted", "rejected"}

LogStep(d, e) ==
    /\ auth'[d].log = Append(auth[d].log, e)
    /\ \/ \E st \in {"noauth", "preauthorized"} :
            /\ Register(d, st) /\ auth[d].log = << >>
            /\ e = Entry(st, st = "preauthorized")
       \/ \E st \in Changeable : ChangeStatus(d, st) /\ e = Entry(st, TRUE)
       \/ e = Entry(Status(d), FALSE) /\ Current(d)

\* The history of a device grows by one entry, or stays.
LEMMA LogSteps ==
    ASSUME Inv, [Next]_vars, NEW d \in Devices
    PROVE  auth'[d].log = auth[d].log \/ \E e \in EntryType : LogStep(d, e)
<1> USE DEF LogStep
<1>t. AuthOK /\ auth \in [Devices -> AuthType] /\ auth[d] \in AuthType /\ auth[d].log \in Seq(EntryType)
  BY DEF Inv, AuthOK, AuthType
<1>1. ASSUME NEW st \in {"noauth", "preauthorized"}, Register(d, st)
      PROVE  \E e \in EntryType : LogStep(d, e)
  <2> DEFINE e == Entry(st, st = "preauthorized")
  <2>1. e \in EntryType
    BY DEF Entry, Statuses, EntryType
  <2>2. auth[d].log = << >> /\ auth'[d].log = <<e>>
    BY <1>t, <1>1 DEF Register, AuthType
  <2>3. <<e>> = Append(auth[d].log, e)
    BY <2>1, <2>2
  <2> QED BY <1>1, <2>1, <2>2, <2>3
<1>2. ASSUME NEW st \in Changeable, ChangeStatus(d, st)
      PROVE  \E e \in EntryType : LogStep(d, e)
  <2> DEFINE e == Entry(st, TRUE)
  <2>1. e \in EntryType
    BY DEF Entry, Statuses, EntryType, Changeable
  <2>2. auth'[d].log = Append(auth[d].log, e)
    BY <1>t, <1>2 DEF ChangeStatus, AuthType
  <2> QED BY <1>2, <2>1, <2>2
<1>3. CASE RequestDecommission(d)
  <2> DEFINE e == Entry(Status(d), FALSE)
  <2>1. e \in EntryType
    BY <1>3, <1>t, StatusKnown DEF Entry, EntryType, RequestDecommission
  <2>2. auth'[d].log = Append(auth[d].log, e) /\ Current(d)
    BY <1>t, <1>3 DEF RequestDecommission, AuthType
  <2> QED BY <2>1, <2>2
<1>4. ASSUME NEW w \in Workers, PatchDevice(w), JobOf(w).device = d
      PROVE  auth'[d].log = auth[d].log \/ \E e \in EntryType : LogStep(d, e)
  <2> DEFINE e == Entry(Status(d), FALSE)
  <2>1. CASE Current(d)
    <3>1. e \in EntryType
      BY <1>t, <2>1, StatusKnown DEF Entry, EntryType
    <3>2. auth'[d].log = Append(auth[d].log, e)
      BY <1>t, <1>4, <2>1 DEF PatchDevice, AuthType
    <3> QED BY <2>1, <3>1, <3>2
  <2> QED BY <1>4, <2>1 DEF PatchDevice
<1>5. CASE DismissPreauthorized(d) \/ \E w \in Workers : DeleteAuth(w) /\ JobOf(w).device = d
  <2>1. auth' = [auth EXCEPT ![d].present = FALSE]
    BY <1>5, DeletesKeep DEF Deletes
  <2> QED BY <1>t, <2>1 DEF AuthType
<1>6. ASSUME NEW b \in Devices, b # d, AuthStepOf(b)
      PROVE  auth'[d] = auth[d]
  <2>1. CASE Deletes(b)
    BY <1>t, <1>6, <2>1, DeletesKeep
  <2>2. CASE ~Deletes(b)
    BY <1>t, <1>6, <2>2, WritesAppend DEF AuthStepOf
  <2> QED BY <2>1, <2>2
<1> QED BY <1>1, <1>2, <1>3, <1>4, <1>5, <1>6, AuthChanges DEF AuthStepOf, Writes, Deletes, Changeable

\* The entry that is added.
LEMMA LogAppended ==
    ASSUME Inv, NEW d \in Devices, NEW e \in EntryType, LogStep(d, e)
    PROVE  /\ Len(auth'[d].log) = Len(auth[d].log) + 1 /\ Len(auth[d].log) \in Nat
           /\ auth'[d].log # << >>
           /\ Status(d)' = e.status
           /\ \A r : r = Len(auth[d].log) + 1 => StatusAt(d, r)' = e.status
           /\ \A r \in Revisions(d) : StatusAt(d, r)' = StatusAt(d, r)
           /\ \A r : r \in Given(d)' <=>
                       r \in Given(d) \/ (e.told /\ r = Len(auth[d].log) + 1)
<1> DEFINE log == auth[d].log
<1> DEFINE n == Len(log) + 1
<1>1. log \in Seq(EntryType) /\ Len(log) \in Nat
  BY DEF Inv, AuthOK, AuthType
<1>2. auth'[d].log = Append(log, e)
  BY DEF LogStep
<1>3. /\ Len(Append(log, e)) = n /\ Append(log, e)[n] = e
      /\ \A r \in 1..Len(log) : Append(log, e)[r] = log[r]
      /\ Append(log, e) # << >>
  BY <1>1, AppendProperties
<1>4. \A r \in 1..n : r \in 1..Len(log) \/ r = n
  BY <1>1
<1>5. n \in 1..n /\ (\A r \in 1..Len(log) : r \in 1..n)
  BY <1>1
<1>6. Status(d)' = e.status
  BY <1>2, <1>3 DEF Status, LastOf
<1>7. /\ \A r : r = n => StatusAt(d, r)' = e.status
      /\ \A r \in Revisions(d) : StatusAt(d, r)' = StatusAt(d, r)
  BY <1>2, <1>3 DEF StatusAt, Revisions
<1>8. \A r : r \in Given(d)' <=> r \in 1..n /\ Append(log, e)[r].told
  BY <1>2, <1>3 DEF Given
<1>9. \A r : r \in Given(d) <=> r \in 1..Len(log) /\ log[r].told
  BY DEF Given
<1> HIDE DEF log, n
<1>10. \A r : r \in Given(d)' <=> r \in Given(d) \/ (e.told /\ r = n)
  BY <1>3, <1>4, <1>5, <1>8, <1>9
<1> QED BY <1>1, <1>2, <1>3, <1>6, <1>7, <1>10 DEF log, n

\* A history that stays shows the same.
LEMMA LogStays ==
    ASSUME NEW d \in Devices, auth'[d].log = auth[d].log
    PROVE  /\ Status(d)' = Status(d) /\ Given(d)' = Given(d) /\ Revisions(d)' = Revisions(d)
           /\ \A r : StatusAt(d, r)' = StatusAt(d, r)
           /\ Fresh(d)' <=> Fresh(d)
BY DEF Status, LastOf, Given, Revisions, StatusAt, Fresh

\* What was announced stays announced.
LEMMA GivenKept ==
    ASSUME Inv, [Next]_vars, NEW d \in Devices
    PROVE  /\ Given(d) \subseteq Revisions(d)
           /\ \A r \in Given(d) : r \in Given(d)' /\ StatusAt(d, r)' = StatusAt(d, r)
<1>1. Given(d) \subseteq Revisions(d)
  BY DEF Given, Revisions
<1>2. CASE auth'[d].log = auth[d].log
  BY <1>1, <1>2, LogStays
<1>3. ASSUME NEW e \in EntryType, LogStep(d, e)
      PROVE  \A r \in Given(d) : r \in Given(d)' /\ StatusAt(d, r)' = StatusAt(d, r)
  BY <1>1, <1>3, LogAppended
<1> QED BY <1>1, <1>2, <1>3, LogSteps

\* Devices stay provisioned, and in their decommissioning; a device that is gone
\* does not come back, and nothing is added to its history.
LEMMA AuthStays ==
    ASSUME Inv, [Next]_vars, NEW d \in Devices
    PROVE  /\ auth[d].provisioned => auth'[d].provisioned
           /\ auth[d].decommissioning => auth'[d].decommissioning
           /\ auth[d].log # << >> => auth'[d].log # << >>
           /\ auth[d].log # << >> /\ ~Current(d) => ~Current(d)' /\ auth'[d].log = auth[d].log
           /\ Fresh(d)' => Fresh(d)
<1>t. auth \in [Devices -> AuthType] /\ auth[d] \in AuthType /\ AuthOK
  BY DEF Inv, AuthOK
<1>1. auth[d].log # << >> => auth'[d].log # << >>
  BY LogSteps, LogAppended
<1>2. Fresh(d)' => Fresh(d)
  <2>1. CASE auth'[d].log = auth[d].log
    BY <2>1, LogStays
  <2>2. ASSUME NEW e \in EntryType, LogStep(d, e), Fresh(d)' PROVE Fresh(d)
    <3>1. e.status \in {"noauth", "preauthorized"}
      BY <2>2, LogAppended DEF Fresh
    <3>2. ASSUME NEW st \in Changeable, e = Entry(st, TRUE) PROVE FALSE
      BY <3>1, <3>2 DEF Entry, Changeable
    <3> QED BY <2>2, <3>1, <3>2 DEF LogStep, Fresh, Entry
  <2> QED BY <2>1, <2>2, LogSteps
<1>3. CASE auth'[d] = auth[d]
  BY <1>1, <1>2, <1>3 DEF Current
<1>4. ASSUME NEW st \in {"noauth", "preauthorized"}, Register(d, st)
      PROVE  /\ auth[d].provisioned => auth'[d].provisioned
             /\ auth[d].decommissioning => auth'[d].decommissioning
             /\ auth[d].log = << >>
  BY <1>t, <1>4 DEF Register, AuthType
<1>5. ASSUME NEW st \in Changeable, ChangeStatus(d, st)
      PROVE  /\ auth[d].provisioned => auth'[d].provisioned
             /\ auth[d].decommissioning => auth'[d].decommissioning
             /\ Current(d)
  BY <1>t, <1>5 DEF ChangeStatus, AuthType
<1>6. CASE RequestDecommission(d)
  <2>1. /\ auth[d].provisioned => auth'[d].provisioned
        /\ auth[d].decommissioning => auth'[d].decommissioning
        /\ Current(d)
    BY <1>t, <1>6 DEF RequestDecommission, AuthType
  <2> QED BY <1>1, <1>2, <2>1
<1>7. ASSUME NEW w \in Workers, PatchDevice(w), JobOf(w).device = d
      PROVE  /\ auth[d].provisioned => auth'[d].provisioned
             /\ auth[d].decommissioning => auth'[d].decommissioning
             /\ Current(d) \/ auth' = auth
  BY <1>t, <1>7 DEF PatchDevice, AuthType
<1>8. CASE Deletes(d)
  <2>1. auth' = [auth EXCEPT ![d].present = FALSE]
    BY <1>8, DeletesKeep
  <2>2. /\ auth'[d].provisioned = auth[d].provisioned /\ auth'[d].log = auth[d].log
        /\ auth'[d].decommissioning = auth[d].decommissioning /\ ~auth'[d].present
    BY <1>t, <2>1 DEF AuthType
  <2> QED BY <1>1, <1>2, <2>2 DEF Current
<1>9. ASSUME NEW b \in Devices, b # d, AuthStepOf(b)
      PROVE  auth'[d] = auth[d]
  <2>1. CASE Deletes(b)
    BY <1>t, <1>9, <2>1, DeletesKeep
  <2>2. CASE ~Deletes(b)
    BY <1>t, <1>9, <2>2, WritesAppend DEF AuthStepOf
  <2> QED BY <2>1, <2>2
<1> QED BY <1>1, <1>2, <1>3, <1>4, <1>5, <1>6, <1>7, <1>8, <1>9, AuthChanges
        DEF AuthStepOf, Writes, Changeable

---------------------------------------------------------------------------
(* What the parts of the system know of a device, in agreement.            *)

\* The status of a device is the latest it announced, or none.
LogOK(d) ==
    /\ auth[d].decommissioning \/ auth[d].provisioned => auth[d].log # << >>
    /\ auth[d].log # << >> =>
         \/ Given(d) = {} /\ Status(d) = "noauth"
         \/ \E r \in Given(d) : Latest(d, r) /\ StatusAt(d, r) = Status(d)

\* A job tells what was announced, and is one that the device gives a reason for.
JobOK(job) ==
    /\ Telling(job) =>
         job.revision \in Given(job.device) /\ StatusAt(job.device, job.revision) = job.status
    /\ job.workflow = "decommission_device" => auth[job.device].decommissioning
    /\ job.status = "decommissioned" =>
         /\ job.workflow = "update_device_status"
         /\ ~Current(job.device) /\ auth[job.device].log # << >> /\ Fresh(job.device)
    /\ job.workflow = "provision_device" => job.status = "accepted" /\ ~Fresh(job.device)
    /\ Telling(job) /\ job.status = "accepted" /\ job.workflow # "provision_device" =>
         auth[job.device].provisioned

\* The services know a device only after it was accepted.
KnownOK(d) ==
    /\ Fresh(d) => ~Pending("provision", d) /\ \A s \in Services : d \notin known[s]
    /\ Pending("decommission", d) => auth[d].decommissioning

\* The inventory shows what was announced.
ShownOK(d) ==
    inventory[d].revision > 0 =>
        /\ inventory[d].revision \in Given(d)
        /\ StatusAt(d, inventory[d].revision) = inventory[d].status

Agreement ==
    /\ \A d \in Devices : LogOK(d) /\ KnownOK(d) /\ ShownOK(d)
    /\ \A job : Queued(job) => JobOK(job)

\* At first there is nothing to agree on.
LEMMA AgreementInit == Init => Agreement
<1> SUFFICES ASSUME Init PROVE Agreement
  OBVIOUS
<1>1. \A job : ~Queued(job)
  BY DEF Init, Queued
<1>2. ASSUME NEW d \in Devices PROVE LogOK(d) /\ KnownOK(d) /\ ShownOK(d)
  BY DEF Init, LogOK, KnownOK, ShownOK, Pending, Missing
<1> QED BY <1>1, <1>2 DEF Agreement

\* The latest announcement gives the status, whatever is added to the history.
LEMMA LogOKStep ==
    ASSUME Inv, [Next]_vars, NEW d \in Devices, LogOK(d)
    PROVE  LogOK(d)'
<1>t. auth \in [Devices -> AuthType] /\ auth[d] \in AuthType /\ AuthOK
  BY DEF Inv, AuthOK
<1>1. auth'[d].decommissioning \/ auth'[d].provisioned => auth'[d].log # << >>
  <2>1. CASE /\ auth'[d].decommissioning = auth[d].decommissioning
             /\ auth'[d].provisioned = auth[d].provisioned
    BY <2>1, AuthStays DEF LogOK
  <2>2. CASE auth'[d].log # << >>
    BY <2>2
  <2>3. CASE auth'[d] = auth[d]
    BY <2>1, <2>3
  <2>4. ASSUME NEW b \in Devices, AuthStepOf(b), b # d PROVE auth'[d] = auth[d]
    <3>1. CASE Deletes(b)
      BY <1>t, <2>4, <3>1, DeletesKeep
    <3>2. CASE ~Deletes(b)
      BY <1>t, <2>4, <3>2, WritesAppend DEF AuthStepOf
    <3> QED BY <3>1, <3>2
  <2>5. CASE Deletes(d)
    <3>1. auth' = [auth EXCEPT ![d].present = FALSE]
      BY <2>5, DeletesKeep
    <3> QED BY <1>t, <2>1, <3>1 DEF AuthType
  <2>6. CASE \E e \in EntryType, new \in AuthType :
                auth' = [auth EXCEPT ![d] = new] /\ new.log = Append(auth[d].log, e)
    <3>1. PICK e \in EntryType, new \in AuthType :
                auth' = [auth EXCEPT ![d] = new] /\ new.log = Append(auth[d].log, e)
      BY <2>6
    <3>2. auth'[d].log = Append(auth[d].log, e) /\ auth[d].log \in Seq(EntryType)
      BY <1>t, <3>1 DEF AuthType
    <3> QED BY <2>2, <3>2, AppendProperties
  <2>7. ASSUME AuthStepOf(d), ~Deletes(d)
        PROVE  \/ auth' = auth
               \/ \E e \in EntryType, new \in AuthType :
                     auth' = [auth EXCEPT ![d] = new] /\ new.log = Append(auth[d].log, e)
    BY <2>7, WritesAppend DEF AuthStepOf, Inv
  <2> QED BY <2>3, <2>4, <2>5, <2>6, <2>7, AuthChanges
<1>2. CASE auth'[d].log = auth[d].log
  BY <1>1, <1>2, LogStays DEF LogOK, Latest
<1>3. ASSUME NEW e \in EntryType, LogStep(d, e) PROVE LogOK(d)'
  <2> PICK n : n = Len(auth[d].log) + 1
    OBVIOUS
  <2>a. /\ Status(d)' = e.status
        /\ StatusAt(d, n)' = e.status
        /\ \A r \in Revisions(d) : StatusAt(d, r)' = StatusAt(d, r)
        /\ \A r : r \in Given(d)' <=> r \in Given(d) \/ (e.told /\ r = n)
        /\ Given(d) \subseteq Revisions(d)
    BY <1>3, LogAppended, GivenKept
  <2>b. n \in Nat /\ \A r \in Revisions(d) : r <= n
    BY <1>3, LogAppended DEF Revisions
  <2>1. CASE e.told
    <3>1. n \in Given(d)' /\ StatusAt(d, n)' = Status(d)'
      BY <2>1, <2>a
    <3>2. \A q \in Given(d)' : q <= n
      BY <2>a, <2>b
    <3>3. Latest(d, n)'
      BY <3>1, <3>2 DEF Latest
    <3> QED BY <1>1, <3>1, <3>3 DEF LogOK
  <2>2. CASE ~e.told
    <3>1. Given(d)' = Given(d)
      BY <2>2, <2>a
    <3>2. CASE auth[d].log = << >>
      <4>1. e.status = "noauth"
        <5>1. ~Current(d)
          BY <3>2 DEF Current, Inv, AuthOK
        <5>2. \A st : Entry(st, TRUE).told
          BY DEF Entry
        <5>3. ASSUME NEW st \in {"noauth", "preauthorized"}, e = Entry(st, st = "preauthorized")
              PROVE  e.status = "noauth"
          <6>1. CASE st = "preauthorized"
            BY <2>2, <5>2, <5>3, <6>1
          <6>2. CASE st = "noauth"
            BY <5>3, <6>2 DEF Entry
          <6> QED BY <6>1, <6>2
        <5> QED BY <1>3, <2>2, <5>1, <5>2, <5>3 DEF LogStep
      <4>2. Given(d) = {}
        BY <3>2 DEF Given
      <4> QED BY <1>1, <2>a, <3>1, <4>1, <4>2 DEF LogOK
    <3>3. CASE auth[d].log # << >>
      <4>1. e.status = Status(d)
        BY <1>3, <2>2, <3>3 DEF LogStep, Entry
      <4>2. CASE Given(d) = {} /\ Status(d) = "noauth"
        BY <1>1, <2>a, <3>1, <4>1, <4>2 DEF LogOK
      <4>3. CASE \E r \in Given(d) : Latest(d, r) /\ StatusAt(d, r) = Status(d)
        <5> PICK r \in Given(d) : Latest(d, r) /\ StatusAt(d, r) = Status(d)
          BY <4>3
        <5>1. r \in Given(d)' /\ Latest(d, r)' /\ StatusAt(d, r)' = Status(d)'
          BY <2>a, <3>1, <4>1 DEF Latest
        <5> QED BY <1>1, <5>1 DEF LogOK
      <4> QED BY <3>3, <4>2, <4>3 DEF LogOK
    <3> QED BY <3>2, <3>3
  <2> QED BY <2>1, <2>2
<1> QED BY <1>2, <1>3, LogSteps

\* A job that is queued stays right.
LEMMA JobKept ==
    ASSUME Inv, [Next]_vars, NEW job \in JobType, JobOK(job)
    PROVE  JobOK(job)'
<1>1. job.device \in Devices
  BY DEF JobType
<1>2. ~Current(job.device) /\ auth[job.device].log # << >> /\ Fresh(job.device) =>
        ~Current(job.device)' /\ auth'[job.device].log # << >> /\ Fresh(job.device)'
  BY <1>1, AuthStays, LogStays
<1>3. Telling(job)' <=> Telling(job)
  BY DEF Telling
<1> QED BY <1>1, <1>2, <1>3, GivenKept, AuthStays DEF JobOK

\* A job that is announced is right.
LEMMA JobAnnounced ==
    ASSUME Inv, [Next]_vars, NEW d \in Devices, NEW job, Announces(d, job)
    PROVE  JobOK(job)' /\ job.device = d
<1>t. auth \in [Devices -> AuthType] /\ auth[d] \in AuthType
  BY DEF Inv, AuthOK
<1> PICK n : n = Len(auth[d].log) + 1
  OBVIOUS
<1>1. CASE Register(d, "preauthorized") /\ job = Announcement("update_device_status", d, "preauthorized", 1)
  <2>1. auth'[d].log = <<Entry("preauthorized", TRUE)>>
    BY <1>t, <1>1 DEF Register, AuthType
  <2>2. 1 \in Given(d)' /\ StatusAt(d, 1)' = "preauthorized"
    BY <2>1 DEF Given, StatusAt, Entry
  <2>3. /\ job.device = d /\ job.revision = 1 /\ job.status = "preauthorized"
        /\ job.workflow = "update_device_status"
    BY <1>1 DEF Announcement
  <2> QED BY <2>2, <2>3 DEF JobOK
<1>2. ASSUME NEW st \in Changeable, ChangeStatus(d, st),
             job = Announcement(WorkflowFor(d, st), d, st, Len(auth[d].log) + 1)
      PROVE  JobOK(job)' /\ job.device = d
  <2>1. job.device = d /\ job.revision = n /\ job.status = st /\ job.workflow = WorkflowFor(d, st)
    BY <1>2 DEF Announcement
  <2>2. auth'[d].log = Append(auth[d].log, Entry(st, TRUE)) /\ auth'[d].provisioned = auth[d].provisioned
        /\ auth[d].log \in Seq(EntryType) /\ Entry(st, TRUE) \in EntryType
    BY <1>t, <1>2 DEF ChangeStatus, AuthType, Entry, EntryType, Statuses, Changeable
  <2>3. LogStep(d, Entry(st, TRUE))
    BY <1>2, <2>2 DEF LogStep
  <2>4. n \in Given(d)' /\ StatusAt(d, n)' = st /\ Status(d)' = st /\ auth'[d].log # << >>
    BY <2>2, <2>3, LogAppended DEF Entry
  <2>5. ~Fresh(d)'
    BY <2>4 DEF Fresh, Changeable
  <2>6. st # "decommissioned" /\ WorkflowFor(d, st) # "decommission_device"
    BY DEF Changeable, WorkflowFor
  <2>7. WorkflowFor(d, st) = "provision_device" => st = "accepted"
    BY DEF WorkflowFor
  <2>8. st = "accepted" /\ WorkflowFor(d, st) # "provision_device" => auth'[d].provisioned
    BY <2>2 DEF WorkflowFor
  <2> QED BY <2>1, <2>4, <2>5, <2>6, <2>7, <2>8 DEF JobOK
<1>3. CASE RequestDecommission(d)
           /\ job = Announcement("decommission_device", d, Status(d), Len(auth[d].log) + 1)
  <2>1. auth'[d].decommissioning /\ Status(d) \in Statuses
    BY <1>t, <1>3, StatusKnown DEF RequestDecommission, AuthType, Inv
  <2>2. /\ job.device = d /\ job.workflow = "decommission_device" /\ job.status # "decommissioned"
    BY <1>3, <2>1 DEF Announcement, Statuses
  <2> QED BY <2>1, <2>2 DEF JobOK, Telling
<1>4. CASE DismissPreauthorized(d)
           /\ job = Announcement("update_device_status", d, "decommissioned", 0)
  <2>1. auth' = [auth EXCEPT ![d].present = FALSE]
    BY <1>4 DEF DismissPreauthorized
  <2>2. ~auth'[d].present /\ auth'[d].log = auth[d].log
    BY <1>t, <2>1 DEF AuthType
  <2>3. auth[d].log # << >> /\ Fresh(d)
    BY <1>4 DEF DismissPreauthorized, Current, Inv, AuthOK, Fresh
  <2>4. ~Current(d)' /\ auth'[d].log # << >> /\ Fresh(d)'
    BY <2>2, <2>3, LogStays DEF Current
  <2>5. /\ job.device = d /\ job.workflow = "update_device_status" /\ job.status = "decommissioned"
    BY <1>4 DEF Announcement
  <2> QED BY <2>4, <2>5 DEF JobOK, Telling
<1> QED BY <1>1, <1>2, <1>3, <1>4 DEF Announces, Changeable

\* What a worker does for a device is what its job is for.
LEMMA KnownOKStep ==
    ASSUME Inv, Agreement, [Next]_vars, NEW d \in Devices
    PROVE  KnownOK(d)'
<1>t. /\ known \in [Services -> SUBSET Devices] /\ KnownOK(d)
      /\ background \subseteq [op: {"provision", "decommission"}, device: Devices]
  BY DEF Inv, ServicesOK, Agreement
<1>a. (Fresh(d)' => Fresh(d)) /\ (auth[d].decommissioning => auth'[d].decommissioning)
  BY AuthStays
<1>1. CASE SameDevice(d)
  BY <1>a, <1>t, <1>1 DEF SameDevice, KnownOK
<1>2. CASE known' = known /\ background' = background
  BY <1>a, <1>t, <1>2 DEF KnownOK, Pending
<1>3. CASE \/ Writes(d) \/ DismissPreauthorized(d)
           \/ \E r \in {0, NoRevision} : WriteAttributes(d, r)
  BY <1>2, <1>3 DEF Writes, Register, ChangeStatus, RequestDecommission, DismissPreauthorized, services,
                    WriteAttributes
<1>4. ASSUME NEW w \in Workers, TaskStep(w), JobOf(w).device = d
      PROVE  KnownOK(d)'
  <2>1. JobOK(JobOf(w)) /\ Working(w)
    BY <1>4, TaskSteps, WorkersQueued DEF Agreement
  <2>2. CASE ProvisioningStep(w)
    <3>1. ~Fresh(d)
      BY <1>4, <2>1, <2>2 DEF JobOK, ProvisioningStep
    <3>2. Pending("decommission", d)' => Pending("decommission", d)
      <4>1. background' = background \/ background' = background \union {[op |-> "provision", device |-> d]}
        BY <1>4, <2>2 DEF ProvisioningStep, UpsertStatus, Provision, StartInBackground, PatchDevice,
                          CallOther, services
      <4> QED BY <4>1 DEF Pending
    <3> QED BY <1>a, <1>t, <3>1, <3>2 DEF KnownOK
  <2>3. CASE StatusStep(w)
    BY <1>2, <2>3 DEF StatusStep, UpsertStatus, CallOther, services
  <2>4. CASE DecommissioningStep(w)
    <3>1. auth[d].decommissioning
      BY <1>4, <2>1, <2>4 DEF JobOK, DecommissioningStep
    <3>2. Pending("provision", d)' => Pending("provision", d)
      <4>1. background' = background \/ background' = background \union {[op |-> "decommission", device |-> d]}
        BY <1>4, <2>4 DEF DecommissioningStep, CallOther, Delete, StartInBackground, DeleteInventory,
                          DeleteAuth, services
      <4> QED BY <4>1 DEF Pending
    <3>3. \A s \in Services : d \in known'[s] => d \in known[s]
      BY <1>t, <1>4, <2>4 DEF DecommissioningStep, CallOther, Delete, StartInBackground, DeleteInventory,
                          DeleteAuth, services, Services
    <3> QED BY <1>a, <1>t, <3>1, <3>2, <3>3 DEF KnownOK
  <2> QED BY <1>4, <2>2, <2>3, <2>4, TaskSteps
<1>5. ASSUME NEW b \in background, FinishInBackground(b), b.device = d
      PROVE  KnownOK(d)'
  <2>1. b = [op |-> b.op, device |-> d] /\ b.op \in {"provision", "decommission"}
    BY <1>t, <1>5
  <2>2. \A op : Pending(op, d)' => Pending(op, d)
    BY <1>5 DEF FinishInBackground, Pending
  <2>3. CASE b.op = "provision"
    <3>1. ~Fresh(d)
      BY <1>t, <2>1, <2>3 DEF KnownOK, Pending
    <3> QED BY <1>a, <1>t, <2>2, <3>1 DEF KnownOK
  <2>4. CASE b.op = "decommission"
    <3>1. \A s \in Services : d \in known'[s] => d \in known[s]
      BY <1>t, <1>5, <2>4 DEF FinishInBackground, Services
    <3> QED BY <1>a, <1>t, <2>2, <3>1 DEF KnownOK
  <2> QED BY <2>1, <2>3, <2>4
<1> QED BY <1>1, <1>3, <1>4, <1>5, Elsewhere DEF DeviceStep

\* What a job writes to the inventory is what it tells.
LEMMA ShownOKStep ==
    ASSUME Inv, Agreement, [Next]_vars, NEW d \in Devices
    PROVE  ShownOK(d)'
<1>t. inventory \in [Devices -> DocumentType] /\ ShownOK(d)
  BY DEF Inv, ServicesOK, Agreement
<1>1. CASE inventory'[d] = inventory[d]
  <2> PICK r : r = inventory[d].revision
    OBVIOUS
  <2>1. r > 0 => r \in Given(d)' /\ StatusAt(d, r)' = inventory[d].status
    BY <1>t, GivenKept DEF ShownOK
  <2>2. inventory'[d].revision = r /\ inventory'[d].status = inventory[d].status
    BY <1>1
  <2> QED BY <2>1, <2>2 DEF ShownOK, StatusAt
<1>2. CASE inventory'[d].revision \in {0, NoRevision}
  BY <1>2 DEF ShownOK, NoRevision
<1>3. ASSUME NEW w \in Workers, UpsertStatus(w), JobOf(w) \in JobType, JobOf(w).status # "decommissioned",
             inventory' = [inventory EXCEPT ![JobOf(w).device] =
               [exists |-> TRUE, revision |-> JobOf(w).revision, status |-> JobOf(w).status]]
      PROVE  ShownOK(d)'
  <2>1. CASE JobOf(w).device = d
    <3> PICK job \in JobType : job = JobOf(w)
      BY <1>3
    <3>1. JobOK(job) /\ Telling(job) /\ job.device = d
      BY <1>3, <2>1, StatusTasksOnly, WorkersQueued DEF Agreement, Telling
    <3>2. job.revision \in Given(d)' /\ StatusAt(d, job.revision)' = job.status
      BY <3>1, GivenKept DEF JobOK
    <3>3. inventory'[d].revision = job.revision /\ inventory'[d].status = job.status
      BY <1>3, <1>t, <2>1
    <3> QED BY <3>2, <3>3 DEF ShownOK, StatusAt
  <2>2. CASE JobOf(w).device # d
    BY <1>1, <1>3, <1>t, <2>2
  <2> QED BY <2>1, <2>2
<1>4. CASE \E b \in Devices : inventory' = [inventory EXCEPT ![b] = Missing]
  BY <1>1, <1>2, <1>4, <1>t DEF Missing
<1>5. CASE \E b \in Devices, r \in {0, NoRevision} :
              inventory' = [inventory EXCEPT ![b] = [exists |-> TRUE, revision |-> r, status |-> "none"]]
  BY <1>1, <1>2, <1>5, <1>t
<1> QED BY <1>1, <1>3, <1>4, <1>5, InventoryStep

\* The parts of the system stay in agreement.
LEMMA AgreementStep == Inv /\ Agreement /\ [Next]_vars => Agreement'
<1> SUFFICES ASSUME Inv, Agreement, [Next]_vars PROVE Agreement'
  OBVIOUS
<1>1. ASSUME NEW d \in Devices PROVE LogOK(d)' /\ KnownOK(d)' /\ ShownOK(d)'
  BY LogOKStep, KnownOKStep, ShownOKStep DEF Agreement
<1>2. ASSUME NEW job, Queued(job)' PROVE JobOK(job)'
  BY <1>2, JobsCome, JobKept, JobAnnounced, QueuedJobs DEF Agreement
<1> QED BY <1>1, <1>2 DEF Agreement

---------------------------------------------------------------------------
(* What is announced gets to the inventory.                                *)

\* How the document of a device changes.
LEMMA InventoryChanges ==
    ASSUME Inv, Agreement, [Next]_vars, NEW d \in Devices
    PROVE  \/ inventory'[d] = inventory[d]
           \/ inventory'[d] = Missing /\ Removed(d)
           \/ \E r \in {0, NoRevision} :
                 /\ WriteAttributes(d, r) /\ ~inventory[d].exists
                 /\ inventory'[d] = [exists |-> TRUE, revision |-> r, status |-> "none"]
           \/ \E w \in Workers :
                 /\ TaskStep(w) /\ UpsertStatus(w) /\ JobOf(w).device = d /\ Telling(JobOf(w))
                 /\ inventory[d].exists => Newer(inventory[d], JobOf(w).revision)
                 /\ inventory'[d] =
                      [exists |-> TRUE, revision |-> JobOf(w).revision, status |-> JobOf(w).status]
<1>t. inventory \in [Devices -> DocumentType]
  BY DEF Inv, ServicesOK
<1>1. CASE SameDevice(d)
  BY <1>1 DEF SameDevice
<1>2. CASE Writes(d) \/ DismissPreauthorized(d)
  BY <1>2 DEF Writes, Register, ChangeStatus, RequestDecommission, DismissPreauthorized, services
<1>3. ASSUME NEW r \in {0, NoRevision}, WriteAttributes(d, r)
      PROVE  /\ WriteAttributes(d, r) /\ ~inventory[d].exists
             /\ inventory'[d] = [exists |-> TRUE, revision |-> r, status |-> "none"]
  BY <1>t, <1>3 DEF WriteAttributes
<1>4. ASSUME NEW w \in Workers, TaskStep(w), JobOf(w).device = d
      PROVE  \/ inventory'[d] = inventory[d]
             \/ inventory'[d] = Missing /\ Removed(d)
             \/ /\ TaskStep(w) /\ UpsertStatus(w) /\ JobOf(w).device = d /\ Telling(JobOf(w))
                /\ inventory[d].exists => Newer(inventory[d], JobOf(w).revision)
                /\ inventory'[d] =
                     [exists |-> TRUE, revision |-> JobOf(w).revision, status |-> JobOf(w).status]
  <2>1. JobOK(JobOf(w)) /\ Working(w)
    BY <1>4, TaskSteps, WorkersQueued DEF Agreement
  <2>2. CASE UpsertStatus(w) /\ JobOf(w).status = "decommissioned"
    <3>1. inventory'[d] = Missing
      BY <1>t, <1>4, <2>2 DEF UpsertStatus
    <3>2. Removed(d)
      BY <1>4, <2>1, <2>2 DEF JobOK, Removed
    <3> QED BY <3>1, <3>2
  <2>3. CASE UpsertStatus(w) /\ JobOf(w).status # "decommissioned"
    <3>1. Telling(JobOf(w))
      BY <2>3, StatusTasksOnly DEF Telling
    <3>2. \/ inventory' = inventory
          \/ /\ inventory[d].exists => Newer(inventory[d], JobOf(w).revision)
             /\ inventory' = [inventory EXCEPT ![d] =
                     [exists |-> TRUE, revision |-> JobOf(w).revision, status |-> JobOf(w).status]]
      BY <1>4, <2>3 DEF UpsertStatus
    <3> QED BY <1>t, <1>4, <2>3, <3>1, <3>2
  <2>4. CASE DeleteInventory(w)
    <3>1. inventory'[d] = Missing
      BY <1>t, <1>4, <2>4 DEF DeleteInventory
    <3>2. JobOf(w).workflow = "decommission_device"
      <4>1. ~UpsertStatus(w) \/ inventory'[d] = Missing
        BY <3>1
      <4>2. TasksOf(w)[workers[w].task] = "delete_device_inventory" /\ InTask(w)
        BY <2>4 DEF DeleteInventory, At
      <4>3. JobOf(w).workflow \in {"provision_device", "update_device_status", "decommission_device"}
        BY <1>4, TaskSteps DEF ProvisioningStep, StatusStep, DecommissioningStep
      <4> QED BY <4>2, <4>3, ProvisionPlaces, StatusPlaces
    <3>3. Removed(d)
      BY <1>4, <2>1, <3>2 DEF JobOK, Removed
    <3> QED BY <3>1, <3>3
  <2>5. CASE ~UpsertStatus(w) /\ ~DeleteInventory(w)
    BY <1>4, <2>5 DEF TaskStep, ProvisioningTasks, Provision, StartInBackground, PatchDevice, services,
                      DeletionTasks, Delete, DeleteAuth, CallOther
  <2> QED BY <2>2, <2>3, <2>4, <2>5
<1>5. ASSUME NEW b \in background, FinishInBackground(b) PROVE inventory' = inventory
  BY <1>5 DEF FinishInBackground
<1> QED BY <1>1, <1>2, <1>3, <1>4, <1>5, Elsewhere DEF DeviceStep

\* A device that is on its way out, or whose document has no revision, stays so.
LEMMA UnrulyStays ==
    ASSUME Inv, Agreement, [Next]_vars, NEW d \in Devices, auth[d].log # << >>, Unruly(d)
    PROVE  Unruly(d)'
<1>1. (~Current(d) => ~Current(d)') /\ (auth[d].decommissioning => auth'[d].decommissioning)
  BY AuthStays
<1>2. CASE ~Current(d) \/ auth[d].decommissioning
  BY <1>1, <1>2 DEF Unruly
<1>3. CASE inventory[d].revision = NoRevision /\ ~(~Current(d) \/ auth[d].decommissioning)
  <2>1. inventory[d].exists
    BY <1>3 DEF Inv, ServicesOK, NoRevision
  <2>2. \A r : ~Newer(inventory[d], r)
    BY <1>3 DEF Newer
  <2>3. ~Removed(d)
    BY <1>3 DEF Removed
  <2>4. inventory'[d] = inventory[d]
    BY <2>1, <2>2, <2>3, InventoryChanges
  <2> QED BY <1>3, <2>4 DEF Unruly
<1> QED BY <1>2, <1>3 DEF Unruly

\* A revision has arrived when the inventory shows it or a newer one.
Arrived(d, r) == inventory[d].exists /\ inventory[d].revision >= r
Excused(d, r) == Unruly(d) \/ FailedAt(d, r) \/ Arrived(d, r)
OnItsWay(d, r) ==
    \E job : Live(job) /\ Telling(job) /\ job.device = d /\ job.revision = r

Reported ==
    /\ \A d \in Devices : \A r \in Given(d) : Excused(d, r) \/ OnItsWay(d, r)
    /\ \A w \in Workers :
         Working(w) /\ workers[w].task > 1 /\ Telling(JobOf(w)) =>
             Excused(JobOf(w).device, JobOf(w).revision)

\* What has arrived is not undone, nor is an error.
LEMMA ExcusedStays ==
    ASSUME Inv, Agreement, [Next]_vars, NEW d \in Devices, NEW r \in Given(d), Excused(d, r)
    PROVE  Excused(d, r)'
<1>1. auth[d].log # << >> /\ r \in Nat /\ r > 0
  BY GivenKept DEF Given, Revisions, Inv, AuthOK, AuthType
<1>2. CASE Unruly(d)
  BY <1>1, <1>2, UnrulyStays DEF Excused
<1>3. CASE FailedAt(d, r)
  BY <1>3, HistoryGrows DEF Excused, FailedAt
<1>4. CASE Arrived(d, r) /\ ~Unruly(d)
  <2>t. inventory[d] \in DocumentType
    BY DEF Inv, ServicesOK
  <2>1. CASE inventory'[d] = inventory[d]
    BY <1>4, <2>1 DEF Excused, Arrived
  <2>2. CASE Removed(d)
    BY <1>1, <1>2, <1>4, <2>2 DEF Removed, Unruly
  <2>3. ASSUME NEW w \in Workers, TaskStep(w),
               Newer(inventory[d], JobOf(w).revision),
               inventory'[d] =
                  [exists |-> TRUE, revision |-> JobOf(w).revision, status |-> JobOf(w).status]
        PROVE  Excused(d, r)'
    <3>1. JobOf(w).revision \in Nat /\ inventory[d].revision < JobOf(w).revision
      BY <2>3, TaskSteps DEF JobType, Newer
    <3>2. inventory'[d].exists /\ inventory'[d].revision >= r
      BY <1>1, <1>4, <2>t, <2>3, <3>1 DEF Arrived, DocumentType, NoRevision
    <3> QED BY <3>2 DEF Excused, Arrived
  <2> QED BY <1>4, <2>1, <2>2, <2>3, InventoryChanges DEF Arrived
<1> QED BY <1>2, <1>3, <1>4 DEF Excused

\* A worker that told a status leaves it in the inventory, or an error.
LEMMA TellingDone ==
    ASSUME Inv, Agreement, [Next]_vars, NEW w \in Workers, TaskStep(w), workers[w].task = 1,
           NEW job \in JobType, job = JobOf(w), Telling(job)
    PROVE  Excused(job.device, job.revision)'
<1> PICK d \in Devices, r \in Nat : d = job.device /\ r = job.revision
  BY DEF JobType
<1>1. JobOK(job) /\ InTask(w)
  BY TaskSteps, WorkersQueued, TaskStepResponds DEF Agreement
<1>2. UpsertStatus(w)
  BY TaskSteps DEF ProvisioningStep, StatusStep, DecommissioningStep, Telling
<1>3. r \in Given(d)
  BY <1>1 DEF JobOK
<1>t. inventory \in [Devices -> DocumentType]
  BY DEF Inv, ServicesOK
<1>4. CASE inventory' = [inventory EXCEPT ![d] =
                 [exists |-> TRUE, revision |-> job.revision, status |-> job.status]]
  <2>1. inventory'[d].exists /\ inventory'[d].revision = r
    BY <1>t, <1>4
  <2> QED BY <2>1 DEF Excused, Arrived
<1>5. CASE inventory' = inventory /\ inventory[d].exists /\ ~Newer(inventory[d], r)
  <2>1. inventory[d].revision = NoRevision \/ inventory[d].revision >= r
    BY <1>t, <1>5 DEF Newer, DocumentType, NoRevision
  <2>2. Excused(d, r)
    BY <1>5, <2>1 DEF Excused, Unruly, Arrived
  <2> QED BY <1>3, <2>2, ExcusedStays
<1>6. Excused(d, r)'
  BY <1>2, <1>4, <1>5 DEF UpsertStatus, Telling
<1> QED BY <1>6

\* An announcement is under way.
LEMMA AnnouncedLive ==
    ASSUME Inv, [Next]_vars, NEW d \in Devices, NEW r \in Given(d)', r \notin Given(d)
    PROVE  OnItsWay(d, r)'
<1>1. PICK e \in EntryType : LogStep(d, e)
  BY LogSteps, LogStays
<1>2. e.told /\ r = Len(auth[d].log) + 1
  BY <1>1, LogAppended
<1>3. ASSUME NEW st \in {"noauth", "preauthorized"}, Register(d, st), auth[d].log = << >>,
             e = Entry(st, st = "preauthorized")
      PROVE  OnItsWay(d, r)'
  <2>1. st = "preauthorized"
    BY <1>2, <1>3 DEF Entry
  <2> DEFINE job == Announcement("update_device_status", d, st, 1)
  <2>2. job \in unsent' /\ r = 1
    BY <1>2, <1>3, <2>1 DEF Register
  <2>3. Telling(job) /\ job.device = d /\ job.revision = 1
    BY <2>1 DEF Telling, Announcement
  <2> HIDE DEF job
  <2> QED BY <2>2, <2>3 DEF OnItsWay, Live, Telling
<1>4. ASSUME NEW st \in Changeable, ChangeStatus(d, st)
      PROVE  OnItsWay(d, r)'
  <2> PICK job : job = Announcement(WorkflowFor(d, st), d, st, Len(auth[d].log) + 1)
    OBVIOUS
  <2>1. job \in unsent'
    BY <1>4 DEF ChangeStatus
  <2>2. Telling(job) /\ job.device = d /\ job.revision = r
    BY <1>2 DEF Announcement, Telling, WorkflowFor, Changeable
  <2> QED BY <2>1, <2>2 DEF OnItsWay, Live, Telling
<1>5. ~Entry(Status(d), FALSE).told
  BY DEF Entry
<1> QED BY <1>1, <1>2, <1>3, <1>4, <1>5 DEF LogStep

\* An announcement stays under way, arrives, or meets an error.
LEMMA ReportedStep == Inv /\ Agreement /\ Reported /\ [Next]_vars => Reported'
<1> SUFFICES ASSUME Inv, Agreement, Reported, [Next]_vars PROVE Reported'
  OBVIOUS
<1>1. ASSUME NEW d \in Devices, NEW r \in Given(d)'
      PROVE  Excused(d, r)' \/ OnItsWay(d, r)'
  <2>1. CASE r \notin Given(d)
    BY <2>1, AnnouncedLive
  <2>2. CASE r \in Given(d) /\ Excused(d, r)
    BY <2>2, ExcusedStays
  <2>3. CASE r \in Given(d) /\ OnItsWay(d, r)
    <3> PICK job : Live(job) /\ Telling(job) /\ job.device = d /\ job.revision = r
      BY <2>3 DEF OnItsWay
    <3>1. CASE Live(job)'
      BY <3>1 DEF OnItsWay, Telling
    <3>2. CASE job \in failed'
      BY <3>2 DEF Excused, FailedAt
    <3>3. ASSUME NEW w \in Workers, Acknowledge(w), JobOf(w) = job
          PROVE  Excused(d, r)'
      <4>1. Working(w) /\ workers[w].task > 1
        <5>1. Working(w) /\ ~InTask(w) /\ workers[w].task \in Nat
          BY <3>3 DEF Acknowledge, Inv, WorkersOK, WorkerType
        <5>2. PICK n \in {2, 6} : n = Len(TasksOf(w))
          BY <5>1, WorkingJob
        <5>3. ~(workers[w].task <= n)
          BY <5>1, <5>2 DEF InTask
        <5> QED BY <5>1, <5>2, <5>3
      <4>2. Excused(d, r)
        BY <3>3, <4>1 DEF Reported
      <4> QED BY <2>3, <4>2, ExcusedStays
    <3> QED BY <3>1, <3>2, <3>3, JobsGo
  <2> QED BY <2>1, <2>2, <2>3 DEF Reported
<1>2. ASSUME NEW w \in Workers, Working(w)', workers'[w].task > 1, Telling(JobOf(w))'
      PROVE  Excused(JobOf(w).device, JobOf(w).revision)'
  <2>1. ~(workers'[w].task = 1)
    BY <1>2
  <2>2. Working(w) /\ JobOf(w)' = JobOf(w)
        /\ (TaskStep(w) \/ workers'[w].task = workers[w].task \/ JobOf(w) \in failed')
    BY <1>2, <2>1, WorkerFate
  <2> PICK job : job = JobOf(w)
    OBVIOUS
  <2>3. Telling(job) /\ JobOK(job) /\ job.device \in Devices
    BY <1>2, <2>2, WorkersQueued DEF Agreement, Telling, JobType
  <2>4. job.revision \in Given(job.device)
    BY <2>3 DEF JobOK
  <2>5. CASE job \in failed'
    BY <2>2, <2>5 DEF Excused, FailedAt
  <2>6. CASE workers[w].task > 1
    <3>1. Excused(job.device, job.revision)
      BY <2>2, <2>3, <2>6 DEF Reported
    <3>2. Excused(job.device, job.revision)'
      BY <2>3, <2>4, <3>1, ExcusedStays
    <3> QED BY <2>2, <3>2
  <2>7. CASE TaskStep(w) /\ ~(workers[w].task > 1)
    <3>1. workers[w].task = 1
      BY <2>7, TaskSteps DEF ProvisioningStep, StatusStep, DecommissioningStep
    <3>2. Excused(job.device, job.revision)'
      BY <2>2, <2>3, <2>7, <3>1, WorkersQueued, TellingDone
    <3> QED BY <2>2, <3>2
  <2> QED BY <1>2, <2>2, <2>5, <2>6, <2>7
<1> QED BY <1>1, <1>2 DEF Reported

\* Nothing was announced at first.
LEMMA ReportedInit == Init => Reported
<1> SUFFICES ASSUME Init PROVE Reported
  OBVIOUS
<1>1. \A d \in Devices : Given(d) = {}
  BY DEF Init, Given
<1>2. \A w \in Workers : ~Working(w)
  BY DEF Init, Working, Idle
<1> QED BY <1>1, <1>2 DEF Reported

\* A device no live job is about is quiet, and the other way round.
LEMMA BusyWith ==
    ASSUME NEW d, ~Busy(d)
    PROVE  /\ \A job : Live(job) => job.device # d
           /\ \A w \in Workers : Working(w) => JobOf(w).device # d
           /\ \A op : ~Pending(op, d)
BY DEF Busy, Live, Pending

\* The newest announcement is the latest one.
LEMMA NewestIsLatest ==
    ASSUME Inv, NEW d \in Devices, NEW r \in Given(d), Latest(d, r)
    PROVE  Newest(d) = r
<1>1. Given(d) \subseteq Nat
  BY DEF Given, Inv, AuthOK, AuthType
<1>2. Newest(d) \in Given(d) /\ \A q \in Given(d) : q <= Newest(d)
  BY DEF Newest, Latest
<1>3. r <= Newest(d) /\ Newest(d) <= r
  BY <1>2 DEF Latest
<1> QED BY <1>1, <1>2, <1>3

\* A quiet device is shown with its latest status.
LEMMA InventoryFollowsOK == Inv /\ Agreement /\ Reported => InventoryFollows
<1> SUFFICES ASSUME Inv, Agreement, Reported, NEW d \in Devices,
                    ~Busy(d), ~Unruly(d), Given(d) # {}, ~FailedAt(d, Newest(d))
             PROVE  inventory[d] = [exists |-> TRUE, revision |-> Newest(d), status |-> Status(d)]
  BY DEF InventoryFollows
<1>1. auth[d].log # << >>
  BY DEF Given
<1>2. PICK r \in Given(d) : Latest(d, r) /\ StatusAt(d, r) = Status(d)
  BY <1>1 DEF Agreement, LogOK
<1>3. Newest(d) = r
  BY <1>2, NewestIsLatest
<1>4. r \in Nat /\ r > 0 /\ Given(d) \subseteq Nat
  BY DEF Given, Inv, AuthOK, AuthType
<1>5. Arrived(d, r)
  BY <1>3, BusyWith DEF Reported, Excused, OnItsWay
<1>6. inventory[d] \in DocumentType
  BY DEF Inv, ServicesOK
<1>7. inventory[d].revision \in Given(d) /\ StatusAt(d, inventory[d].revision) = inventory[d].status
  <2>1. inventory[d].revision > 0
    BY <1>4, <1>5, <1>6 DEF Arrived, DocumentType, NoRevision
  <2> QED BY <2>1 DEF Agreement, ShownOK
<1>8. inventory[d].revision = r
  <2>1. inventory[d].revision <= r /\ inventory[d].revision >= r
    BY <1>2, <1>5, <1>7 DEF Latest, Arrived
  <2> QED BY <1>4, <1>7, <2>1
<1> QED BY <1>2, <1>3, <1>5, <1>6, <1>7, <1>8 DEF DocumentType, Arrived

\* When the jobs of a device are through, the inventory has the status of the
\* device and its revision, whatever was lost, repeated or reordered before,
\* unless the very job that told it met an error (updateDeviceStatus of
\* deviceauth, processor.ProcessJob, UpsertDevicesStatus of the inventory).
THEOREM InventoryAgrees == Spec => []InventoryFollows
BY InvInit, InvStep, AgreementInit, AgreementStep, ReportedInit, ReportedStep, InventoryFollowsOK, PTL
   DEF Spec

---------------------------------------------------------------------------
(* An accepted device gets to every service.                               *)

\* No job of the device met an error or a crash.
Clean(d) == ~Unruly(d) /\ \A job \in failed \union interrupted : job.device # d

\* The service has a document of the device, or is about to make one.
Has(s, d) == d \in known[s] \/ (s = "iot-manager" /\ Pending("provision", d))

ProvisionedOK(d) == Clean(d) /\ auth[d].provisioned => \A s \in Services : Has(s, d)

\* What a worker has done of the provisioning, and where it is then.
ProvisioningOK(w) ==
    Working(w) /\ JobOf(w).workflow = "provision_device" /\ Clean(JobOf(w).device)
    /\ workers[w].task \in 2..6 =>
        /\ workers[w].task >= 3 => Has("deviceconnect", JobOf(w).device)
        /\ workers[w].task >= 4 => Has("deviceconfig", JobOf(w).device)
        /\ workers[w].task >= 5 => Has("iot-manager", JobOf(w).device)

InProvisioning(w, d, r) ==
    /\ Working(w) /\ workers[w].task \in 2..5
    /\ JobOf(w).workflow = "provision_device"
    /\ JobOf(w).device = d /\ JobOf(w).revision = r

AcceptedOK(d) ==
    \A r \in Given(d) :
        Latest(d, r) /\ StatusAt(d, r) = "accepted" /\ Clean(d) /\ ~auth[d].provisioned
        /\ Arrived(d, r) =>
            \E w \in Workers : InProvisioning(w, d, r)

Provisions ==
    /\ \A d \in Devices : ProvisionedOK(d) /\ AcceptedOK(d)
    /\ \A w \in Workers : ProvisioningOK(w)

\* No device is accepted at first.
LEMMA ProvisionsInit == Init => Provisions
<1> SUFFICES ASSUME Init PROVE Provisions
  OBVIOUS
<1>1. ASSUME NEW d \in Devices PROVE ProvisionedOK(d) /\ AcceptedOK(d)
  BY DEF Init, ProvisionedOK, AcceptedOK, Given
<1>2. ASSUME NEW w \in Workers PROVE ProvisioningOK(w)
  BY DEF Init, ProvisioningOK, Working, Idle
<1> QED BY <1>1, <1>2 DEF Provisions

\* A device of which all went well so far was announced before.
LEMMA CleanBefore ==
    ASSUME Inv, Agreement, [Next]_vars, NEW d \in Devices, auth[d].log # << >>, Clean(d)'
    PROVE  Clean(d)
BY UnrulyStays, HistoryGrows DEF Clean

\* Only a decommissioning takes a device from a service.
LEMMA HasStays ==
    ASSUME Inv, Agreement, [Next]_vars, NEW d \in Devices, NEW s \in Services,
           Has(s, d), ~auth[d].decommissioning
    PROVE  Has(s, d)'
<1>t. /\ known \in [Services -> SUBSET Devices]
      /\ background \subseteq [op: {"provision", "decommission"}, device: Devices]
  BY DEF Inv, ServicesOK
<1>1. CASE SameDevice(d)
  BY <1>1 DEF SameDevice, Has
<1>2. CASE known' = known /\ background' = background
  BY <1>2 DEF Has, Pending
<1>3. CASE \/ Writes(d) \/ DismissPreauthorized(d)
           \/ \E r \in {0, NoRevision} : WriteAttributes(d, r)
  BY <1>2, <1>3 DEF Writes, Register, ChangeStatus, RequestDecommission, DismissPreauthorized, services,
                    WriteAttributes
<1>4. ASSUME NEW w \in Workers, TaskStep(w), JobOf(w).device = d
      PROVE  Has(s, d)'
  <2>1. JobOK(JobOf(w)) /\ Working(w)
    BY <1>4, TaskSteps, WorkersQueued DEF Agreement
  <2>2. ~DecommissioningStep(w)
    BY <1>4, <2>1 DEF JobOK, DecommissioningStep
  <2>3. CASE ProvisioningStep(w)
    <3>1. background \subseteq background'
      BY <2>3 DEF ProvisioningStep, UpsertStatus, Provision, StartInBackground, PatchDevice,
                  CallOther, services
    <3>2. known[s] \subseteq known'[s]
      BY <1>t, <2>3 DEF ProvisioningStep, UpsertStatus, Provision, StartInBackground, PatchDevice,
                  CallOther, services, Services
    <3> QED BY <3>1, <3>2 DEF Has, Pending
  <2>4. CASE StatusStep(w)
    BY <1>2, <2>4 DEF StatusStep, UpsertStatus, CallOther, services
  <2> QED BY <1>4, <2>2, <2>3, <2>4, TaskSteps
<1>5. ASSUME NEW b \in background, FinishInBackground(b), b.device = d
      PROVE  Has(s, d)'
  <2>1. b = [op |-> b.op, device |-> d] /\ b.op \in {"provision", "decommission"}
    BY <1>t, <1>5
  <2>2. b.op = "provision"
    BY <2>1 DEF Agreement, KnownOK, Pending
  <2>3. /\ s = "iot-manager" => d \in known'[s]
        /\ s # "iot-manager" => known'[s] = known[s]
    BY <1>t, <1>5, <2>2 DEF FinishInBackground, Services
  <2> QED BY <2>3 DEF Has
<1> QED BY <1>1, <1>3, <1>4, <1>5, Elsewhere DEF DeviceStep

\* The worker at its fifth task has provided for all three services.
LEMMA ProvisionedOKStep ==
    ASSUME Inv, Agreement, Provisions, [Next]_vars, NEW d \in Devices
    PROVE  ProvisionedOK(d)'
<1> SUFFICES ASSUME Clean(d)', auth'[d].provisioned, NEW s \in Services
             PROVE  Has(s, d)'
  BY DEF ProvisionedOK
<1>t. auth \in [Devices -> AuthType]
  BY DEF Inv, AuthOK
<1>1. CASE auth[d].provisioned
  <2>1. Clean(d)
    BY <1>1, CleanBefore DEF Agreement, LogOK
  <2>2. Has(s, d) /\ ~auth[d].decommissioning
    BY <1>1, <2>1 DEF Provisions, ProvisionedOK, Clean, Unruly
  <2> QED BY <2>2, HasStays
<1>2. CASE \E w \in Workers : PatchDevice(w) /\ JobOf(w).device = d /\ TaskStep(w) /\ Current(d)
  <2> PICK w \in Workers : PatchDevice(w) /\ JobOf(w).device = d /\ TaskStep(w) /\ Current(d)
    BY <1>2
  <2>1. auth[d].log # << >>
    BY DEF Current, Inv, AuthOK
  <2>2. Clean(d) /\ ~auth[d].decommissioning
    BY <2>1, CleanBefore DEF Clean, Unruly
  <2>3. Working(w) /\ JobOf(w).workflow = "provision_device" /\ workers[w].task = 5
    <3>1. TasksOf(w)[workers[w].task] = "provision_deviceauth" /\ InTask(w)
      BY DEF PatchDevice, At
    <3>2. ProvisioningStep(w)
      BY <3>1, TaskSteps, StatusPlaces, DecommissionPlaces DEF StatusStep, DecommissioningStep
    <3> QED BY <3>1, <3>2, ProvisionPlaces DEF ProvisioningStep, InTask
  <2>4. \A v \in Services : Has(v, d)
    BY <2>2, <2>3 DEF Provisions, ProvisioningOK, Services
  <2> QED BY <2>2, <2>4, HasStays
<1>3. CASE ~auth[d].provisioned
  <2>1. CASE auth'[d] = auth[d]
    BY <1>3, <2>1
  <2>2. CASE Writes(d) \/ DismissPreauthorized(d)
    BY <1>t, <1>3, <2>2 DEF Writes, Register, ChangeStatus, RequestDecommission, DismissPreauthorized,
                            AuthType
  <2>3. CASE \E r \in {0, NoRevision} : WriteAttributes(d, r)
    BY <2>1, <2>3 DEF WriteAttributes
  <2>4. ASSUME NEW w \in Workers, TaskStep(w), JobOf(w).device = d
        PROVE  Has(s, d)'
    <3>1. CASE PatchDevice(w)
      BY <1>2, <2>1, <2>4, <3>1 DEF PatchDevice
    <3>2. CASE DeleteAuth(w)
      BY <1>t, <1>3, <2>4, <3>2 DEF DeleteAuth, AuthType
    <3>3. CASE ~PatchDevice(w) /\ ~DeleteAuth(w)
      BY <2>1, <2>4, <3>3, OthersKeepAuth DEF TaskStep, ProvisioningTasks, DeletionTasks
    <3> QED BY <3>1, <3>2, <3>3
  <2>5. CASE \E b \in background : FinishInBackground(b)
    BY <2>1, <2>5 DEF FinishInBackground
  <2> QED BY <2>1, <2>2, <2>3, <2>4, <2>5, Elsewhere DEF DeviceStep, SameDevice
<1> QED BY <1>1, <1>3

\* A worker that provides a service goes on to the next.
LEMMA ProvisioningOKStep ==
    ASSUME Inv, Agreement, Provisions, [Next]_vars, NEW w \in Workers
    PROVE  ProvisioningOK(w)'
<1> SUFFICES ASSUME Working(w)', JobOf(w)'.workflow = "provision_device", Clean(JobOf(w).device)',
                    workers'[w].task \in 2..6
             PROVE  /\ workers'[w].task >= 3 => Has("deviceconnect", JobOf(w).device)'
                    /\ workers'[w].task >= 4 => Has("deviceconfig", JobOf(w).device)'
                    /\ workers'[w].task >= 5 => Has("iot-manager", JobOf(w).device)'
  BY DEF ProvisioningOK
<1>1. /\ Working(w) /\ JobOf(w)' = JobOf(w) /\ TasksOf(w)' = TasksOf(w)
      /\ TaskStep(w) \/ workers'[w].task = workers[w].task \/ JobOf(w) \in failed'
  BY WorkerFate, workers'[w].task # 1
<1> PICK job \in JobType : job = JobOf(w)
  BY <1>1, WorkersQueued
<1> PICK d \in Devices : d = job.device
  BY DEF JobType
<1>2. JobOf(w) = job /\ JobOf(w)' = job /\ JobOK(job) /\ job.workflow = "provision_device" /\ Clean(d)'
  BY <1>1, WorkersQueued DEF Agreement
<1>3. auth[d].log # << >> /\ Clean(d) /\ ~auth[d].decommissioning
  <2>1. auth[d].log # << >>
    BY <1>2 DEF JobOK, Fresh
  <2> QED BY <1>2, <2>1, CleanBefore DEF Clean, Unruly
<1>4. job \notin failed'
  BY <1>2 DEF Clean
<1>5. \A s \in Services : Has(s, d) => Has(s, d)'
  BY <1>3, HasStays
<1>6. "deviceconnect" \in Services /\ "deviceconfig" \in Services /\ "iot-manager" \in Services
  BY DEF Services
<1> PICK t \in 0..7, u \in 2..6 : t = workers[w].task /\ u = workers'[w].task
  BY DEF Inv, WorkersOK, WorkerType
<1> DEFINE Done(i) == /\ i >= 3 => Has("deviceconnect", d)
                      /\ i >= 4 => Has("deviceconfig", d)
                      /\ i >= 5 => Has("iot-manager", d)
<1>7. t \in 2..6 => Done(t)
  BY <1>1, <1>2, <1>3 DEF Provisions, ProvisioningOK
<1>8. t \in 2..6 => Done(t)'
  BY <1>5, <1>6, <1>7
<1>9. ASSUME TaskStep(w), u # t PROVE Done(u)'
  <2>1. ProvisioningStep(w)
    BY <1>2, <1>9, TaskSteps DEF StatusStep, DecommissioningStep
  <2>2. ~DeleteAuth(w) /\ InTask(w)
    <3>1. InTask(w)
      BY <1>9, TaskStepResponds
    <3>2. TasksOf(w)[workers[w].task] # "delete_device_auth"
      BY <1>2, <3>1, ProvisionPlaces
    <3> QED BY <3>1, <3>2 DEF DeleteAuth, At
  <2>3. t \in 1..6 /\ Len(TasksOf(w)) = 6
    BY <1>2, <2>2, ProvisionPlaces
  <2>4. u = t + 1
    <3>1. u = t + 1 \/ u \in {t, 6 + 1}
      BY <1>2, <1>4, <1>9, <2>2, <2>3, TaskMoves
    <3> QED BY <1>9, <3>1
  <2>t. known \in [Services -> SUBSET Devices]
    BY DEF Inv, ServicesOK
  <2>5. CASE t = 1
    BY <2>4, <2>5
  <2>6. CASE t = 2
    <3>1. known' = [known EXCEPT !["deviceconnect"] = @ \union {JobOf(w).device}]
      BY <2>1, <2>6 DEF ProvisioningStep, Provision
    <3>2. Has("deviceconnect", d)'
      BY <1>2, <1>6, <2>t, <3>1 DEF Has
    <3> QED BY <2>4, <2>6, <3>2
  <2>7. CASE t = 3
    <3>1. known' = [known EXCEPT !["deviceconfig"] = @ \union {JobOf(w).device}]
      BY <2>1, <2>7 DEF ProvisioningStep, Provision
    <3>2. Has("deviceconfig", d)'
      BY <1>2, <1>6, <2>t, <3>1 DEF Has
    <3> QED BY <1>8, <2>4, <2>7, <3>2
  <2>8. CASE t = 4
    <3>1. background' = background \union {[op |-> "provision", device |-> JobOf(w).device]}
      BY <2>1, <2>8 DEF ProvisioningStep, StartInBackground
    <3>2. Has("iot-manager", d)'
      BY <1>2, <3>1 DEF Has, Pending
    <3> QED BY <1>8, <2>4, <2>8, <3>2
  <2>9. CASE t = 5 \/ t = 6
    BY <1>8, <2>4, <2>9
  <2> QED BY <2>3, <2>5, <2>6, <2>7, <2>8, <2>9
<1>10. Done(u)'
  BY <1>1, <1>2, <1>4, <1>8, <1>9
<1> QED BY <1>2, <1>10

\* The worker that brings the acceptance to the inventory goes on to the services.
LEMMA AcceptedOKStep ==
    ASSUME Inv, Agreement, Reported, Provisions, [Next]_vars, NEW d \in Devices
    PROVE  AcceptedOK(d)'
<1> SUFFICES ASSUME NEW r \in Given(d)', Latest(d, r)', StatusAt(d, r)' = "accepted", Clean(d)',
                    ~auth'[d].provisioned, Arrived(d, r)'
             PROVE  \E w \in Workers : InProvisioning(w, d, r)'
  BY DEF AcceptedOK
<1>t. inventory \in [Devices -> DocumentType] /\ inventory'[d] \in DocumentType
  BY InvStep DEF Inv, ServicesOK
<1>n. Given(d)' \subseteq Nat /\ r \in Nat /\ r > 0
  BY InvStep DEF Given, Inv, AuthOK, AuthType
<1>s. inventory'[d].revision = r
  <2>1. inventory'[d].revision > 0
    BY <1>n, <1>t DEF Arrived, DocumentType, NoRevision
  <2>2. inventory'[d].revision \in Given(d)'
    BY <2>1, AgreementStep DEF Agreement, ShownOK
  <2>3. inventory'[d].revision <= r /\ inventory'[d].revision >= r
    BY <2>2 DEF Latest, Arrived
  <2> QED BY <1>n, <2>2, <2>3
<1>1. CASE inventory'[d] = inventory[d]
  <2>1. r \in Given(d)
    <3>1. inventory[d].revision = r /\ inventory[d].revision > 0
      BY <1>1, <1>n, <1>s
    <3> QED BY <3>1 DEF Agreement, ShownOK
  <2>2. auth[d].log # << >> /\ Arrived(d, r) /\ ~auth[d].provisioned
    BY <1>1, <2>1, AuthStays DEF Given, Arrived
  <2>3. Clean(d) /\ StatusAt(d, r) = "accepted" /\ Latest(d, r)
    BY <2>1, <2>2, CleanBefore, GivenKept DEF Latest
  <2>4. PICK w \in Workers : InProvisioning(w, d, r)
    BY <2>1, <2>2, <2>3 DEF Provisions, AcceptedOK
  <2>5. Working(w) /\ workers[w].task \in 2..5 /\ JobOf(w).workflow = "provision_device"
        /\ JobOf(w).device = d /\ JobOf(w).revision = r
    BY <2>4 DEF InProvisioning
  <2>6. InTask(w)
    <3>1. TasksOf(w) = ProvisionTasks
      BY <2>5 DEF TasksOf, Tasks
    <3> QED BY <2>5, <3>1, TaskCounts DEF InTask
  <2>7. Working(w)' /\ JobOf(w)' = JobOf(w)
    BY <2>5, <2>6, WorkerStays DEF Clean
  <2>8. workers'[w].task \in 2..5
    <3>1. JobOf(w) \notin failed'
      BY <2>5 DEF Clean
    <3>2. \/ TaskStep(w) \/ workers'[w].task = workers[w].task
      BY <2>5, <2>7, <3>1, WorkerFate
    <3>3. CASE TaskStep(w) /\ workers'[w].task # workers[w].task
      <4>1. ProvisioningStep(w)
        BY <2>5, <3>3, TaskSteps DEF StatusStep, DecommissioningStep
      <4>2. ~DeleteAuth(w) /\ ~Conflict(w)
        <5>1. TasksOf(w)[workers[w].task] \notin {"delete_device_auth", "create_device_inventory",
                                                   "update_device_identity_inventory"}
          BY <2>5, <2>6, ProvisionPlaces
        <5> QED BY <5>1 DEF DeleteAuth, Conflict, UpsertStatus, At
      <4>3. workers'[w].task = workers[w].task + 1
        BY <3>1, <3>3, <4>2, TaskMoves
      <4>4. workers[w].task # 5
        <5>1. ASSUME workers[w].task = 5 PROVE auth'[d].provisioned
          <6>1. PatchDevice(w)
            BY <4>1, <5>1 DEF ProvisioningStep
          <6>2. Current(d) /\ auth \in [Devices -> AuthType]
            BY <2>3 DEF Clean, Unruly, Inv, AuthOK
          <6> QED BY <2>5, <6>1, <6>2 DEF PatchDevice, AuthType
        <5> QED BY <5>1
      <4> QED BY <2>5, <4>3, <4>4
    <3> QED BY <2>5, <3>2, <3>3
  <2> QED BY <2>5, <2>7, <2>8 DEF InProvisioning
<1>2. ASSUME NEW w \in Workers, TaskStep(w), UpsertStatus(w), JobOf(w).device = d, Telling(JobOf(w)),
             inventory'[d] =
               [exists |-> TRUE, revision |-> JobOf(w).revision, status |-> JobOf(w).status],
             inventory'[d] # inventory[d]
      PROVE  InProvisioning(w, d, r)'
  <2>1. JobOK(JobOf(w)) /\ Working(w) /\ JobOf(w).revision = r /\ InTask(w)
    BY <1>2, <1>s, TaskSteps, WorkersQueued, TaskStepResponds DEF Agreement
  <2>2. JobOf(w).status = "accepted"
    <3>1. r \in Given(d) /\ StatusAt(d, r) = JobOf(w).status
      BY <1>2, <2>1 DEF JobOK
    <3> QED BY <3>1, GivenKept
  <2>3. JobOf(w).workflow = "provision_device"
    BY <1>2, <2>1, <2>2, AuthStays DEF JobOK
  <2>4. JobOf(w) \notin failed' /\ JobOf(w) \notin interrupted'
    BY <1>2 DEF Clean
  <2>5. ~DeleteAuth(w) /\ ~Conflict(w) /\ workers[w].task = 1
    <3>1. TasksOf(w)[workers[w].task] \in {"create_device_inventory", "update_device_identity_inventory"}
      BY <1>2 DEF UpsertStatus, At
    <3>2. workers[w].task = 1
      BY <2>1, <2>3, <3>1, ProvisionPlaces
    <3> QED BY <1>2, <3>1, <3>2 DEF DeleteAuth, Conflict, At
  <2>6. workers'[w].task = 2
    BY <1>2, <2>4, <2>5, TaskMoves
  <2>7. Working(w)' /\ JobOf(w)' = JobOf(w)
    BY <2>1, <2>4, WorkerStays
  <2> QED BY <1>2, <2>1, <2>3, <2>6, <2>7 DEF InProvisioning
<1>3. ASSUME NEW q \in {0, NoRevision},
             inventory'[d] = [exists |-> TRUE, revision |-> q, status |-> "none"]
      PROVE  FALSE
  BY <1>3, <1>n, <1>s DEF NoRevision
<1>4. CASE inventory'[d] = Missing
  BY <1>4 DEF Arrived, Missing
<1> QED BY <1>1, <1>2, <1>3, <1>4, InventoryChanges

\* So a provisioning goes its way from each state to the next.
LEMMA ProvisionsStep == Inv /\ Agreement /\ Reported /\ Provisions /\ [Next]_vars => Provisions'
BY ProvisionedOKStep, AcceptedOKStep, ProvisioningOKStep DEF Provisions

\* An accepted device whose jobs are through is provisioned.
LEMMA AcceptedIsProvisionedOK == Inv /\ Agreement /\ Reported /\ Provisions => AcceptedIsProvisioned
<1> SUFFICES ASSUME Inv, Agreement, Reported, Provisions, NEW d \in Devices,
                    ~Busy(d), ~Unruly(d), Status(d) = "accepted",
                    \A job \in failed \union interrupted : job.device # d
             PROVE  auth[d].provisioned /\ \A s \in Services : d \in known[s]
  BY DEF AcceptedIsProvisioned
<1>1. Clean(d) /\ auth[d].log # << >>
  BY DEF Clean, Unruly, Current, Inv, AuthOK
<1>2. PICK r \in Given(d) : Latest(d, r) /\ StatusAt(d, r) = "accepted"
  BY <1>1 DEF Agreement, LogOK
<1>3. Arrived(d, r)
  BY <1>1, BusyWith DEF Reported, Excused, OnItsWay, FailedAt, Clean
<1>4. auth[d].provisioned
  BY <1>1, <1>2, <1>3, BusyWith DEF Provisions, AcceptedOK, InProvisioning
<1>5. \A s \in Services : Has(s, d)
  BY <1>1, <1>4 DEF Provisions, ProvisionedOK
<1> QED BY <1>4, <1>5, BusyWith DEF Has

\* When the jobs of an accepted device are through, deviceconnect, deviceconfig
\* and iot-manager have it and deviceauth knows that, in whatever order the jobs
\* were worked on and however often, unless a job about the device met an error or
\* a crash (the workflow provision_device).
THEOREM AcceptedGetsProvisioned == Spec => []AcceptedIsProvisioned
BY InvInit, InvStep, AgreementInit, AgreementStep, ReportedInit, ReportedStep,
   ProvisionsInit, ProvisionsStep, AcceptedIsProvisionedOK, PTL
   DEF Spec

---------------------------------------------------------------------------
(* A device that is decommissioned is forgotten.                           *)

\* Nothing that is under way about the device does anything but remove it.
Alone(d) ==
    /\ \A job : Live(job) /\ job.device = d => Removal(job)
    /\ \A w \in Workers : Working(w) /\ JobOf(w).device = d => Removal(JobOf(w))
    /\ ~Pending("provision", d)

\* The service has no document of the device, or is about to delete it.
Lacks(s, d) == d \notin known[s] \/ (s = "iot-manager" /\ Pending("decommission", d))

Gone(d) == ~Current(d) /\ ~inventory[d].exists /\ \A s \in Services : Lacks(s, d)

Uncrossed(d) == Removed(d) /\ d \notin crossed
Removing(d) == Uncrossed(d) /\ \A job \in failed : job.device # d

\* What is done when a worker is before the task t of a job that removes a device.
RemovedUpTo(job, d, t) ==
    /\ job.workflow = "decommission_device" =>
         /\ t > 2 => Lacks("deviceconnect", d)
         /\ t > 3 => Lacks("deviceconfig", d)
         /\ t > 4 => Lacks("iot-manager", d)
         /\ t > 5 => ~inventory[d].exists
         /\ t > 6 => ~Current(d)
    /\ job.workflow = "update_device_status" => (t > 1 => Gone(d))

RemovingOK(w) ==
    Working(w) /\ Removal(JobOf(w)) /\ Removing(JobOf(w).device) =>
        RemovedUpTo(JobOf(w), JobOf(w).device, workers[w].task)

RemovedOK(d) ==
    Removing(d) => Gone(d) \/ \E job : Live(job) /\ job.device = d /\ Removal(job)

Forgets ==
    /\ \A d \in Devices : (Uncrossed(d) => Alone(d)) /\ RemovedOK(d)
    /\ \A w \in Workers : RemovingOK(w)

\* No device is removed at first.
LEMMA ForgetsInit == Init => Forgets
<1> SUFFICES ASSUME Init PROVE Forgets
  OBVIOUS
<1>1. \A d \in Devices : ~Removed(d)
  BY DEF Init, Removed
<1>2. \A w \in Workers : ~Working(w)
  BY DEF Init, Working, Idle
<1> QED BY <1>1, <1>2 DEF Forgets, Uncrossed, RemovedOK, Removing, RemovingOK

\* What met other jobs once is not forgotten to have.
LEMMA CrossedGrows ==
    ASSUME Inv, [Next]_vars, NEW d \in Devices, d \in crossed
    PROVE  d \in crossed'
<1>1. CASE SameDevice(d)
  BY <1>1 DEF SameDevice
<1>2. CASE Writes(d) \/ DismissPreauthorized(d)
  BY <1>2 DEF Writes, Register, ChangeStatus, RequestDecommission, DismissPreauthorized, history
<1>3. CASE \/ \E r \in {0, NoRevision} : WriteAttributes(d, r)
           \/ \E b \in background : FinishInBackground(b)
  BY <1>3 DEF WriteAttributes, FinishInBackground, history
<1>4. ASSUME NEW w \in Workers, TaskStep(w) PROVE crossed' = crossed
  BY <1>4, TaskStepResponds DEF Respond, NoAnswer, history
<1> QED BY <1>1, <1>2, <1>3, <1>4, Elsewhere DEF DeviceStep

\* The removal of a device begins with a request, when nothing else is under way.
LEMMA UncrossedBefore ==
    ASSUME Inv, Agreement, [Next]_vars, NEW d \in Devices, Uncrossed(d)'
    PROVE  \/ Uncrossed(d)
           \/ ~Busy(d) /\ (RequestDecommission(d) \/ DismissPreauthorized(d))
<1>a. d \notin crossed
  BY CrossedGrows DEF Uncrossed
<1>t. auth \in [Devices -> AuthType] /\ auth[d] \in AuthType
  BY DEF Inv, AuthOK
<1>l. auth[d].log = << >> => ~Current(d) /\ ~auth[d].decommissioning
  BY DEF Inv, AuthOK, Current, Agreement, LogOK
<1> SUFFICES ASSUME ~Removed(d)
             PROVE  ~Busy(d) /\ (RequestDecommission(d) \/ DismissPreauthorized(d))
  BY <1>a DEF Uncrossed
<1>1. CASE auth'[d] = auth[d]
  BY <1>1 DEF Uncrossed, Removed, Current
<1>2. CASE RequestDecommission(d)
  BY <1>2 DEF RequestDecommission, Uncrossed
<1>3. CASE DismissPreauthorized(d)
  BY <1>3 DEF DismissPreauthorized, Uncrossed
<1>4. ASSUME NEW st \in {"noauth", "preauthorized"}, Register(d, st) PROVE FALSE
  <2>1. auth'[d].present /\ auth'[d].decommissioning = auth[d].decommissioning
    BY <1>t, <1>4 DEF Register, AuthType
  <2> QED BY <2>1 DEF Uncrossed, Removed, Current
<1>5. ASSUME NEW st \in Changeable, ChangeStatus(d, st) PROVE FALSE
  <2>1. auth'[d].present /\ auth'[d].decommissioning = auth[d].decommissioning
    BY <1>t, <1>5 DEF ChangeStatus, AuthType, Current
  <2> QED BY <2>1 DEF Uncrossed, Removed, Current
<1>6. ASSUME NEW w \in Workers, TaskStep(w), JobOf(w).device = d, auth'[d] # auth[d] PROVE FALSE
  <2>1. JobOK(JobOf(w)) /\ InTask(w)
    BY <1>6, TaskSteps, WorkersQueued, TaskStepResponds DEF Agreement
  <2>2. CASE PatchDevice(w)
    <3>1. Current(d)
      BY <1>6, <2>2 DEF PatchDevice
    <3>2. /\ auth'[d].present = auth[d].present
          /\ auth'[d].decommissioning = auth[d].decommissioning
      BY <1>t, <1>6, <2>2, <3>1 DEF PatchDevice, AuthType
    <3> QED BY <3>1, <3>2 DEF Uncrossed, Removed, Current
  <2>3. CASE DeleteAuth(w)
    <3>1. TasksOf(w)[workers[w].task] = "delete_device_auth"
      BY <2>3 DEF DeleteAuth, At
    <3>2. DecommissioningStep(w)
      BY <1>6, <2>1, <3>1, TaskSteps, ProvisionPlaces, StatusPlaces DEF ProvisioningStep, StatusStep
    <3> QED BY <1>6, <2>1, <3>2 DEF DecommissioningStep, JobOK, Removed
  <2>4. CASE ~PatchDevice(w) /\ ~DeleteAuth(w)
    BY <1>6, <2>4, OthersKeepAuth DEF TaskStep, ProvisioningTasks, DeletionTasks
  <2> QED BY <2>2, <2>3, <2>4
<1>7. CASE \/ \E r \in {0, NoRevision} : WriteAttributes(d, r)
           \/ \E b \in background : FinishInBackground(b)
  BY <1>1, <1>7 DEF WriteAttributes, FinishInBackground
<1>8. CASE SameDevice(d)
  BY <1>1, <1>8 DEF SameDevice
<1> QED BY <1>1, <1>2, <1>3, <1>4, <1>5, <1>6, <1>7, <1>8, Elsewhere DEF DeviceStep, Writes, Changeable

\* While a device is removed nothing else comes up about it.
LEMMA AloneStays ==
    ASSUME Inv, Agreement, [Next]_vars, NEW d \in Devices, Alone(d), Uncrossed(d)'
    PROVE  Alone(d)'
<1>1. \A st \in Changeable : ~ChangeStatus(d, st)
  <2> SUFFICES ASSUME NEW st \in Changeable, ChangeStatus(d, st) PROVE FALSE
    OBVIOUS
  <2>1. auth \in [Devices -> AuthType] /\ Current(d)
    BY DEF Inv, AuthOK, ChangeStatus
  <2>3. auth[d].decommissioning
    <3>1. auth'[d].decommissioning = auth[d].decommissioning /\ auth'[d].present
      BY <2>1 DEF ChangeStatus, AuthType, Current
    <3> QED BY <3>1 DEF Uncrossed, Removed, Current
  <2>4. d \in crossed'
    BY <2>3 DEF ChangeStatus
  <2> QED BY <2>4 DEF Uncrossed
<1>2. \A st \in {"noauth", "preauthorized"} : ~Register(d, st)
  <2> SUFFICES ASSUME NEW st \in {"noauth", "preauthorized"}, Register(d, st) PROVE FALSE
    OBVIOUS
  <2>1. auth \in [Devices -> AuthType] /\ ~auth[d].decommissioning
    BY DEF Inv, AuthOK, Register, Agreement, LogOK
  <2>2. auth'[d].present /\ auth'[d].decommissioning = auth[d].decommissioning
    BY <2>1 DEF Register, AuthType
  <2> QED BY <2>1, <2>2 DEF Uncrossed, Removed, Current
<1>3. ASSUME NEW job, Live(job)', job.device = d PROVE Removal(job)
  <2>1. CASE Live(job)
    BY <1>3, <2>1 DEF Alone
  <2>2. ASSUME NEW b \in Devices, Announces(b, job) PROVE Removal(job)
    <3>1. b = d
      BY <1>3, <2>2, JobAnnounced
    <3> QED BY <1>1, <1>2, <2>2, <3>1 DEF Announces, Announcement, Removal, Changeable
  <2> QED BY <1>3, <2>1, <2>2, JobsCome
<1>4. ASSUME NEW w \in Workers, Working(w)', JobOf(w)'.device = d PROVE Removal(JobOf(w))'
  <2>1. CASE Working(w) /\ JobOf(w)' = JobOf(w)
    BY <1>4, <2>1 DEF Alone, Removal
  <2>2. ASSUME NEW n \in DOMAIN jobs, JobOf(w)' = jobs[n].job, jobs[n].state # "gone"
        PROVE  Removal(JobOf(w))'
    <3>1. Live(jobs[n].job)
      BY <2>2 DEF Live
    <3>2. Removal(jobs[n].job)
      BY <1>4, <2>2, <3>1 DEF Alone
    <3> QED BY <2>2, <3>2 DEF Removal
  <2> QED BY <1>4, <2>1, <2>2, WorkerFate
<1>5. ~Pending("provision", d)'
  <2>1. CASE background' = background
    BY <2>1 DEF Alone, Pending
  <2>2. CASE SameDevice(d)
    BY <2>2 DEF SameDevice, Alone
  <2>3. CASE \/ Writes(d) \/ DismissPreauthorized(d)
             \/ \E r \in {0, NoRevision} : WriteAttributes(d, r)
    BY <2>1, <2>3 DEF Writes, Register, ChangeStatus, RequestDecommission, DismissPreauthorized,
                      services, WriteAttributes
  <2>4. ASSUME NEW w \in Workers, TaskStep(w), JobOf(w).device = d PROVE ~Pending("provision", d)'
    <3>1. ~ProvisioningStep(w)
      BY <2>4, TaskSteps DEF Alone, Removal, ProvisioningStep
    <3>2. background' = background \/ background' = background \union {[op |-> "decommission", device |-> d]}
      BY <2>4, <3>1, TaskSteps DEF StatusStep, DecommissioningStep, UpsertStatus, CallOther, Delete,
             StartInBackground, DeleteInventory, DeleteAuth, services
    <3> QED BY <3>2 DEF Alone, Pending
  <2>5. ASSUME NEW b \in background, FinishInBackground(b) PROVE ~Pending("provision", d)'
    BY <2>5 DEF FinishInBackground, Alone, Pending
  <2> QED BY <2>2, <2>3, <2>4, <2>5, Elsewhere DEF DeviceStep
<1> QED BY <1>3, <1>4, <1>5 DEF Alone, Removal

\* A service that has no document of the device gets none.
LEMMA LacksStays ==
    ASSUME Inv, Agreement, [Next]_vars, NEW d \in Devices, Alone(d), NEW s \in Services, Lacks(s, d)
    PROVE  Lacks(s, d)'
<1>t. /\ known \in [Services -> SUBSET Devices]
      /\ background \subseteq [op: {"provision", "decommission"}, device: Devices]
  BY DEF Inv, ServicesOK
<1>1. CASE SameDevice(d)
  BY <1>1 DEF SameDevice, Lacks
<1>2. CASE known' = known /\ background' = background
  BY <1>2 DEF Lacks, Pending
<1>3. CASE \/ Writes(d) \/ DismissPreauthorized(d)
           \/ \E r \in {0, NoRevision} : WriteAttributes(d, r)
  BY <1>2, <1>3 DEF Writes, Register, ChangeStatus, RequestDecommission, DismissPreauthorized, services,
                    WriteAttributes
<1>4. ASSUME NEW w \in Workers, TaskStep(w), JobOf(w).device = d PROVE Lacks(s, d)'
  <2>1. ~ProvisioningStep(w)
    BY <1>4, TaskSteps DEF Alone, Removal, ProvisioningStep
  <2>2. CASE StatusStep(w)
    BY <1>2, <2>2 DEF StatusStep, UpsertStatus, CallOther, services
  <2>3. CASE DecommissioningStep(w)
    <3>1. background \subseteq background'
      BY <2>3 DEF DecommissioningStep, CallOther, Delete, StartInBackground, DeleteInventory,
                  DeleteAuth, services
    <3>2. known'[s] \subseteq known[s]
      BY <1>t, <2>3 DEF DecommissioningStep, CallOther, Delete, StartInBackground, DeleteInventory,
                  DeleteAuth, services, Services
    <3> QED BY <3>1, <3>2 DEF Lacks, Pending
  <2> QED BY <1>4, <2>1, <2>2, <2>3, TaskSteps
<1>5. ASSUME NEW b \in background, FinishInBackground(b), b.device = d PROVE Lacks(s, d)'
  <2>1. b = [op |-> b.op, device |-> d] /\ b.op \in {"provision", "decommission"}
    BY <1>t, <1>5
  <2>2. b.op = "decommission"
    BY <2>1 DEF Alone, Pending
  <2>3. /\ s = "iot-manager" => d \notin known'[s]
        /\ s # "iot-manager" => known'[s] = known[s]
    BY <1>t, <1>5, <2>2 DEF FinishInBackground, Services
  <2> QED BY <2>3 DEF Lacks
<1> QED BY <1>1, <1>3, <1>4, <1>5, Elsewhere DEF DeviceStep

\* Nor does the inventory, and deviceauth does not take the device back.
LEMMA AbsenceStays ==
    ASSUME Inv, Agreement, [Next]_vars, NEW d \in Devices, Removed(d), Alone(d)
    PROVE  /\ ~Current(d) => ~Current(d)'
           /\ ~inventory[d].exists => ~inventory'[d].exists
           /\ Gone(d) => Gone(d)'
<1>1. auth[d].log # << >>
  BY DEF Removed, Agreement, LogOK
<1>2. ~Current(d) => ~Current(d)'
  BY <1>1, AuthStays
<1>3. ~inventory[d].exists => ~inventory'[d].exists
  <2>1. \A r : ~WriteAttributes(d, r)
    BY DEF WriteAttributes, Removed
  <2>2. \A w \in Workers : TaskStep(w) /\ JobOf(w).device = d => ~Telling(JobOf(w))
    BY TaskSteps DEF Alone, Removal, Telling
  <2>3. Missing.exists = FALSE
    BY DEF Missing
  <2>4. CASE inventory'[d] = inventory[d]
    BY <2>4
  <2>5. CASE inventory'[d] = Missing
    BY <2>3, <2>5
  <2>6. \/ inventory'[d] = inventory[d] \/ inventory'[d] = Missing
        \/ \E r \in {0, NoRevision} : WriteAttributes(d, r)
        \/ \E w \in Workers : TaskStep(w) /\ JobOf(w).device = d /\ Telling(JobOf(w))
    BY InventoryChanges
  <2> QED BY <2>1, <2>2, <2>4, <2>5, <2>6
<1> QED BY <1>2, <1>3, LacksStays DEF Gone

\* What a job has taken away stays away.
LEMMA RemovedUpToStays ==
    ASSUME Inv, Agreement, [Next]_vars, NEW d \in Devices, Removed(d), Alone(d),
           NEW job, NEW t \in Nat, RemovedUpTo(job, d, t)
    PROVE  RemovedUpTo(job, d, t)'
<1>1. \A s \in Services : Lacks(s, d) => Lacks(s, d)'
  BY LacksStays
<1>2. "deviceconnect" \in Services /\ "deviceconfig" \in Services /\ "iot-manager" \in Services
  BY DEF Services
<1> QED BY <1>1, <1>2, AbsenceStays DEF RemovedUpTo

\* Each task of a decommissioning takes the device away from its service.
LEMMA DecommissioningDone ==
    ASSUME Inv, Agreement, [Next]_vars, NEW w \in Workers, TaskStep(w), NEW job, job = JobOf(w),
           NEW d \in Devices, job.device = d, Removed(d), Alone(d), NEW t \in 1..7, t = workers[w].task,
           job.workflow = "decommission_device", RemovedUpTo(job, d, t)
    PROVE  RemovedUpTo(job, d, t + 1)'
<1>t. /\ auth \in [Devices -> AuthType] /\ inventory \in [Devices -> DocumentType]
      /\ known \in [Services -> SUBSET Devices]
  BY DEF Inv, AuthOK, ServicesOK
<1>1. RemovedUpTo(job, d, t)'
  BY RemovedUpToStays
<1>2. DecommissioningStep(w)
  BY TaskSteps DEF ProvisioningStep, StatusStep
<1>3. CASE t = 1
  BY <1>1, <1>3 DEF RemovedUpTo
<1>4. CASE t = 2
  <2>1. d \notin known'["deviceconnect"]
    BY <1>t, <1>2, <1>4 DEF DecommissioningStep, Delete, Services
  <2> QED BY <1>1, <1>4, <2>1 DEF RemovedUpTo, Lacks
<1>5. CASE t = 3
  <2>1. d \notin known'["deviceconfig"]
    BY <1>t, <1>2, <1>5 DEF DecommissioningStep, Delete, Services
  <2> QED BY <1>1, <1>5, <2>1 DEF RemovedUpTo, Lacks
<1>6. CASE t = 4
  <2>1. Pending("decommission", d)'
    BY <1>2, <1>6 DEF DecommissioningStep, StartInBackground, Pending
  <2> QED BY <1>1, <1>6, <2>1 DEF RemovedUpTo, Lacks
<1>7. CASE t = 5
  <2>1. ~inventory'[d].exists
    BY <1>t, <1>2, <1>7 DEF DecommissioningStep, DeleteInventory, Missing
  <2> QED BY <1>1, <1>7, <2>1 DEF RemovedUpTo
<1>8. CASE t = 6
  <2>1. ~Current(d)'
    BY <1>t, <1>2, <1>8 DEF DecommissioningStep, DeleteAuth, Current, AuthType
  <2> QED BY <1>1, <1>8, <2>1 DEF RemovedUpTo
<1>9. t \in 1..6
  BY <1>2 DEF DecommissioningStep
<1> QED BY <1>3, <1>4, <1>5, <1>6, <1>7, <1>8, <1>9

\* A device that was only preauthorized is nowhere but in the inventory.
LEMMA DismissalDone ==
    ASSUME Inv, Agreement, [Next]_vars, NEW w \in Workers, TaskStep(w), NEW job, job = JobOf(w),
           NEW d \in Devices, job.device = d, Removed(d), Alone(d), NEW t \in 1..7, t = workers[w].task,
           job.workflow = "update_device_status", job.status = "decommissioned", RemovedUpTo(job, d, t)
    PROVE  RemovedUpTo(job, d, t + 1)'
<1>t. inventory \in [Devices -> DocumentType]
  BY DEF Inv, ServicesOK
<1>1. RemovedUpTo(job, d, t)'
  BY RemovedUpToStays
<1>2. StatusStep(w)
  BY TaskSteps DEF ProvisioningStep, DecommissioningStep
<1>3. CASE t = 1
  <2>1. ~inventory'[d].exists
    <3>1. inventory' = [inventory EXCEPT ![d] = Missing]
      BY <1>2, <1>3 DEF StatusStep, UpsertStatus
    <3> QED BY <1>t, <3>1 DEF Missing
  <2>2. JobOK(job)
    BY TaskSteps, WorkersQueued DEF Agreement
  <2>3. ~Current(d) /\ \A s \in Services : Lacks(s, d)
    BY <2>2 DEF JobOK, Agreement, KnownOK, Lacks
  <2>4. Gone(d)'
    BY <2>1, <2>3, AbsenceStays, LacksStays DEF Gone
  <2> QED BY <2>4 DEF RemovedUpTo
<1>4. CASE t = 2
  BY <1>1, <1>4 DEF RemovedUpTo
<1>5. t \in 1..2
  BY <1>2 DEF StatusStep
<1> QED BY <1>3, <1>4, <1>5

\* A job that removes a device goes from task to task, unless it meets an error.
LEMMA RemovalMoves ==
    ASSUME Inv, NEW w \in Workers, TaskStep(w), Removal(JobOf(w)), JobOf(w) \notin failed',
           NEW t \in 1..7, t = workers[w].task
    PROVE  workers'[w].task = t \/ workers'[w].task = t + 1
<1>1. ~Conflict(w)
  BY StatusTasksOnly DEF Conflict, Removal
<1>2. ASSUME DeleteAuth(w) PROVE t = 6 /\ Len(TasksOf(w)) = 6
  <2>1. TasksOf(w)[workers[w].task] = "delete_device_auth" /\ InTask(w)
    BY <1>2 DEF DeleteAuth, At
  <2>2. DecommissioningStep(w)
    BY <2>1, TaskSteps, ProvisionPlaces, StatusPlaces DEF ProvisioningStep, StatusStep
  <2>3. JobOf(w).workflow = "decommission_device"
    BY <2>2 DEF DecommissioningStep
  <2> QED BY <2>1, <2>3, DecommissionPlaces
<1>3. CASE DeleteAuth(w)
  BY <1>1, <1>2, <1>3, TaskMoves
<1>4. CASE ~DeleteAuth(w)
  BY <1>1, <1>4, TaskMoves
<1> QED BY <1>3, <1>4

\* Nothing but removals is under way about a device that is removed on its own.
LEMMA AloneBefore ==
    ASSUME Inv, Agreement, Forgets, [Next]_vars, NEW d \in Devices, Uncrossed(d)'
    PROVE  Alone(d)
<1>1. CASE Uncrossed(d)
  BY <1>1 DEF Forgets
<1>2. CASE ~Busy(d)
  BY <1>2, BusyWith DEF Alone
<1> QED BY <1>1, <1>2, UncrossedBefore

\* A worker that removes a device has done what it is past.
LEMMA RemovingOKStep ==
    ASSUME Inv, Agreement, Forgets, [Next]_vars, NEW w \in Workers
    PROVE  RemovingOK(w)'
<1> SUFFICES ASSUME Working(w)', Removal(JobOf(w))', Removing(JobOf(w).device)'
             PROVE  (RemovedUpTo(JobOf(w), JobOf(w).device, workers[w].task))'
  BY DEF RemovingOK
<1>1. PICK job : job = JobOf(w)'
  OBVIOUS
<1>2. PICK d : d = job.device
  OBVIOUS
<1>3. PICK u : u = workers'[w].task
  OBVIOUS
<1>4. Removal(job) /\ Removing(d)'
  BY <1>1, <1>2 DEF Removal
<1> SUFFICES RemovedUpTo(job, d, u)'
  BY <1>1, <1>2, <1>3
<1>5. CASE u = 1
  BY <1>5 DEF RemovedUpTo
<1>6. ASSUME Working(w), JobOf(w) = job, TaskStep(w) \/ u = workers[w].task \/ job \in failed'
      PROVE  RemovedUpTo(job, d, u)'
  <2>1. job \in JobType /\ d \in Devices /\ workers[w].task \in 1..7
    <3>1. job \in JobType /\ Len(TasksOf(w)) \in {2, 6}
      BY <1>6, WorkingJob
    <3>2. PICK n \in {2, 6} : n = Len(TasksOf(w))
      BY <3>1
    <3>3. workers[w].task \in 1..n + 1
      BY <1>6, <3>2 DEF Inv, WorkersOK
    <3>4. d \in Devices
      BY <1>2, <3>1 DEF JobType
    <3>5. CASE n = 2
      BY <3>1, <3>3, <3>4, <3>5
    <3>6. CASE n = 6
      BY <3>1, <3>3, <3>4, <3>6
    <3> QED BY <3>5, <3>6
  <2>2. PICK t \in 1..7 : t = workers[w].task
    BY <2>1
  <2>3. Uncrossed(d) /\ Alone(d) /\ job \notin failed' /\ Removing(d)
    BY <1>2, <1>4, <1>6, <2>1, UncrossedBefore, AloneBefore, BusyWith, HistoryGrows DEF Removing
  <2>4. RemovedUpTo(job, d, t)
    BY <1>2, <1>4, <1>6, <2>2, <2>3 DEF Forgets, RemovingOK
  <2>5. Removed(d)
    BY <2>3 DEF Uncrossed
  <2>6. CASE u = t
    BY <2>1, <2>3, <2>4, <2>5, <2>6, RemovedUpToStays
  <2>7. CASE TaskStep(w) /\ u = t + 1
    BY <1>2, <1>4, <1>6, <2>1, <2>2, <2>3, <2>4, <2>5, <2>7, DecommissioningDone, DismissalDone DEF Removal
  <2>8. TaskStep(w) => u = t \/ u = t + 1
    BY <1>3, <1>4, <1>6, <2>2, <2>3, RemovalMoves
  <2> QED BY <1>6, <2>2, <2>3, <2>6, <2>7, <2>8
<1> QED BY <1>1, <1>3, <1>5, <1>6, WorkerFate

\* A worker that is through with the removal of a device leaves nothing of it.
LEMMA RemovalThrough ==
    ASSUME Inv, Agreement, Forgets, NEW w \in Workers, Acknowledge(w), NEW job, job = JobOf(w),
           Removal(job), NEW d, d = job.device, Removing(d)
    PROVE  Gone(d)
<1>1. Working(w) /\ ~InTask(w)
  BY DEF Acknowledge
<1>2. JobOf(w) \in JobType /\ TasksOf(w) = Tasks[job.workflow]
  BY <1>1, WorkingJob DEF TasksOf
<1>3. PICK t : t = workers[w].task
  OBVIOUS
<1>4. RemovedUpTo(job, d, t)
  BY <1>1, <1>3 DEF Forgets, RemovingOK
<1>5. PICK n \in {2, 6} : n = Len(TasksOf(w))
  BY <1>1, WorkingJob
<1>6. t = n + 1
  BY <1>1, <1>3, <1>5 DEF InTask, Inv, WorkersOK
<1>7. CASE job.workflow = "decommission_device"
  <2>1. TasksOf(w) = DecommissionTasks
    BY <1>2, <1>7 DEF Tasks
  <2>2. t = 7
    BY <1>5, <1>6, <2>1, TaskCounts
  <2> QED BY <1>4, <1>7, <2>2 DEF RemovedUpTo, Gone, Services
<1>8. CASE job.workflow = "update_device_status"
  <2>1. TasksOf(w) = StatusTasks
    BY <1>2, <1>8 DEF Tasks
  <2>2. t = 3
    BY <1>5, <1>6, <2>1, TaskCounts
  <2> QED BY <1>4, <1>8, <2>2 DEF RemovedUpTo
<1> QED BY <1>7, <1>8 DEF Removal

\* The removal of a device is under way until the device is gone.
LEMMA RemovedOKStep ==
    ASSUME Inv, Agreement, Forgets, [Next]_vars, NEW d \in Devices
    PROVE  RemovedOK(d)'
<1> SUFFICES ASSUME Removing(d)'
             PROVE  Gone(d)' \/ \E job : Live(job)' /\ job.device = d /\ Removal(job)
  BY DEF RemovedOK, Removal
<1>1. ASSUME NEW job, Announces(d, job), Removal(job)
      PROVE  \E j : Live(j)' /\ j.device = d /\ Removal(j)
  <2>1. job \in unsent'
    BY <1>1 DEF Announces, Register, ChangeStatus, RequestDecommission, DismissPreauthorized
  <2> QED BY <1>1, <2>1, JobAnnounced DEF Live
<1>2. CASE RequestDecommission(d)
  <2>1. PICK job : job = Announcement("decommission_device", d, Status(d), Len(auth[d].log) + 1)
    OBVIOUS
  <2>2. Announces(d, job) /\ Removal(job)
    BY <1>2, <2>1 DEF Announces, Removal, Announcement
  <2> QED BY <1>1, <2>2
<1>3. CASE DismissPreauthorized(d)
  <2>1. PICK job : job = Announcement("update_device_status", d, "decommissioned", 0)
    OBVIOUS
  <2>2. Announces(d, job) /\ Removal(job)
    BY <1>3, <2>1 DEF Announces, Removal, Announcement
  <2> QED BY <1>1, <2>2
<1>4. CASE Uncrossed(d)
  <2>1. Removing(d) /\ Alone(d) /\ Removed(d)
    BY <1>4, AloneBefore, HistoryGrows DEF Removing, Uncrossed
  <2>2. CASE Gone(d)
    BY <2>1, <2>2, AbsenceStays
  <2>3. ASSUME NEW job, Live(job), job.device = d, Removal(job)
        PROVE  Gone(d)' \/ Live(job)'
    <3>1. job \notin failed'
      BY <2>3 DEF Removing
    <3>2. ASSUME NEW w \in Workers, Acknowledge(w), JobOf(w) = job PROVE Gone(d)'
      BY <2>1, <2>3, <3>2, RemovalThrough, AbsenceStays
    <3> QED BY <2>3, <3>1, <3>2, JobsGo
  <2> QED BY <2>1, <2>2, <2>3 DEF Forgets, RemovedOK
<1> QED BY <1>2, <1>3, <1>4, UncrossedBefore DEF Removing

\* So a removal goes its way from each state to the next.
LEMMA ForgetsStep == Inv /\ Agreement /\ Forgets /\ [Next]_vars => Forgets'
<1> SUFFICES ASSUME Inv, Agreement, Forgets, [Next]_vars PROVE Forgets'
  OBVIOUS
<1>1. \A d \in Devices : Uncrossed(d)' => Alone(d)'
  BY AloneBefore, AloneStays
<1> QED BY <1>1, RemovedOKStep, RemovingOKStep DEF Forgets

\* When nothing is under way about a removed device, it is gone.
LEMMA DecommissionForgetsOK == Inv /\ Forgets => DecommissionForgets
<1> SUFFICES ASSUME Inv, Forgets, NEW d \in Devices, ~Busy(d), Removed(d), d \notin crossed,
                    \A job \in failed : job.device # d
             PROVE  /\ ~Current(d) /\ ~inventory[d].exists
                    /\ \A service \in Services : d \notin known[service]
  BY DEF DecommissionForgets
<1>1. Removing(d)
  BY DEF Removing, Uncrossed
<1>2. Gone(d)
  BY <1>1, BusyWith DEF Forgets, RemovedOK
<1> QED BY <1>2, BusyWith DEF Gone, Lacks

\* When the decommissioning of a device is through, deviceauth, the inventory,
\* deviceconnect, deviceconfig and iot-manager have forgotten it, however often its
\* job was cut short and begun again, unless a job about the device met an error or
\* others were under way with it (the workflow decommission_device, the handlers
\* that delete a device, deletePreauthDevice of deviceauth).
THEOREM DecommissionedIsForgotten == Spec => []DecommissionForgets
BY InvInit, InvStep, AgreementInit, AgreementStep, ForgetsInit, ForgetsStep, DecommissionForgetsOK, PTL
   DEF Spec

=============================================================================
