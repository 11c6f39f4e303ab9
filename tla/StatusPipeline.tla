--------------------------- MODULE StatusPipeline ---------------------------
(***************************************************************************)
(* How the status of a device gets from the deviceauth service to the      *)
(* other services: deviceauth writes the status and submits a job to the   *)
(* workflows service, whose workers take the jobs from a queue and run     *)
(* their tasks, calls to the other services (services/workflows: api,      *)
(* app/worker, app/processor, worker/workflows; the called handlers of     *)
(* inventory, deviceconnect, deviceconfig, iot-manager and deviceauth).    *)
(*                                                                         *)
(* The queue (a NATS JetStream work queue) is external: a job stays in it  *)
(* until it is acknowledged, and is delivered again when the worker that   *)
(* has it is silent for too long.                                          *)
(***************************************************************************)
EXTENDS Integers, Sequences, FiniteSets

CONSTANTS
    Devices,
    Workers,      \* workers of the workflows service
    NumJobs,      \* bound on the jobs ever submitted
    MaxRevision,  \* bound on the revision up to which statuses are changed
    Retries,      \* how often a refused task is tried again
    DeviceWrites, \* devices write attributes to the inventory themselves
    MaxFaults     \* bound on crashes, broken calls and lost answers

ASSUME BoundsAssumption ==
    NumJobs \in Nat /\ MaxRevision \in Nat /\ Retries \in Nat /\ MaxFaults \in Nat
ASSUME DeviceWritesAssumption == DeviceWrites \in BOOLEAN

VARIABLES
    auth,        \* the devices in deviceauth, with their history
    unsent,      \* jobs whose submission deviceauth is about to make
    jobs,        \* the jobs in the queue, in the order of their submission
    workers,     \* what each worker does
    inventory,   \* the device documents of the inventory
    known,       \* the devices each of the other services has a document of
    background,  \* work iot-manager goes on with after it answered
    failed,      \* jobs given up because of an error that no service answered
    interrupted, \* jobs cut short by a crash
    crossed,     \* devices whose decommissioning met other jobs about them
    faults       \* faults so far

services == <<inventory, known, background>>
history == <<failed, interrupted, crossed, faults>>
vars == <<auth, unsent, jobs, workers, services, history>>

---------------------------------------------------------------------------
(* State.                                                                  *)

Statuses == {"noauth", "pending", "accepted", "rejected", "preauthorized"}
Services == {"deviceconnect", "deviceconfig", "iot-manager"}

\* The tasks of the workflow definitions, in their order.
ProvisionTasks ==
    <<"create_device_inventory", "provision_deviceconnect", "provision_deviceconfig",
      "provision_iot-manager", "provision_deviceauth", "update_iot_manager_status">>
StatusTasks == <<"update_device_identity_inventory", "update_azure_status">>
DecommissionTasks ==
    <<"delete_device_deployments", "delete_device_deviceconnect", "delete_device_deviceconfig",
      "delete_iot_device", "delete_device_inventory", "delete_device_auth">>

Tasks ==
    [provision_device |-> ProvisionTasks, update_device_status |-> StatusTasks,
     decommission_device |-> DecommissionTasks]

\* Faulty variant of Tolerated: nothing but success is tolerated.
DoneOnly(task) == {"done"}

\* The answers a task takes for success ("statusCodes", or any below 400).
Tolerated(task) ==
    CASE task = "provision_deviceconfig" -> {"done", "exists"}
      [] task \in {"delete_device_deviceconnect", "delete_device_deviceconfig",
                   "provision_deviceauth"} -> {"done", "missing"}
      [] OTHER -> {"done"}

JobType ==
    [workflow: DOMAIN Tasks, device: Devices, revision: Nat,
     status: Statuses \union {"decommissioned"}]

QueueStates == {"new", "out", "again", "gone"}
Idle == [n |-> 0, task |-> 0, attempt |-> 0, watched |-> FALSE]
Missing == [exists |-> FALSE, revision |-> 0, status |-> "none"]
NoRevision == -1

Working(w) == workers[w].n # 0
JobOf(w) == jobs[workers[w].n].job
TasksOf(w) == Tasks[JobOf(w).workflow]
InTask(w) == Working(w) /\ workers[w].task <= Len(TasksOf(w))
At(w, task) == InTask(w) /\ TasksOf(w)[workers[w].task] = task

LastOf(s) == s[Len(s)]
Status(d) == LastOf(auth[d].log).status
Current(d) == auth[d].present

---------------------------------------------------------------------------
(* The deviceauth service: each write of a status is one revision, and is  *)
(* followed by the submission of a job (updateDeviceStatus).               *)

Room == Len(jobs) + Cardinality(unsent) < NumJobs

Entry(st, told) == [status |-> st, told |-> told]

Announcement(workflow, d, st, revision) ==
    [workflow |-> workflow, device |-> d, status |-> st, revision |-> revision]

\* A device is stored without a status of its own, or preauthorized.
Register(d, st) ==
    /\ auth[d].log = << >> /\ Room
    /\ auth' = [auth EXCEPT ![d].present = TRUE,
                            ![d].log = <<Entry(st, st = "preauthorized")>>]
    /\ unsent' = IF st = "preauthorized"
                   THEN unsent \union {Announcement("update_device_status", d, st, 1)}
                   ELSE unsent
    /\ UNCHANGED <<jobs, workers, services, history>>

\* Faulty variant of WorkflowFor: provisioned or not, only the status is told.
StatusOnly(d, st) == "update_device_status"

\* The first acceptance provisions the device.
WorkflowFor(d, st) ==
    IF st = "accepted" /\ ~auth[d].provisioned THEN "provision_device"
    ELSE "update_device_status"

\* UpdateDeviceWithRevision succeeded.  Authentication sets may be accepted or
\* rejected while the device is being decommissioned.
ChangeStatus(d, st) ==
    /\ Current(d) /\ st # Status(d)
    /\ Room /\ Len(auth[d].log) < MaxRevision
    /\ auth' = [auth EXCEPT ![d].log = Append(@, Entry(st, TRUE))]
    /\ unsent' = unsent \union
         {Announcement(WorkflowFor(d, st), d, st, Len(auth[d].log) + 1)}
    /\ crossed' = IF auth[d].decommissioning THEN crossed \union {d} ELSE crossed
    /\ UNCHANGED <<jobs, workers, services, failed, interrupted, faults>>

Busy(d) ==
    \/ \E job \in unsent : job.device = d
    \/ \E n \in DOMAIN jobs : jobs[n].job.device = d /\ jobs[n].state # "gone"
    \/ \E w \in Workers : Working(w) /\ JobOf(w).device = d
    \/ \E b \in background : b.device = d

\* DecommissionDevice: the flag is one more revision of the same status.
RequestDecommission(d) ==
    /\ Current(d) /\ ~auth[d].decommissioning
    /\ Room /\ Len(auth[d].log) < MaxRevision
    /\ auth' = [auth EXCEPT ![d].decommissioning = TRUE,
                            ![d].log = Append(@, Entry(Status(d), FALSE))]
    /\ unsent' = unsent \union
         {Announcement("decommission_device", d, Status(d), Len(auth[d].log) + 1)}
    /\ crossed' = IF Busy(d) THEN crossed \union {d} ELSE crossed
    /\ UNCHANGED <<jobs, workers, services, failed, interrupted, faults>>

\* deletePreauthDevice, when the only authentication set is dismissed.
DismissPreauthorized(d) ==
    /\ Current(d) /\ Status(d) = "preauthorized" /\ Room
    /\ auth' = [auth EXCEPT ![d].present = FALSE]
    /\ unsent' = unsent \union
         {Announcement("update_device_status", d, "decommissioned", 0)}
    /\ crossed' = IF Busy(d) THEN crossed \union {d} ELSE crossed
    /\ UNCHANGED <<jobs, workers, services, failed, interrupted, faults>>

\* StartWorkflow of the workflows service publishes the job.
SubmitJob(job) ==
    /\ job \in unsent
    /\ unsent' = unsent \ {job}
    /\ jobs' = Append(jobs, [job |-> job, state |-> "new"])
    /\ UNCHANGED <<auth, workers, services, history>>

Fault == faults < MaxFaults /\ faults' = faults + 1

\* The call that submits the job fails, or deviceauth crashes before it.
LoseSubmission(job) ==
    /\ job \in unsent
    /\ Fault
    /\ unsent' = unsent \ {job}
    /\ failed' = failed \union {job}
    /\ UNCHANGED <<auth, jobs, workers, services, interrupted, crossed>>

---------------------------------------------------------------------------
(* The queue.                                                              *)

\* Faulty variant of Fetch: the job is acknowledged when it is taken.
FetchAcknowledged(w, n) ==
    /\ ~Working(w)
    /\ n \in DOMAIN jobs
    /\ jobs[n].state = "new" /\ \A m \in 1..(n - 1) : jobs[m].state # "new"
    /\ jobs' = [jobs EXCEPT ![n].state = "gone"]
    /\ workers' = [workers EXCEPT ![w] =
                     [n |-> n, task |-> 1, attempt |-> 0, watched |-> TRUE]]
    /\ UNCHANGED <<auth, unsent, services, history>>

\* A pull consumer hands out the oldest new job, or one to be repeated.
Fetch(w, n) ==
    /\ ~Working(w)
    /\ n \in DOMAIN jobs
    /\ \/ jobs[n].state = "again"
       \/ jobs[n].state = "new" /\ \A m \in 1..(n - 1) : jobs[m].state # "new"
    /\ jobs' = [jobs EXCEPT ![n].state = "out"]
    /\ workers' = [workers EXCEPT ![w] =
                     [n |-> n, task |-> 1, attempt |-> 0, watched |-> TRUE]]
    /\ UNCHANGED <<auth, unsent, services, history>>

\* The wait for an acknowledgement ends with nobody reporting progress.
Redeliver(n) ==
    /\ n \in DOMAIN jobs
    /\ jobs[n].state = "out"
    /\ \A w \in Workers : workers[w].n = n => ~workers[w].watched
    /\ jobs' = [jobs EXCEPT ![n].state = "again"]
    /\ UNCHANGED <<auth, unsent, workers, services, history>>

---------------------------------------------------------------------------
(* A worker (doWokerJob, ProcessJob).                                      *)

\* A refused task is tried again, the last refusal ends the job, like the last
\* task; the position behind the last task means the job is to be acknowledged.
Answer(w, answer) ==
    LET me == workers[w] IN
    workers' = [workers EXCEPT ![w] =
      IF answer \in Tolerated(TasksOf(w)[me.task]) THEN [me EXCEPT !.task = @ + 1, !.attempt = 0]
      ELSE IF me.attempt < Retries THEN [me EXCEPT !.attempt = @ + 1]
      ELSE [me EXCEPT !.task = Len(TasksOf(w)) + 1]]

\* A call without an answer is a Go error: it ends the job at once.
NoAnswer(w) ==
    /\ Fault
    /\ workers' = [workers EXCEPT ![w].task = Len(TasksOf(w)) + 1]
    /\ failed' = failed \union {JobOf(w)}
    /\ UNCHANGED <<interrupted, crossed>>

\* The service has acted; its answer arrives or not.
Respond(w, answer) ==
    /\ \/ Answer(w, answer) /\ UNCHANGED history
       \/ NoAnswer(w)
    /\ UNCHANGED <<unsent, jobs>>

\* The service is not reached.
BrokenCall(w) ==
    /\ InTask(w)
    /\ NoAnswer(w)
    /\ UNCHANGED <<auth, unsent, jobs, services>>

\* The service answers with an error of its own and has done nothing.
ServerError(w) ==
    /\ InTask(w)
    /\ Fault
    /\ Answer(w, "error")
    /\ failed' = IF workers[w].attempt < Retries THEN failed ELSE failed \union {JobOf(w)}
    /\ UNCHANGED <<auth, unsent, jobs, services, interrupted, crossed>>

\* Faulty variant of Newer: the revision is not compared.
AnyRevision(doc, revision) == TRUE

Newer(doc, revision) == doc.revision # NoRevision /\ doc.revision < revision

\* InternalDevicesStatusHandler: the document is written if its revision is
\* lower, or inserted; another document of the device makes it a conflict.
UpsertStatus(w) ==
    /\ At(w, "create_device_inventory") \/ At(w, "update_device_identity_inventory")
    /\ LET job == JobOf(w)
           doc == inventory[job.device]
           new == [exists |-> TRUE, revision |-> job.revision, status |-> job.status]
       IN \/ /\ job.status = "decommissioned"
             /\ inventory' = [inventory EXCEPT ![job.device] = Missing]
             /\ Respond(w, "done")
          \/ /\ job.status # "decommissioned"
             /\ doc.exists => Newer(doc, job.revision)
             /\ inventory' = [inventory EXCEPT ![job.device] = new]
             /\ Respond(w, "done")
          \/ /\ job.status # "decommissioned"
             /\ doc.exists /\ ~Newer(doc, job.revision)
             /\ Respond(w, "conflict")
             /\ UNCHANGED inventory
    /\ UNCHANGED <<auth, known, background>>

\* ProvisionDevice of deviceconnect takes a known device for success, the one
\* of deviceconfig tells.
Provision(w, service, task) ==
    /\ At(w, task)
    /\ known' = [known EXCEPT ![service] = @ \union {JobOf(w).device}]
    /\ Respond(w, IF service = "deviceconfig" /\ JobOf(w).device \in known[service]
                    THEN "exists" ELSE "done")
    /\ UNCHANGED <<auth, inventory, background>>

\* iot-manager answers and does the rest on its own, in any order.
StartInBackground(w, op, task) ==
    /\ At(w, task)
    /\ background' = background \union {[op |-> op, device |-> JobOf(w).device]}
    /\ Respond(w, "done")
    /\ UNCHANGED <<auth, inventory, known>>

FinishInBackground(b) ==
    /\ b \in background
    /\ background' = background \ {b}
    /\ known' = [known EXCEPT !["iot-manager"] =
                   IF b.op = "provision" THEN @ \union {b.device} ELSE @ \ {b.device}]
    /\ UNCHANGED <<auth, unsent, jobs, workers, inventory, history>>

\* UpdateDevice of deviceauth counts as a revision and announces nothing.
PatchDevice(w) ==
    /\ At(w, "provision_deviceauth")
    /\ LET d == JobOf(w).device
       IN /\ auth' = IF ~Current(d) THEN auth
                     ELSE [auth EXCEPT ![d].provisioned = TRUE,
                                       ![d].log = Append(@, Entry(Status(d), FALSE))]
          /\ Respond(w, IF Current(d) THEN "done" ELSE "missing")
    /\ UNCHANGED services

\* The webhooks of iot-manager, and the device deployments, are not in here.
CallOther(w) ==
    /\ \E task \in {"update_iot_manager_status", "update_azure_status",
                    "delete_device_deployments"} : At(w, task)
    /\ Respond(w, "done")
    /\ UNCHANGED <<auth, services>>

Delete(w, service, task) ==
    /\ At(w, task)
    /\ known' = [known EXCEPT ![service] = @ \ {JobOf(w).device}]
    /\ Respond(w, IF JobOf(w).device \in known[service] THEN "done" ELSE "missing")
    /\ UNCHANGED <<auth, inventory, background>>

\* DeleteDeviceHandler of the inventory: a missing device is fine.
DeleteInventory(w) ==
    /\ At(w, "delete_device_inventory")
    /\ inventory' = [inventory EXCEPT ![JobOf(w).device] = Missing]
    /\ Respond(w, "done")
    /\ UNCHANGED <<auth, known, background>>

\* DeleteDeviceHandler of deviceauth: a missing device is an error.
DeleteAuth(w) ==
    /\ At(w, "delete_device_auth")
    /\ LET d == JobOf(w).device
       IN /\ auth' = [auth EXCEPT ![d].present = FALSE]
          /\ Respond(w, IF Current(d) THEN "done" ELSE "missing")
    /\ UNCHANGED services

\* Faulty variant of Acknowledge: a worker keeps a job that met an error.
AcknowledgeSuccess(w) ==
    /\ Working(w) /\ ~InTask(w)
    /\ JobOf(w) \notin failed
    /\ jobs' = [jobs EXCEPT ![workers[w].n].state = "gone"]
    /\ workers' = [workers EXCEPT ![w] = Idle]
    /\ UNCHANGED <<auth, unsent, services, history>>

\* Whatever the outcome, the job is acknowledged, and the queue drops it.
Acknowledge(w) ==
    /\ Working(w) /\ ~InTask(w)
    /\ jobs' = [jobs EXCEPT ![workers[w].n].state = "gone"]
    /\ workers' = [workers EXCEPT ![w] = Idle]
    /\ UNCHANGED <<auth, unsent, services, history>>

\* The acknowledgement does not reach the queue: that is only logged.
LoseAcknowledgement(w) ==
    /\ Working(w) /\ ~InTask(w)
    /\ Fault
    /\ workers' = [workers EXCEPT ![w] = Idle]
    /\ UNCHANGED <<auth, unsent, jobs, services, failed, interrupted, crossed>>

\* workerSidecar stops reporting progress after one report that failed.
LoseWatch(w) ==
    /\ Working(w) /\ workers[w].watched
    /\ Fault
    /\ workers' = [workers EXCEPT ![w].watched = FALSE]
    /\ UNCHANGED <<auth, unsent, jobs, services, failed, interrupted, crossed>>

\* The process of the worker crashes; the job is delivered again.
Crash(w) ==
    /\ Working(w)
    /\ Fault
    /\ workers' = [workers EXCEPT ![w] = Idle]
    /\ interrupted' = interrupted \union {JobOf(w)}
    /\ UNCHANGED <<auth, unsent, jobs, services, failed, crossed>>

---------------------------------------------------------------------------
(* A device with a token writes attributes to the inventory: the first     *)
(* write of a device inserts its document, PATCH with revision 0           *)
(* (upsertAttributes), PUT without one (UpsertRemoveDeviceAttributes).     *)

WriteAttributes(d, revision) ==
    /\ DeviceWrites
    /\ Current(d) /\ Status(d) = "accepted" /\ ~auth[d].decommissioning
    /\ ~inventory[d].exists
    /\ inventory' = [inventory EXCEPT ![d] =
                       [exists |-> TRUE, revision |-> revision, status |-> "none"]]
    /\ UNCHANGED <<auth, unsent, jobs, workers, known, background, history>>

---------------------------------------------------------------------------

Init ==
    /\ auth = [d \in Devices |-> [present |-> FALSE, provisioned |-> FALSE,
                                  decommissioning |-> FALSE, log |-> << >>]]
    /\ unsent = {}
    /\ jobs = << >>
    /\ workers = [w \in Workers |-> Idle]
    /\ inventory = [d \in Devices |-> Missing]
    /\ known = [service \in Services |-> {}]
    /\ background = {}
    /\ failed = {} /\ interrupted = {} /\ crossed = {}
    /\ faults = 0

ProvisioningTasks(w) ==
    \/ Provision(w, "deviceconnect", "provision_deviceconnect")
    \/ Provision(w, "deviceconfig", "provision_deviceconfig")
    \/ StartInBackground(w, "provision", "provision_iot-manager")
    \/ PatchDevice(w)

DeletionTasks(w) ==
    \/ Delete(w, "deviceconnect", "delete_device_deviceconnect")
    \/ Delete(w, "deviceconfig", "delete_device_deviceconfig")
    \/ StartInBackground(w, "decommission", "delete_iot_device")
    \/ DeleteInventory(w)
    \/ DeleteAuth(w)

Work(w) ==
    UpsertStatus(w) \/ ProvisioningTasks(w) \/ DeletionTasks(w) \/ CallOther(w) \/ Acknowledge(w)

Disturb(w) ==
    BrokenCall(w) \/ ServerError(w) \/ LoseAcknowledgement(w) \/ LoseWatch(w) \/ Crash(w)

Admin(d) ==
    \/ Register(d, "noauth") \/ Register(d, "preauthorized")
    \/ \E st \in {"pending", "accepted", "rejected"} : ChangeStatus(d, st)
    \/ RequestDecommission(d) \/ DismissPreauthorized(d)
    \/ WriteAttributes(d, 0) \/ WriteAttributes(d, NoRevision)

Next ==
    \/ \E d \in Devices : Admin(d)
    \/ \E job \in unsent : SubmitJob(job) \/ LoseSubmission(job)
    \/ \E w \in Workers : (\E n \in 1..NumJobs : Fetch(w, n)) \/ Work(w) \/ Disturb(w)
    \/ \E n \in 1..NumJobs : Redeliver(n)
    \/ \E b \in background : FinishInBackground(b)

Spec == Init /\ [][Next]_vars

\* Everybody goes on: deviceauth submits, idle workers fetch, busy ones work,
\* the queue waits for an acknowledgement no longer than it is configured to.
FairSpec ==
    /\ Spec
    /\ WF_vars(\E job \in unsent : SubmitJob(job))
    /\ WF_vars(\E w \in Workers, n \in 1..NumJobs : Fetch(w, n))
    /\ WF_vars(\E w \in Workers : Work(w))
    /\ WF_vars(\E n \in 1..NumJobs : Redeliver(n))
    /\ WF_vars(\E b \in background : FinishInBackground(b))

---------------------------------------------------------------------------
(* Properties.                                                             *)

TypeOK ==
    /\ auth \in [Devices -> [present: BOOLEAN, provisioned: BOOLEAN, decommissioning: BOOLEAN,
                             log: Seq([status: Statuses, told: BOOLEAN])]]
    /\ unsent \subseteq JobType
    /\ jobs \in Seq([job: JobType, state: QueueStates]) /\ Len(jobs) <= NumJobs
    /\ workers \in [Workers -> [n: 0..NumJobs, task: 0..7, attempt: 0..Retries, watched: BOOLEAN]]
    /\ inventory \in [Devices -> [exists: BOOLEAN, revision: {NoRevision} \union Nat,
                                  status: Statuses \union {"none"}]]
    /\ known \in [Services -> SUBSET Devices]
    /\ background \subseteq [op: {"provision", "decommission"}, device: Devices]
    /\ failed \subseteq JobType /\ interrupted \subseteq JobType
    /\ crossed \subseteq Devices
    /\ faults \in 0..MaxFaults

\* The inventory shows an announced status with its revision, and never goes
\* back, whatever is repeated, reordered or lost on the way.
ShownDocument(d) ==
    IF inventory[d].revision > 0
      THEN [revision |-> inventory[d].revision, status |-> inventory[d].status]
      ELSE [revision |-> 0, status |-> "none"]

Board == INSTANCE StatusBoard WITH
    announced <- [d \in Devices |-> [r \in 1..Len(auth[d].log) |-> auth[d].log[r].status]],
    board <- [d \in Devices |-> ShownDocument(d)]

BoardHonest == Board!Spec

Quiet == \A d \in Devices : ~Busy(d)
Given(d) == {r \in 1..Len(auth[d].log) : auth[d].log[r].told}
Newest(d) == CHOOSE r \in Given(d) : \A q \in Given(d) : q <= r
FailedAt(d, r) == \E job \in failed : job.device = d /\ job.revision = r
Unruly(d) == ~Current(d) \/ auth[d].decommissioning \/ inventory[d].revision = NoRevision

\* When the jobs of a device are through, the inventory shows the status the
\* device has, unless the very job that told it met an error: no earlier loss,
\* repetition, crash or conflict of jobs leaves a trace.
InventoryFollows ==
    \A d \in Devices :
        ~Busy(d) /\ ~Unruly(d) /\ Given(d) # {} /\ ~FailedAt(d, Newest(d)) =>
            inventory[d] = [exists |-> TRUE, revision |-> Newest(d), status |-> Status(d)]

\* When the jobs of an accepted device are through, every service has it, and
\* deviceauth knows that, unless its provisioning met an error or a crash.
AcceptedIsProvisioned ==
    \A d \in Devices :
        ~Busy(d) /\ ~Unruly(d) /\ Status(d) = "accepted"
        /\ (\A job \in failed \union interrupted : job.device # d) =>
            auth[d].provisioned /\ \A service \in Services : d \in known[service]

Removed(d) == auth[d].decommissioning \/ (auth[d].log # << >> /\ ~Current(d))

\* When the decommissioning of a device is through, no service has it any more,
\* whatever crashes and repetitions there were, unless a job about it met an
\* error or other jobs about it were under way with it.
DecommissionForgets ==
    \A d \in Devices :
        ~Busy(d) /\ Removed(d) /\ d \notin crossed /\ (\A job \in failed : job.device # d) =>
            /\ ~Current(d) /\ ~inventory[d].exists
            /\ \A service \in Services : d \notin known[service]

\* Every status that is announced gets to the inventory, or is overtaken there
\* by a newer one, unless a job of the device met an error.
StatusArrives ==
    \A d \in Devices : \A r \in 1..MaxRevision :
        r \in Given(d) ~> \/ inventory[d].revision >= r
                          \/ Unruly(d)
                          \/ \E job \in failed : job.device = d

\* Every job that was submitted leaves the queue.
EveryJobEnds ==
    \A n \in 1..NumJobs : n \in DOMAIN jobs ~> n \in DOMAIN jobs /\ jobs[n].state = "gone"
=============================================================================
