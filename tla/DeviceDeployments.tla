------------------------- MODULE DeviceDeployments -------------------------
(***************************************************************************)
(* The device deployments of the deployments service: how a device polls   *)
(* for its next update and reports progress, how an operator aborts a      *)
(* deployment or the deployments of one device, how a device is            *)
(* decommissioned or its history reset, and how the counters and the       *)
(* status of a deployment follow (services/deployments/app, store/mongo).  *)
(*                                                                         *)
(* A request is served by a worker (a goroutine of the HTTP server).  One  *)
(* step of a worker is one operation on the database, with the             *)
(* computation up to the next one; between two operations every other      *)
(* worker may run.  Database documents are never locked; a single          *)
(* operation is atomic on the documents it touches.                        *)
(***************************************************************************)
EXTENDS DeploymentModel, Sequences, FiniteSets

CONSTANTS
    Devices,         \* device identifiers
    NumDeployments,  \* deployments ever built; 1, 2, ... in the order of "created"
    DeviceLists,     \* the device lists callers submit, as sequences
    Workers,         \* request handlers that may run at the same time
    Requests,        \* what devices state about themselves when they poll
    NoDevice,        \* no device
    NoRequest,       \* no request stored
    Matching,        \* <<deployment, request>>: an artifact fits the device
    Installed,       \* <<deployment, request>>: it is what the device runs
    Forced,          \* deployments with force_installation
    Configuration,   \* deployments of type "configuration"
    Reports,         \* the statuses devices report
    Kinds,           \* the kinds of requests that arrive
    PerDevice,       \* how many requests of one device may be in flight
    Obedient,        \* devices report only on the deployment they carry out
    MaxSize,         \* bound up to which handed out artifacts are counted
    MaxAdmin,        \* bound on the requests of operators
    MaxFailures      \* bound on the requests cut short by an error or a crash

Deployments == 1..NumDeployments

DeviceKinds == {"poll", "report"}
DeviceWideKinds == {"abort_device", "decommission"}
AdminKinds == DeviceWideKinds \union {"abort", "delete_history"}

ASSUME DevicesAssumption == NoDevice \notin Devices
ASSUME NumDeploymentsAssumption == NumDeployments \in Nat
ASSUME ListsAssumption == DeviceLists \subseteq Seq(Devices) \ {<<>>}
ASSUME RequestsAssumption == NoRequest \notin Requests
ASSUME ArtifactsAssumption ==
    /\ Matching \subseteq Deployments \X Requests
    /\ Installed \subseteq Deployments \X Requests
    /\ Forced \subseteq Deployments
    /\ Configuration \subseteq Deployments
ASSUME ReportsAssumption == Reports \subseteq ReportStatuses
ASSUME KindsAssumption == Kinds \subseteq DeviceKinds \union AdminKinds
ASSUME BoundsAssumption ==
    /\ PerDevice \in Nat
    /\ Obedient \in BOOLEAN
    /\ MaxSize \in Nat
    /\ MaxAdmin \in Nat
    /\ MaxFailures \in Nat

VARIABLES
    deployments,  \* the collection "deployments"
    docs,         \* the collection "devices": device deployments, as inserted
    lastStatus,   \* the collection "devices_last_status", by device
    devices,      \* what each device is carrying out
    workers,      \* the requests in flight
    admin,        \* requests of operators so far
    failures      \* requests cut short so far

vars == <<deployments, docs, lastStatus, devices, workers, admin, failures>>

---------------------------------------------------------------------------
(* State.                                                                  *)

\* A deployment is built in memory, with its time of creation, before it is
\* stored: "none", "built", "stored".
DeploymentType ==
    [stage: {"none", "built", "stored"},
     list: Seq(Devices), status: DeploymentStatuses, active: BOOLEAN,
     finished: BOOLEAN, stats: StatsType, device_count: Nat, total_size: Nat]

\* A device deployment; "created" is that of its deployment.
DocType ==
    [dev: Devices, dep: Deployments, status: Statuses, active: BOOLEAN,
     deleted: BOOLEAN, request: Requests \union {NoRequest}, image: BOOLEAN]

NoStatus == "null"
SomeStatus == Statuses \union {NoStatus}

\* What the client on the device knows: the deployment it was given (0: none)
\* and the status it reported last.
DeviceType == [dep: Deployments \union {0}, said: SomeStatus]

LastStatusType == [dep: Deployments \union {0}, status: SomeStatus]

\* Where a worker is: the database operation it executes next.
PCs ==
    {"idle", "respond",
     "find_active", "find_inactive", "find_newer",
     "find_existing", "insert", "inc_count",
     "save_request", "instructions", "inc_size",
     "get_dd", "update_status", "find_deployment", "inc_stats", "set_status",
     "save_last",
     "check_finished", "abort_docs", "aggregate", "update_stats", "finish",
     "get_history", "mark_deleted", "delete_last"}

Answers == {"none", "offer", "ok", "refused", "conflict"}

\* The local variables of a request: its parameters (kind, dev, dep, req, new),
\* the copy of the device deployment it works on (doc, cur, cur_req, image),
\* the status replaced (old), what it computed of the deployment (was_finished,
\* overall), the time it searches from (after), whether the device is new to
\* the deployment (first), the aggregated counters (stats), its answer (answer).
WorkerType ==
    [pc: PCs, kind: DeviceKinds \union AdminKinds \union {"none"},
     dev: Devices \union {NoDevice}, dep: Deployments \union {0},
     req: Requests \union {NoRequest}, new: SomeStatus,
     doc: Nat, cur: SomeStatus, cur_req: Requests \union {NoRequest},
     image: BOOLEAN, old: SomeStatus, was_finished: BOOLEAN,
     overall: DeploymentStatuses, after: Deployments \union {0},
     first: BOOLEAN, stats: StatsType, answer: Answers]

Idle ==
    [pc |-> "idle", kind |-> "none", dev |-> NoDevice, dep |-> 0,
     req |-> NoRequest, new |-> NoStatus, doc |-> 0, cur |-> NoStatus,
     cur_req |-> NoRequest, image |-> FALSE, old |-> NoStatus,
     was_finished |-> FALSE, overall |-> "pending", after |-> 0,
     first |-> FALSE, stats |-> NewStats, answer |-> "none"]

MaxDevices(d) == Len(deployments[d].list)
DeviceCount(d) == deployments[d].device_count
Listed(d) == {deployments[d].list[i] : i \in DOMAIN deployments[d].list}
Stored(d) == deployments[d].stage = "stored"

\* Device deployments of a device in a deployment, as positions in docs.
DocsOf(dev, d) == {i \in DOMAIN docs : docs[i].dev = dev /\ docs[i].dep = d}
NotDeleted(S) == {i \in S : ~docs[i].deleted}
DeviceDocs(dev) == NotDeleted({i \in DOMAIN docs : docs[i].dev = dev})

---------------------------------------------------------------------------
(* Queries.                                                                *)

\* The candidates of FindOldestActiveDeviceDeployment: the sort is by creation
\* time alone, so two device deployments of one deployment tie.
OldestActive(dev) ==
    LET A == {i \in DeviceDocs(dev) : docs[i].active}
    IN {i \in A : \A j \in A : docs[i].dep <= docs[j].dep}

Inactive(dev) == {i \in DeviceDocs(dev) : ~docs[i].active}

\* The candidates of FindLatestInactiveDeviceDeployment.
LatestInactive(dev) ==
    {i \in Inactive(dev) : \A j \in Inactive(dev) : docs[j].dep <= docs[i].dep}

\* Faulty variant of NewerActive: the comparison includes the time itself.
NewerActiveOrSame(dev, after) ==
    LET C == {d \in Deployments :
                Stored(d) /\ deployments[d].active /\ d >= after /\ dev \in Listed(d)}
    IN {d \in C : \A e \in C : d <= e}

\* The candidates of FindNewerActiveDeployment (at most one).
NewerActive(dev, after) ==
    LET C == {d \in Deployments :
                Stored(d) /\ deployments[d].active /\ d > after /\ dev \in Listed(d)}
    IN {d \in C : \A e \in C : d <= e}

\* Faulty variant of Full: off by one.
AlmostFull(d) == MaxDevices(d) > 0 /\ DeviceCount(d) + 1 >= MaxDevices(d)

\* getNewDeploymentForDevice passes over a deployment that has all its devices.
Full(d) == MaxDevices(d) > 0 /\ DeviceCount(d) >= MaxDevices(d)

OverallStatus(d) ==
    GetStatus(deployments[d].finished, MaxDevices(d), deployments[d].stats)

---------------------------------------------------------------------------
(* Continuations of a request.                                             *)

\* The parameters of a request, without what it has read.
Params(job) ==
    [Idle EXCEPT !.kind = job.kind, !.dev = job.dev, !.dep = job.dep, !.new = job.new]

Reply(job, answer) == [Params(job) EXCEPT !.pc = "respond", !.answer = answer]

\* A request that ends here: a device receives an answer, an operator's
\* request is forgotten.
Ended(job, answer) == IF job.kind \in DeviceKinds THEN Reply(job, answer) ELSE Idle

\* The status updateDeviceDeploymentsStatus writes.
WideStatus(kind) == IF kind = "abort_device" THEN "aborted" ELSE "decommissioned"

\* Copies a device deployment into the local variables of the request.
WithDoc(job, i) ==
    [job EXCEPT !.dep = docs[i].dep, !.doc = i, !.cur = docs[i].status,
                !.cur_req = docs[i].request, !.image = docs[i].image]

\* What follows updateDeviceDeploymentStatus when it returns no error.
AfterUpdate(job) ==
    CASE job.kind = "report" -> Reply(job, "ok")
      [] job.kind = "poll" ->
           Reply(job, IF job.new = "failure" THEN "conflict" ELSE "none")
      [] job.kind \in DeviceWideKinds ->
           [Params(job) EXCEPT !.pc = "find_newer", !.after = job.dep, !.new = NoStatus]
      [] OTHER -> Idle

\* Faulty variant of BeginUpdate: aborted device deployments are not refused.
BeginUpdateUnguarded(job, st) ==
    IF job.cur = st THEN AfterUpdate([job EXCEPT !.new = st])
    ELSE [Params(job) EXCEPT !.pc = "update_status", !.new = st, !.cur = job.cur]

\* updateDeviceDeploymentStatus: the guards on the copy of the document.
BeginUpdate(job, st) ==
    IF job.cur \in {"aborted", "decommissioned"} THEN Ended(job, "refused")
    ELSE IF job.cur = st THEN AfterUpdate([job EXCEPT !.new = st])
    ELSE [Params(job) EXCEPT !.pc = "update_status", !.new = st, !.cur = job.cur]

\* updateDeviceDeploymentStatus, past the counters.
PastCounters(job) ==
    IF Active(job.new) THEN AfterUpdate(job)
    ELSE [Params(job) EXCEPT !.pc = "save_last"]

\* createDeviceDeploymentWithStatus has returned.
Created(job) ==
    IF job.kind = "poll" THEN [job EXCEPT !.pc = "save_request"] ELSE Idle

\* getDeploymentInstructions, from the check for an installed artifact on.
Instruct(job, assigned) ==
    IF /\ job.dep \notin Forced
       /\ <<job.dep, job.req>> \in Installed
       /\ job.cur = "pending"
    THEN BeginUpdate(job, "already-installed")
    ELSE IF assigned THEN [job EXCEPT !.pc = "inc_size"]
    ELSE Reply(job, "offer")

---------------------------------------------------------------------------
(* Creation of deployments.                                                *)

\* NewDeployment stamps the time of creation; CreateDeployment then looks up
\* artifacts and groups and may give up.
BuildDeployment(list) ==
    \E d \in Deployments :
        /\ deployments[d].stage = "none"
        /\ \A e \in Deployments : e < d => deployments[e].stage # "none"
        /\ d \in Configuration => Len(list) = 1
        /\ deployments' = [deployments EXCEPT
               ![d].stage = "built", ![d].list = list,
               ![d].stats = InitialStats(Len(list))]
        /\ UNCHANGED <<docs, lastStatus, devices, workers, admin, failures>>

InsertDeployment(d) ==
    /\ deployments[d].stage = "built"
    /\ deployments' = [deployments EXCEPT ![d].stage = "stored", ![d].active = TRUE]
    /\ UNCHANGED <<docs, lastStatus, devices, workers, admin, failures>>

---------------------------------------------------------------------------
(* Arrival of requests.                                                    *)

InFlight(dev) == {v \in Workers : workers[v].kind \in DeviceKinds /\ workers[v].dev = dev}

Arrive(w, job) ==
    /\ workers[w].pc = "idle"
    /\ job.kind \in Kinds
    /\ workers' = [workers EXCEPT ![w] = job]
    /\ UNCHANGED <<deployments, docs, lastStatus, failures>>

StartPoll(w, dev, req) ==
    /\ Cardinality(InFlight(dev)) < PerDevice
    /\ Arrive(w, [Idle EXCEPT !.pc = "find_active", !.kind = "poll",
                              !.dev = dev, !.req = req])
    /\ UNCHANGED <<devices, admin>>

\* An obedient device reports on the deployment it was given, and says the
\* same again once it has said how the deployment ended.
MayReport(dev, d, st) ==
    \/ ~Obedient
    \/ /\ devices[dev].dep = d
       /\ devices[dev].said \in FinishedStatuses => st = devices[dev].said

StartReport(w, dev, d, st) ==
    /\ Stored(d)
    /\ MayReport(dev, d, st)
    /\ Cardinality(InFlight(dev)) < PerDevice
    /\ Arrive(w, [Idle EXCEPT !.pc = "get_dd", !.kind = "report",
                              !.dev = dev, !.dep = d, !.new = st])
    /\ devices' = IF devices[dev].dep = d
                  THEN [devices EXCEPT ![dev].said = st] ELSE devices
    /\ UNCHANGED admin

StartAdmin(w, job) ==
    /\ admin < MaxAdmin
    /\ Arrive(w, job)
    /\ admin' = admin + 1
    /\ UNCHANGED devices

StartAbort(w, d) ==
    /\ Stored(d)
    /\ StartAdmin(w, [Idle EXCEPT !.pc = "check_finished", !.kind = "abort", !.dep = d])

StartDeviceWide(w, kind, dev) ==
    StartAdmin(w, [Idle EXCEPT !.pc = "find_active", !.kind = kind, !.dev = dev])

StartDeleteHistory(w, dev) ==
    StartAdmin(w, [Idle EXCEPT !.pc = "get_history", !.kind = "delete_history",
                               !.dev = dev])

---------------------------------------------------------------------------
(* Steps of a request.  At(w, p) says that w executes the operation p; a    *)
(* step replaces the local variables by those at its next operation.       *)

At(w, p) == workers[w].pc = p
Continue(w, job) == workers' = [workers EXCEPT ![w] = job]
Unchanged == UNCHANGED <<devices, admin, failures>>
ReadOnly == UNCHANGED <<deployments, docs, lastStatus>> /\ Unchanged

\* The answer reaches the device: it starts what it is offered, and gives up
\* what it has finished, may not change any more, or is in conflict about.
Respond(w) ==
    LET job == workers[w]
        dev == job.dev
        mine == devices[dev].dep = job.dep
        over == \/ job.kind = "report" /\ job.answer = "refused"
                \/ job.kind = "report" /\ ~Active(job.new)
                \/ job.answer = "conflict"
    IN /\ At(w, "respond")
       /\ devices' =
            IF job.answer = "offer" /\ ~mine
            THEN [devices EXCEPT ![dev] = [dep |-> job.dep, said |-> NoStatus]]
            ELSE IF mine /\ over
            THEN [devices EXCEPT ![dev] = [dep |-> 0, said |-> NoStatus]]
            ELSE devices
       /\ Continue(w, Idle)
       /\ UNCHANGED <<deployments, docs, lastStatus, admin, failures>>

\* FindOldestActiveDeviceDeployment, first step of getDeploymentForDevice and
\* of updateDeviceDeploymentsStatus.
FindActive(w) ==
    LET job == workers[w]
        found == OldestActive(job.dev)
    IN /\ At(w, "find_active")
       /\ \/ /\ found = {}
             /\ Continue(w, [job EXCEPT !.pc = "find_inactive"])
          \/ \E i \in found :
               Continue(w, IF job.kind = "poll"
                           THEN [WithDoc(job, i) EXCEPT !.pc = "save_request"]
                           ELSE BeginUpdate(WithDoc(job, i), WideStatus(job.kind)))
       /\ ReadOnly

\* The device wants what was created after its last deployment, if it had one.
FindInactive(w) ==
    LET job == [workers[w] EXCEPT !.pc = "find_newer"]
        found == LatestInactive(job.dev)
    IN /\ At(w, "find_inactive")
       /\ \/ found = {} /\ Continue(w, job)
          \/ \E i \in found : Continue(w, [job EXCEPT !.after = docs[i].dep])
       /\ ReadOnly

\* FindNewerActiveDeployment: a poll goes on past full deployments, a request
\* for the whole device does not look at the device count.
FindNewer(w) ==
    LET job == workers[w]
        found == NewerActive(job.dev, job.after)
    IN /\ At(w, "find_newer")
       /\ \/ /\ found = {}
             /\ Continue(w, Ended(job, "none"))
          \/ \E d \in found :
               Continue(w, IF job.kind = "poll" /\ Full(d)
                           THEN [job EXCEPT !.after = d]
                           ELSE [job EXCEPT !.pc = "find_existing", !.dep = d])
       /\ ReadOnly

\* createDeviceDeploymentWithStatus: has the device been in this deployment
\* before, deleted device deployments included?
FindExisting(w) ==
    LET job == workers[w]
    IN /\ At(w, "find_existing")
       /\ Continue(w, [job EXCEPT !.pc = "insert",
                                  !.first = DocsOf(job.dev, job.dep) = {}])
       /\ ReadOnly

InsertDeviceDeployment(w) ==
    LET job == workers[w]
        st == IF job.kind = "poll" THEN "pending" ELSE WideStatus(job.kind)
        doc == [dev |-> job.dev, dep |-> job.dep, status |-> st,
                active |-> Active(st), deleted |-> FALSE,
                request |-> NoRequest, image |-> FALSE]
        next == [job EXCEPT !.doc = Len(docs) + 1, !.cur = st,
                            !.cur_req = NoRequest, !.image = FALSE]
    IN /\ At(w, "insert")
       /\ docs' = Append(docs, doc)
       /\ Continue(w, IF job.first THEN [next EXCEPT !.pc = "inc_count"]
                      ELSE Created(next))
       /\ UNCHANGED <<deployments, lastStatus>>
       /\ Unchanged

\* Faulty variant of IncrementDeviceCount: repeated when no answer comes in time.
IncrementDeviceCountRepeatedly(w) ==
    /\ At(w, "inc_count")
    /\ deployments' = [deployments EXCEPT ![workers[w].dep].device_count = @ + 1]
    /\ Continue(w, Created(workers[w])) \/ Continue(w, workers[w])
    /\ UNCHANGED <<docs, lastStatus>>
    /\ Unchanged

IncrementDeviceCount(w) ==
    /\ At(w, "inc_count")
    /\ deployments' = [deployments EXCEPT ![workers[w].dep].device_count = @ + 1]
    /\ Continue(w, Created(workers[w]))
    /\ UNCHANGED <<docs, lastStatus>>
    /\ Unchanged

\* saveDeviceDeploymentRequest: the first request is kept, another one fails
\* the device deployment.
SaveRequest(w) ==
    LET job == workers[w]
    IN /\ At(w, "save_request")
       /\ IF job.cur_req = NoRequest
          THEN /\ docs' = [docs EXCEPT ![job.doc].request = job.req]
               /\ Continue(w, [job EXCEPT !.pc = "instructions"])
          ELSE /\ docs' = docs
               /\ Continue(w, IF job.cur_req = job.req
                              THEN [job EXCEPT !.pc = "instructions"]
                              ELSE BeginUpdate(job, "failure"))
       /\ UNCHANGED <<deployments, lastStatus>>
       /\ Unchanged

\* getDeploymentInstructions.  The artifact of a configuration deployment is
\* generated on download; another is chosen once and stored.
Instructions(w) ==
    LET job == workers[w]
        targets == NotDeleted(DocsOf(job.dev, job.dep))
        fits == <<job.dep, job.req>> \in Matching
        assigns == job.dep \notin Configuration /\ ~job.image /\ fits
    IN /\ At(w, "instructions")
       /\ IF job.dep \in Configuration THEN Continue(w, Reply(job, "offer"))
          ELSE IF job.image THEN Continue(w, Instruct(job, FALSE))
          ELSE IF ~fits THEN Continue(w, BeginUpdate(job, "noartifact"))
          ELSE IF targets = {} THEN Continue(w, Reply(job, "refused"))
          ELSE Continue(w, Instruct([job EXCEPT !.image = TRUE], TRUE))
       /\ IF assigns /\ targets # {}
          THEN \E i \in targets : docs' = [docs EXCEPT ![i].image = TRUE]
          ELSE docs' = docs
       /\ UNCHANGED <<deployments, lastStatus>>
       /\ Unchanged

\* IncrementDeploymentTotalSize, in artifacts handed out.  An error is logged
\* and the device gets its answer all the same.
IncrementTotalSize(w) ==
    LET job == workers[w]
    IN /\ At(w, "inc_size")
       /\ deployments' = [deployments EXCEPT
              ![job.dep].total_size = IF @ < MaxSize THEN @ + 1 ELSE @]
       /\ Continue(w, Reply(job, "offer"))
       /\ UNCHANGED <<docs, lastStatus>>
       /\ Unchanged

\* UpdateDeviceDeploymentStatus reads the device deployment first.
GetDeviceDeployment(w) ==
    LET job == workers[w]
        found == NotDeleted(DocsOf(job.dev, job.dep))
    IN /\ At(w, "get_dd")
       /\ \/ /\ found = {}
             /\ Continue(w, Reply(job, "refused"))
          \/ \E i \in found : Continue(w, BeginUpdate(WithDoc(job, i), job.new))
       /\ ReadOnly

\* Faulty variant of UpdateStatus: the status replaced is taken from the copy.
UpdateStatusFromCopy(w) ==
    LET job == workers[w]
        found == NotDeleted(DocsOf(job.dev, job.dep))
    IN /\ At(w, "update_status")
       /\ \/ /\ found = {}
             /\ Continue(w, Ended(job, "refused"))
             /\ docs' = docs
          \/ \E i \in found :
               /\ docs' = [docs EXCEPT ![i].status = job.new,
                                       ![i].active = Active(job.new)]
               /\ Continue(w, [Params(job) EXCEPT !.pc = "find_deployment",
                                                  !.old = job.cur])
       /\ UNCHANGED <<deployments, lastStatus>>
       /\ Unchanged

\* The status is written whatever the status is by now; the old one is
\* returned.  With several device deployments of the device in the deployment
\* the database picks one.
UpdateStatus(w) ==
    LET job == workers[w]
        found == NotDeleted(DocsOf(job.dev, job.dep))
    IN /\ At(w, "update_status")
       /\ \/ /\ found = {}
             /\ Continue(w, Ended(job, "refused"))
             /\ docs' = docs
          \/ \E i \in found :
               /\ docs' = [docs EXCEPT ![i].status = job.new,
                                       ![i].active = Active(job.new)]
               /\ Continue(w, IF docs[i].status = job.new THEN PastCounters(job)
                              ELSE [Params(job) EXCEPT !.pc = "find_deployment",
                                                       !.old = docs[i].status])
       /\ UNCHANGED <<deployments, lastStatus>>
       /\ Unchanged

\* The deployment as it is before the counters change.
FindDeployment(w) ==
    LET job == workers[w]
    IN /\ At(w, "find_deployment")
       /\ Continue(w, [job EXCEPT !.pc = "inc_stats",
                                  !.was_finished = deployments[job.dep].finished,
                                  !.stats = deployments[job.dep].stats,
                                  !.overall = OverallStatus(job.dep)])
       /\ ReadOnly

\* Faulty variant of UpdateStatsInc: the counters are computed from the copy.
UpdateStatsFromCopy(w) ==
    LET job == workers[w]
        stats == StatsInc(job.stats, job.old, job.new)
        overall == GetStatus(job.was_finished, MaxDevices(job.dep), stats)
    IN /\ At(w, "inc_stats")
       /\ deployments' = [deployments EXCEPT ![job.dep].stats = stats]
       /\ Continue(w, IF overall = job.overall THEN PastCounters(job)
                      ELSE [Params(job) EXCEPT !.pc = "set_status", !.overall = overall])
       /\ UNCHANGED <<docs, lastStatus>>
       /\ Unchanged

\* The new counters are put into the copy read before: whether that copy has a
\* finish time is not read again.
UpdateStatsInc(w) ==
    LET job == workers[w]
        stats == StatsInc(deployments[job.dep].stats, job.old, job.new)
        overall == GetStatus(job.was_finished, MaxDevices(job.dep), stats)
    IN /\ At(w, "inc_stats")
       /\ deployments' = [deployments EXCEPT ![job.dep].stats = stats]
       /\ Continue(w, IF overall = job.overall THEN PastCounters(job)
                      ELSE [Params(job) EXCEPT !.pc = "set_status", !.overall = overall])
       /\ UNCHANGED <<docs, lastStatus>>
       /\ Unchanged

\* SetDeploymentStatus writes the status it is given over any other.
WithStatus(d, status) ==
    [deployments EXCEPT ![d].status = status,
                        ![d].active = status # "finished",
                        ![d].finished = @ \/ status = "finished"]

SetStatus(w) ==
    /\ At(w, "set_status")
    /\ deployments' = WithStatus(workers[w].dep, workers[w].overall)
    /\ Continue(w, PastCounters(workers[w]))
    /\ UNCHANGED <<docs, lastStatus>>
    /\ Unchanged

SaveLastStatus(w) ==
    LET job == workers[w]
    IN /\ At(w, "save_last")
       /\ lastStatus' = [lastStatus EXCEPT
                            ![job.dev] = [dep |-> job.dep, status |-> job.new]]
       /\ Continue(w, AfterUpdate(job))
       /\ UNCHANGED <<deployments, docs>>
       /\ Unchanged

---------------------------------------------------------------------------
(* Abort of a deployment.                                                  *)

\* The handler refuses a deployment with a finish time.
CheckFinished(w) ==
    LET job == workers[w]
    IN /\ At(w, "check_finished")
       /\ Continue(w, IF deployments[job.dep].finished THEN Idle
                      ELSE [job EXCEPT !.pc = "abort_docs"])
       /\ ReadOnly

\* Faulty variant of AbortDocs: the query lacks the condition on "active".
AbortAllDocs(w) ==
    LET d == workers[w].dep
    IN /\ At(w, "abort_docs")
       /\ docs' = [i \in DOMAIN docs |->
                     IF docs[i].dep = d /\ ~docs[i].deleted
                     THEN [docs[i] EXCEPT !.status = "aborted", !.active = FALSE]
                     ELSE docs[i]]
       /\ Continue(w, [workers[w] EXCEPT !.pc = "aggregate"])
       /\ UNCHANGED <<deployments, lastStatus>>
       /\ Unchanged

AbortDocs(w) ==
    LET d == workers[w].dep
    IN /\ At(w, "abort_docs")
       /\ docs' = [i \in DOMAIN docs |->
                     IF docs[i].dep = d /\ docs[i].active /\ ~docs[i].deleted
                     THEN [docs[i] EXCEPT !.status = "aborted", !.active = FALSE]
                     ELSE docs[i]]
       /\ Continue(w, [workers[w] EXCEPT !.pc = "aggregate"])
       /\ UNCHANGED <<deployments, lastStatus>>
       /\ Unchanged

AggregateByStatus(d) ==
    [st \in Statuses |->
        Cardinality({i \in DOMAIN docs : /\ docs[i].dep = d
                                         /\ docs[i].status = st
                                         /\ ~docs[i].deleted})]

Aggregate(w) ==
    LET job == workers[w]
    IN /\ At(w, "aggregate")
       /\ Continue(w, [job EXCEPT !.pc = "update_stats",
                                  !.stats = AggregateByStatus(job.dep)])
       /\ ReadOnly

\* Faulty variant of UpdateStats: the counters stay as they were.
UpdateStatsForgotten(w) ==
    /\ At(w, "update_stats")
    /\ Continue(w, [Params(workers[w]) EXCEPT !.pc = "finish"])
    /\ UNCHANGED <<deployments, docs, lastStatus>>
    /\ Unchanged

\* The counters are replaced.  (The deployment UpdateStats builds to decide
\* about a finish time has no device limit, so it never sets one.)
UpdateStats(w) ==
    LET job == workers[w]
    IN /\ At(w, "update_stats")
       /\ deployments' = [deployments EXCEPT ![job.dep].stats = job.stats]
       /\ Continue(w, [Params(job) EXCEPT !.pc = "finish"])
       /\ UNCHANGED <<docs, lastStatus>>
       /\ Unchanged

Finish(w) ==
    /\ At(w, "finish")
    /\ deployments' = WithStatus(workers[w].dep, "finished")
    /\ Continue(w, Idle)
    /\ UNCHANGED <<docs, lastStatus>>
    /\ Unchanged

---------------------------------------------------------------------------
(* Reset of the history of a device.                                       *)

GetHistory(w) ==
    LET job == workers[w]
    IN /\ At(w, "get_history")
       /\ Continue(w, IF Inactive(job.dev) = {} THEN Idle
                      ELSE [job EXCEPT !.pc = "mark_deleted"])
       /\ ReadOnly

MarkDeleted(w) ==
    LET gone == Inactive(workers[w].dev)
    IN /\ At(w, "mark_deleted")
       /\ docs' = [i \in DOMAIN docs |->
                     IF i \in gone THEN [docs[i] EXCEPT !.deleted = TRUE] ELSE docs[i]]
       /\ Continue(w, [workers[w] EXCEPT !.pc = "delete_last"])
       /\ UNCHANGED <<deployments, lastStatus>>
       /\ Unchanged

\* DeleteMany on the last statuses filters on the key "deviceid"; the documents
\* of that collection carry the device in "_id", so none matches.
LastStatusMatches(dev) == {}

DeleteLast(w) ==
    /\ At(w, "delete_last")
    /\ lastStatus' = [dev \in Devices |->
                        IF dev \in LastStatusMatches(workers[w].dev)
                        THEN [dep |-> 0, status |-> NoStatus] ELSE lastStatus[dev]]
    /\ Continue(w, Idle)
    /\ UNCHANGED <<deployments, docs>>
    /\ Unchanged

---------------------------------------------------------------------------
(* Errors and crashes: what the request has written stays, the rest is not *)
(* done.  A device gets no useful answer and goes on as before.  Two errors *)
(* are only logged.                                                        *)

Fail(w) ==
    LET job == workers[w]
    IN /\ job.pc # "idle"
       /\ failures < MaxFailures
       /\ failures' = failures + 1
       /\ \/ Continue(w, Idle)
          \/ job.pc = "inc_size" /\ Continue(w, Reply(job, "offer"))
          \/ job.pc = "save_last" /\ Continue(w, AfterUpdate(job))
       /\ UNCHANGED <<deployments, docs, lastStatus, devices, admin>>

---------------------------------------------------------------------------
(* The specification.                                                      *)

Init ==
    /\ deployments = [d \in Deployments |->
         [stage |-> "none", list |-> <<>>, status |-> "pending",
          active |-> FALSE, finished |-> FALSE, stats |-> NewStats,
          device_count |-> 0, total_size |-> 0]]
    /\ docs = <<>>
    /\ lastStatus = [dev \in Devices |-> [dep |-> 0, status |-> NoStatus]]
    /\ devices = [dev \in Devices |-> [dep |-> 0, said |-> NoStatus]]
    /\ workers = [w \in Workers |-> Idle]
    /\ admin = 0
    /\ failures = 0

Create ==
    \/ \E list \in DeviceLists : BuildDeployment(list)
    \/ \E d \in Deployments : InsertDeployment(d)

Request(w) ==
    \/ \E dev \in Devices :
         \/ \E req \in Requests : StartPoll(w, dev, req)
         \/ \E d \in Deployments, st \in Reports : StartReport(w, dev, d, st)
         \/ \E kind \in DeviceWideKinds : StartDeviceWide(w, kind, dev)
         \/ StartDeleteHistory(w, dev)
    \/ \E d \in Deployments : StartAbort(w, d)

Step(w) ==
    \/ Respond(w)
    \/ FindActive(w) \/ FindInactive(w) \/ FindNewer(w)
    \/ FindExisting(w) \/ InsertDeviceDeployment(w) \/ IncrementDeviceCount(w)
    \/ SaveRequest(w) \/ Instructions(w) \/ IncrementTotalSize(w)
    \/ GetDeviceDeployment(w) \/ UpdateStatus(w) \/ FindDeployment(w)
    \/ UpdateStatsInc(w) \/ SetStatus(w) \/ SaveLastStatus(w)
    \/ CheckFinished(w) \/ AbortDocs(w) \/ Aggregate(w) \/ UpdateStats(w) \/ Finish(w)
    \/ GetHistory(w) \/ MarkDeleted(w) \/ DeleteLast(w)

Next ==
    \/ Create
    \/ \E w \in Workers : Request(w) \/ Step(w) \/ Fail(w)

Spec == Init /\ [][Next]_vars

\* A goroutine runs its handler to the end.
HandlersRun == \A w \in Workers : WF_vars(Step(w))

\* A device polls again and again (the update poll interval of the client), and
\* ends a deployment it was given with a final report, repeated until answered.
ClientsAct ==
    \A dev \in Devices :
        /\ SF_vars(\E w \in Workers, req \in Requests : StartPoll(w, dev, req))
        /\ SF_vars(\E w \in Workers, d \in Deployments, st \in Reports \ ActiveStatuses :
                      devices[dev].dep = d /\ StartReport(w, dev, d, st))

FairSpec == Spec /\ HandlersRun /\ ClientsAct

---------------------------------------------------------------------------
(* Properties.                                                             *)

\* Every variable keeps its shape: documents hold statuses of the model, a
\* worker that is past its lookups holds a device deployment that exists.
TypeOK ==
    /\ deployments \in [Deployments -> DeploymentType]
    /\ docs \in Seq(DocType)
    /\ lastStatus \in [Devices -> LastStatusType]
    /\ devices \in [Devices -> DeviceType]
    /\ workers \in [Workers -> WorkerType]
    /\ admin \in Nat
    /\ failures \in Nat

InDeployment(d) == {i \in DOMAIN docs : docs[i].dep = d}
InStatus(d, st) == {i \in InDeployment(d) : docs[i].status = st}

\* Workers that have replaced a status and not yet moved the counters.
Adjusting(d) ==
    {w \in Workers : /\ workers[w].dep = d
                     /\ workers[w].pc \in {"find_deployment", "inc_stats"}}

\* What the counter of a status should read: the device deployments in it,
\* corrected for the workers on their way to the counters; "pending" also
\* counts the places of devices that have not polled yet.
Expected(d, st) ==
    Cardinality(InStatus(d, st))
      + Cardinality({w \in Adjusting(d) : workers[w].old = st})
      - Cardinality({w \in Adjusting(d) : workers[w].new = st})
      + (IF st = "pending"
         THEN MaxDevices(d) - Cardinality(InDeployment(d)) ELSE 0)

\* No operator has interfered and no request has been cut short so far.
Undisturbed == admin = 0 /\ failures = 0

\* As long as only devices act and nothing fails, no interleaving of polls and
\* reports, retries included, loses or doubles a change of the counters
\* (updateDeviceDeploymentStatus, UpdateStatsInc).
StatsAccounting ==
    Undisturbed => \A d \in Deployments : Stored(d) =>
        \A st \in Statuses : deployments[d].stats[st] = Expected(d, st)

\* The counters of a deployment nobody aborted always add up to the number of
\* devices it was created for, whatever fails in between.
StatsConserved ==
    \A d \in Deployments :
        Stored(d) => CountedDevices(deployments[d].stats) = MaxDevices(d)

\* A poll passes over a deployment whose device count has reached its limit
\* (getNewDeploymentForDevice); that withholds it from no device on its list.
FullMeansServed ==
    \A d \in Deployments :
        Stored(d) /\ Full(d) => \A dev \in Listed(d) : DocsOf(dev, d) # {}

\* A device is given deployments in the order of their creation, each once,
\* and so never one older than what it has installed (getNewDeploymentForDevice).
DeliveredInOrder ==
    \A i, j \in DOMAIN docs :
        i < j /\ docs[i].dev = docs[j].dev => docs[i].dep < docs[j].dep

\* As long as only devices act, a deployment gets its finish time only when every
\* device on its list has an outcome, and no device leaves its outcome afterwards.
FinishedMeansDone ==
    Undisturbed => \A d \in Deployments : deployments[d].finished =>
        \A dev \in Listed(d) :
            \E i \in DocsOf(dev, d) : docs[i].status \in FinishedStatuses

\* Workers that may still change the counters or the status of a deployment.
Updating(d) ==
    {w \in Workers : /\ workers[w].dep = d
                     /\ workers[w].pc \in {"find_deployment", "inc_stats", "set_status"}}

\* As long as only devices act, a deployment whose devices all have an outcome has
\* its finish time as soon as the workers on it are done: concurrent last reports
\* do not miss it.
DoneMeansFinished ==
    Undisturbed => \A d \in Deployments :
        /\ Stored(d)
        /\ Updating(d) = {}
        /\ \A dev \in Listed(d) :
             \E i \in DocsOf(dev, d) : docs[i].status \in FinishedStatuses
        => deployments[d].finished
---------------------------------------------------------------------------
(* Operators.                                                              *)

\* Workers that hold a copy of a deployment, or of a device deployment in it,
\* and act on it: the poll that found it and the update of a status.
Holding(d) ==
    {w \in Workers : /\ workers[w].dep = d
                     /\ workers[w].pc \notin
                          {"idle", "respond", "get_dd", "check_finished", "find_newer"}}

\* A deployment is settled once it has its finish time, no device is active in
\* it and every request begun before has come to its end.
Settled(d) ==
    /\ deployments[d].finished /\ ~deployments[d].active
    /\ \A i \in InDeployment(d) : ~docs[i].active
    /\ Holding(d) = {}

Outcomes(d) == [i \in InDeployment(d) |-> docs[i].status]

\* A settled deployment stays as it is, and settled: no request that comes later, a
\* poll, the report of a device that has not heard of an abort or another abort,
\* gets so far as to change anything in it.
SettledIsFinal ==
    [][\A d \in Deployments : Settled(d) =>
          Settled(d)' /\ deployments'[d] = deployments[d] /\ Outcomes(d)' = Outcomes(d)]_vars

\* An abort leaves alone the devices that have completed the deployment:
\* no outcome turns into "aborted".
AbortKeepsOutcomes ==
    [][\A i \in DOMAIN docs :
          docs[i].status \in FinishedStatuses \ {"aborted"}
             => docs'[i].status # "aborted"]_vars

AllIdle == \A w \in Workers : workers[w].pc = "idle"

\* With requests one after the other, the counters of a finished deployment
\* are exactly the numbers of devices per outcome, aborted or not.
FinishedStatsExact ==
    AllIdle => \A d \in Deployments : deployments[d].finished =>
        \A st \in Statuses :
            deployments[d].stats[st] = Cardinality(InStatus(d, st))

---------------------------------------------------------------------------
(* The abstract specification.                                             *)

\* The status of a device in a deployment; where there is one device deployment.
OutcomeOf(dev, d) ==
    IF DocsOf(dev, d) = {} THEN "none"
    ELSE docs[CHOOSE i \in DocsOf(dev, d) : TRUE].status

Lifecycle == INSTANCE DeploymentLifecycle WITH
    listed <- [d \in Deployments |-> IF Stored(d) THEN Listed(d) ELSE {}],
    closed <- [d \in Deployments |-> deployments[d].finished],
    outcome <- [d \in Deployments |-> [dev \in Devices |-> OutcomeOf(dev, d)]]

\* The handlers implement the lifecycle: with any number of requests of
\* different devices at once, or with requests of all kinds one after the other.
ImplementsLifecycle == Lifecycle!Spec
---------------------------------------------------------------------------
(* Progress.                                                               *)

\* A stored deployment gets its finish time, when its devices keep polling and
\* report how it ended: no interleaving of their requests leaves it open.  One that
\* is stored after a deployment created later is left out: a device that has the
\* later one already never gets it.
EveryDeploymentFinishes ==
    \A d \in Deployments :
        (Stored(d) /\ \A e \in Deployments : e > d => ~Stored(e))
            ~> deployments[d].finished
=============================================================================
