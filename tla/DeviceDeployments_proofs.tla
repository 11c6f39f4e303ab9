---------------------- MODULE DeviceDeployments_proofs ----------------------
(***************************************************************************)
(* Proofs about DeviceDeployments, for any number of devices, deployments,  *)
(* requests in flight, operators' requests and failures.                   *)
(***************************************************************************)
EXTENDS DeviceDeployments, FiniteSetTheorems, SequenceTheorems, TLAPS

\* Where a request works on behalf of one device.
DevicePCs ==
    {"find_active", "find_inactive", "find_newer", "find_existing", "insert",
     "inc_count", "save_request", "instructions", "inc_size", "get_dd",
     "update_status", "find_deployment", "inc_stats", "set_status", "save_last"}

AbortPCs == {"check_finished", "abort_docs", "aggregate", "update_stats", "finish"}

\* Only the abort of a device's deployments sets its status to "aborted".
KindOK(job) ==
    /\ job.kind \in Kinds \union {"none"}
    /\ job.new = "aborted" => job.kind = "abort_device"

\* A request on behalf of a device, wherever it is.
DeviceJob(job) == job \in WorkerType /\ job.dev \in Devices /\ KindOK(job)

\* What the local variables of a request have in common at each operation.
JobOK(job) ==
    /\ job.pc \in DevicePCs => job.dev \in Devices
    /\ job.pc \in {"find_existing", "insert"} => job.dep \in Deployments
    /\ job.pc \in {"get_dd", "update_status"} => job.new \in Statuses
    /\ job.pc = "find_deployment" => job.dep \in Deployments
    /\ job.pc \in {"find_deployment", "inc_stats"} =>
         job.new \in Statuses /\ job.old \in Statuses /\ job.old # job.new
    /\ job.pc \in AbortPCs => job.kind = "abort"
    /\ KindOK(job)

WellFormed(job) == job \in WorkerType /\ JobOK(job)

IInv == TypeOK /\ \A w \in Workers : JobOK(workers[w])

---------------------------------------------------------------------------
(* Records: replacing one local variable.                                  *)

\* The sets of statuses of the model and the two special values the code tests for.
LEMMA StatusFacts ==
    /\ ActiveStatuses \subseteq Statuses
    /\ FinishedStatuses \subseteq Statuses
    /\ ReportStatuses \subseteq Statuses
    /\ NoStatus \notin Statuses
    /\ "aborted" \notin ReportStatuses
BY DEF ActiveStatuses, FinishedStatuses, ReportStatuses, Statuses, NoStatus

\* The kinds of requests are distinct from "none", the kind of an idle worker.
LEMMA KindFacts ==
    /\ Kinds \union {"none"} \subseteq DeviceKinds \union AdminKinds \union {"none"}
    /\ "abort_device" \notin DeviceKinds
BY KindsAssumption DEF DeviceKinds

\* The counters of a new deployment are counters.
LEMMA NewStatsTyped == NewStats \in StatsType
BY DEF NewStats, StatsType

\* One statement per local variable that the handlers replace on its own.
LEMMA FieldsTyped ==
    ASSUME NEW job \in WorkerType
    PROVE  /\ \A x \in PCs : [job EXCEPT !.pc = x] \in WorkerType
           /\ \A x \in DeviceKinds \union AdminKinds \union {"none"} :
                [job EXCEPT !.kind = x] \in WorkerType
           /\ \A x \in Devices \union {NoDevice} : [job EXCEPT !.dev = x] \in WorkerType
           /\ \A x \in Deployments \union {0} : [job EXCEPT !.dep = x] \in WorkerType
           /\ \A x \in Deployments \union {0} : [job EXCEPT !.after = x] \in WorkerType
           /\ \A x \in SomeStatus : [job EXCEPT !.new = x] \in WorkerType
           /\ \A x \in SomeStatus : [job EXCEPT !.cur = x] \in WorkerType
           /\ \A x \in SomeStatus : [job EXCEPT !.old = x] \in WorkerType
           /\ \A x \in Nat : [job EXCEPT !.doc = x] \in WorkerType
           /\ \A x \in Requests \union {NoRequest} : [job EXCEPT !.cur_req = x] \in WorkerType
           /\ \A x \in BOOLEAN : [job EXCEPT !.image = x] \in WorkerType
           /\ \A x \in BOOLEAN : [job EXCEPT !.was_finished = x] \in WorkerType
           /\ \A x \in BOOLEAN : [job EXCEPT !.first = x] \in WorkerType
           /\ \A x \in DeploymentStatuses : [job EXCEPT !.overall = x] \in WorkerType
           /\ \A x \in StatsType : [job EXCEPT !.stats = x] \in WorkerType
           /\ \A x \in Answers : [job EXCEPT !.answer = x] \in WorkerType
BY DEF WorkerType

---------------------------------------------------------------------------
(* Continuations return well-formed requests.                              *)

\* A worker without a request satisfies the invariant on workers.
LEMMA IdleOK == WellFormed(Idle)
<1>1. Idle \in WorkerType
  BY NewStatsTyped DEF Idle, WorkerType, PCs, Answers, DeploymentStatuses, SomeStatus
<1>2. JobOK(Idle)
  BY DEF Idle, JobOK, KindOK, DevicePCs, AbortPCs, NoStatus
<1> QED BY <1>1, <1>2 DEF WellFormed

\* Dropping what a request has read leaves well typed parameters.
LEMMA ParamsTyped ==
    ASSUME NEW job \in WorkerType
    PROVE  /\ Params(job) \in WorkerType
           /\ Params(job).kind = job.kind
           /\ Params(job).dev = job.dev
           /\ Params(job).dep = job.dep
           /\ Params(job).new = job.new
<1>1. /\ job.kind \in DeviceKinds \union AdminKinds \union {"none"}
      /\ job.dev \in Devices \union {NoDevice}
      /\ job.dep \in Deployments \union {0}
      /\ job.new \in SomeStatus
  BY DEF WorkerType
<1>2. Idle \in WorkerType
  BY IdleOK DEF WellFormed
<1>3. Params(job) \in WorkerType
  BY <1>1, <1>2, FieldsTyped DEF Params
<1>4. /\ Params(job).kind = job.kind
      /\ Params(job).dev = job.dev
      /\ Params(job).dep = job.dep
      /\ Params(job).new = job.new
  BY DEF Params, Idle
<1> QED BY <1>3, <1>4

\* A request that goes on to its answer is well formed.
LEMMA ReplyOK ==
    ASSUME NEW job \in WorkerType, KindOK(job), NEW answer \in Answers
    PROVE  WellFormed(Reply(job, answer))
<1>1. Reply(job, answer) \in WorkerType
  BY ParamsTyped, FieldsTyped, "respond" \in PCs DEF Reply, PCs
<1>2. /\ Reply(job, answer).pc = "respond"
      /\ Reply(job, answer).kind = job.kind
      /\ Reply(job, answer).new = job.new
  BY ParamsTyped DEF Reply, WorkerType
<1> QED BY <1>1, <1>2 DEF WellFormed, JobOK, KindOK, DevicePCs, AbortPCs

\* A request that ends, with an answer or without, is well formed.
LEMMA EndedOK ==
    ASSUME NEW job \in WorkerType, KindOK(job), NEW answer \in Answers
    PROVE  WellFormed(Ended(job, answer))
BY ReplyOK, IdleOK DEF Ended

\* The continuation after updateDeviceDeploymentStatus is well formed for every kind of request.
LEMMA AfterUpdateOK ==
    ASSUME NEW job, DeviceJob(job)
    PROVE  WellFormed(AfterUpdate(job))
<1> DEFINE next == [Params(job) EXCEPT !.pc = "find_newer", !.after = job.dep,
                                       !.new = NoStatus]
<1>1. job \in WorkerType /\ KindOK(job) /\ job.dev \in Devices
  BY DEF DeviceJob
<1>2. \A answer \in {"ok", "conflict", "none"} : WellFormed(Reply(job, answer))
  BY <1>1, ReplyOK DEF Answers
<1>3. WellFormed(next)
  <2>0. "find_newer" \in PCs /\ NoStatus \in SomeStatus /\ job.dep \in Deployments \union {0}
    BY <1>1 DEF PCs, SomeStatus, WorkerType
  <2>1. next \in WorkerType
    BY <1>1, <2>0, ParamsTyped, FieldsTyped
  <2>2. /\ next.pc = "find_newer" /\ next.new = NoStatus
        /\ next.kind = job.kind /\ next.dev = job.dev
    BY <1>1, ParamsTyped DEF WorkerType
  <2> QED BY <1>1, <2>1, <2>2 DEF WellFormed, JobOK, KindOK, DevicePCs, AbortPCs, NoStatus
<1> QED BY <1>2, <1>3, IdleOK DEF AfterUpdate

\* Entering updateDeviceDeploymentStatus with a device deployment of the collection is well formed.
LEMMA BeginUpdateOK ==
    ASSUME NEW job, DeviceJob(job),
           NEW st \in Statuses, st = "aborted" => job.kind = "abort_device"
    PROVE  WellFormed(BeginUpdate(job, st))
<1> DEFINE same == [job EXCEPT !.new = st]
           next == [Params(job) EXCEPT !.pc = "update_status", !.new = st,
                                       !.cur = job.cur]
<1>1. job \in WorkerType /\ KindOK(job) /\ job.dev \in Devices
  BY DEF DeviceJob
<1>2. st \in SomeStatus /\ job.cur \in SomeStatus
  BY <1>1 DEF SomeStatus, WorkerType
<1>3. WellFormed(Ended(job, "refused"))
  BY <1>1, EndedOK DEF Answers
<1>4. WellFormed(AfterUpdate(same))
  <2>1. same \in WorkerType
    BY <1>1, <1>2, FieldsTyped
  <2>2. same.new = st /\ same.kind = job.kind /\ same.dev = job.dev
    BY <1>1 DEF WorkerType
  <2> HIDE DEF same
  <2>3. DeviceJob(same)
    BY <1>1, <2>1, <2>2 DEF DeviceJob, KindOK
  <2> QED BY <2>3, AfterUpdateOK
<1>5. WellFormed(next)
  <2>1. next \in WorkerType
    BY <1>1, <1>2, ParamsTyped, FieldsTyped, "update_status" \in PCs DEF PCs
  <2>2. /\ next.pc = "update_status" /\ next.new = st
        /\ next.kind = job.kind /\ next.dev = job.dev
    BY <1>1, ParamsTyped DEF WorkerType
  <2> QED BY <1>1, <2>1, <2>2 DEF WellFormed, JobOK, KindOK, DevicePCs, AbortPCs
<1> QED BY <1>3, <1>4, <1>5 DEF BeginUpdate

\* The continuation past the counters is well formed.
LEMMA PastCountersOK ==
    ASSUME NEW job, DeviceJob(job)
    PROVE  WellFormed(PastCounters(job))
<1> DEFINE next == [Params(job) EXCEPT !.pc = "save_last"]
<1>1. job \in WorkerType /\ KindOK(job) /\ job.dev \in Devices
  BY DEF DeviceJob
<1>2. next \in WorkerType
  BY <1>1, ParamsTyped, FieldsTyped, "save_last" \in PCs DEF PCs
<1>3. /\ next.pc = "save_last" /\ next.new = job.new
      /\ next.kind = job.kind /\ next.dev = job.dev
  BY <1>1, ParamsTyped DEF WorkerType
<1>4. WellFormed(next)
  BY <1>1, <1>2, <1>3 DEF WellFormed, JobOK, KindOK, DevicePCs, AbortPCs
<1> QED BY <1>4, AfterUpdateOK DEF PastCounters

\* The continuation after the creation of a device deployment is well formed.
LEMMA CreatedOK ==
    ASSUME NEW job, DeviceJob(job)
    PROVE  WellFormed(Created(job))
<1> DEFINE next == [job EXCEPT !.pc = "save_request"]
<1>1. job \in WorkerType /\ KindOK(job) /\ job.dev \in Devices
  BY DEF DeviceJob
<1>2. next \in WorkerType
  BY <1>1, FieldsTyped, "save_request" \in PCs DEF PCs
<1>3. /\ next.pc = "save_request" /\ next.new = job.new
      /\ next.kind = job.kind /\ next.dev = job.dev
  BY <1>1 DEF WorkerType
<1>4. WellFormed(next)
  BY <1>1, <1>2, <1>3 DEF WellFormed, JobOK, KindOK, DevicePCs, AbortPCs
<1> QED BY <1>4, IdleOK DEF Created

\* The continuation that computes the instructions for a device is well formed.
LEMMA InstructOK ==
    ASSUME NEW job, DeviceJob(job), NEW assigned \in BOOLEAN
    PROVE  WellFormed(Instruct(job, assigned))
<1> DEFINE next == [job EXCEPT !.pc = "inc_size"]
<1>1. job \in WorkerType /\ KindOK(job) /\ job.dev \in Devices
  BY DEF DeviceJob
<1>2. WellFormed(BeginUpdate(job, "already-installed"))
  BY BeginUpdateOK DEF Statuses, FinishedStatuses
<1>3. WellFormed(Reply(job, "offer"))
  BY <1>1, ReplyOK DEF Answers
<1>4. next \in WorkerType
  BY <1>1, FieldsTyped, "inc_size" \in PCs DEF PCs
<1>5. /\ next.pc = "inc_size" /\ next.new = job.new
      /\ next.kind = job.kind /\ next.dev = job.dev
  BY <1>1 DEF WorkerType
<1>6. WellFormed(next)
  BY <1>1, <1>4, <1>5 DEF WellFormed, JobOK, KindOK, DevicePCs, AbortPCs
<1> QED BY <1>2, <1>3, <1>6 DEF Instruct

\* A copy of a device deployment of the collection is well typed.
LEMMA WithDocOK ==
    ASSUME NEW job, DeviceJob(job), TypeOK, NEW i \in DOMAIN docs
    PROVE  /\ DeviceJob(WithDoc(job, i))
           /\ WithDoc(job, i).new = job.new
           /\ WithDoc(job, i).kind = job.kind
           /\ WithDoc(job, i).dep \in Deployments
<1>1. job \in WorkerType /\ KindOK(job) /\ job.dev \in Devices
  BY DEF DeviceJob
<1>2. i \in Nat /\ docs[i] \in DocType
  BY DEF TypeOK
<1>3. /\ docs[i].dep \in Deployments /\ docs[i].status \in SomeStatus
      /\ docs[i].request \in Requests \union {NoRequest} /\ docs[i].image \in BOOLEAN
  BY <1>2 DEF DocType, SomeStatus
<1>4. WithDoc(job, i) \in WorkerType
  BY <1>1, <1>2, <1>3, FieldsTyped DEF WithDoc
<1>5. /\ WithDoc(job, i).new = job.new /\ WithDoc(job, i).kind = job.kind
      /\ WithDoc(job, i).dev = job.dev /\ WithDoc(job, i).dep = docs[i].dep
  BY <1>1 DEF WithDoc, WorkerType
<1> QED BY <1>1, <1>3, <1>4, <1>5 DEF DeviceJob, KindOK

---------------------------------------------------------------------------
(* The invariant at the variables.                                         *)

\* What the invariant says of one worker, for use in the lemmas on its steps.
LEMMA JobFacts ==
    ASSUME IInv, NEW w \in Workers
    PROVE  /\ workers[w] \in WorkerType /\ JobOK(workers[w]) /\ KindOK(workers[w])
           /\ workers[w].pc \in DevicePCs => DeviceJob(workers[w])
BY DEF IInv, TypeOK, JobOK, DeviceJob

\* A step of one request that leaves the shared variables in shape.
LEMMA StepOK ==
    ASSUME IInv, NEW w \in Workers, NEW job, WellFormed(job), Continue(w, job),
           deployments' \in [Deployments -> DeploymentType],
           docs' \in Seq(DocType),
           lastStatus' \in [Devices -> LastStatusType],
           devices' \in [Devices -> DeviceType],
           admin' \in Nat, failures' \in Nat
    PROVE  IInv'
<1>1. workers' \in [Workers -> WorkerType]
  BY DEF Continue, IInv, TypeOK, WellFormed
<1>2. \A v \in Workers : workers'[v] = IF v = w THEN job ELSE workers[v]
  BY DEF Continue, IInv, TypeOK
<1>3. \A v \in Workers : JobOK(workers'[v])
  BY <1>2 DEF IInv, WellFormed
<1> QED BY <1>1, <1>3 DEF IInv, TypeOK, JobOK, KindOK

\* A step that only moves its worker keeps the invariant when the worker stays well formed.
LEMMA ReadOnlyOK ==
    ASSUME IInv, NEW w \in Workers, NEW job, WellFormed(job), Continue(w, job), ReadOnly
    PROVE  IInv'
BY StepOK DEF ReadOnly, Unchanged, IInv, TypeOK

\* The positions of the collection of device deployments are natural numbers.
LEMMA DocsFinite ==
    ASSUME TypeOK, NEW S, S \subseteq DOMAIN docs
    PROVE  IsFiniteSet(S) /\ Cardinality(S) \in Nat
<1>1. Len(docs) \in Nat /\ DOMAIN docs = 1..Len(docs)
  BY DEF TypeOK
<1>2. IsFiniteSet(DOMAIN docs)
  BY <1>1, FS_Interval
<1>3. IsFiniteSet(S)
  BY <1>2, FS_Subset
<1> QED BY <1>3, FS_CardinalityType

\* Every position of the collection holds a device deployment.
LEMMA DocTyped ==
    ASSUME TypeOK, NEW i \in DOMAIN docs
    PROVE  /\ docs[i] \in DocType
           /\ docs[i].dep \in Deployments
           /\ docs[i].status \in Statuses
<1>1. docs[i] \in DocType
  BY DEF TypeOK
<1> QED BY <1>1 DEF DocType

\* Rewriting documents in place.
LEMMA DocsRewritten ==
    ASSUME TypeOK, NEW f \in [DOMAIN docs -> DocType]
    PROVE  f \in Seq(DocType)
<1>1. Len(docs) \in Nat /\ DOMAIN docs = 1..Len(docs)
  BY DEF TypeOK
<1> QED BY <1>1, SeqDef

\* Replacing device deployments in place keeps the type of the collection.
LEMMA DocUpdated ==
    ASSUME TypeOK, NEW i \in DOMAIN docs
    PROVE  /\ \A st \in Statuses :
                [docs EXCEPT ![i].status = st, ![i].active = Active(st)] \in Seq(DocType)
           /\ \A r \in Requests \union {NoRequest} : [docs EXCEPT ![i].request = r] \in Seq(DocType)
           /\ [docs EXCEPT ![i].image = TRUE] \in Seq(DocType)
<1>1. docs \in [DOMAIN docs -> DocType]
  BY DEF TypeOK
<1>a. \A st \in Statuses : [docs EXCEPT ![i].status = st] \in [DOMAIN docs -> DocType]
  BY <1>1 DEF DocType
<1>b. \A f \in [DOMAIN docs -> DocType], b \in BOOLEAN :
        [f EXCEPT ![i].active = b] \in [DOMAIN docs -> DocType]
  BY DEF DocType
<1>2. \A st \in Statuses :
        [docs EXCEPT ![i].status = st, ![i].active = Active(st)] \in [DOMAIN docs -> DocType]
  <2>1. \A st \in Statuses : Active(st) \in BOOLEAN
    BY DEF Active
  <2> QED BY <1>a, <1>b, <2>1
<1>3. \A r \in Requests \union {NoRequest} :
        [docs EXCEPT ![i].request = r] \in [DOMAIN docs -> DocType]
  BY <1>1 DEF DocType
<1>4. [docs EXCEPT ![i].image = TRUE] \in [DOMAIN docs -> DocType]
  BY <1>1 DEF DocType
<1> QED BY <1>2, <1>3, <1>4, DocsRewritten

\* UpdateStatsInc turns counters into counters.
LEMMA StatsIncTyped ==
    ASSUME NEW stats \in StatsType, NEW from \in Statuses, NEW to \in Statuses
    PROVE  StatsInc(stats, from, to) \in StatsType
<1>1. [stats EXCEPT ![from] = @ - 1] \in StatsType
  BY DEF StatsType
<1>2. \A s \in StatsType : [s EXCEPT ![to] = @ + 1] \in StatsType
  BY DEF StatsType
<1> QED BY <1>1, <1>2 DEF StatsInc

\* Replacing one deployment by a well typed one keeps the type of the collection.
LEMMA DeploymentUpdated ==
    ASSUME TypeOK, NEW d
    PROVE  /\ \A stats \in StatsType :
                [deployments EXCEPT ![d].stats = stats] \in [Deployments -> DeploymentType]
           /\ [deployments EXCEPT ![d].device_count = @ + 1]
                \in [Deployments -> DeploymentType]
           /\ [deployments EXCEPT ![d].total_size = IF @ < MaxSize THEN @ + 1 ELSE @]
                \in [Deployments -> DeploymentType]
           /\ \A status \in DeploymentStatuses :
                WithStatus(d, status) \in [Deployments -> DeploymentType]
<1>1. CASE d \in Deployments
  <2>1. deployments[d] \in DeploymentType
    BY <1>1 DEF TypeOK
  <2>2. \A stats \in StatsType :
          [deployments EXCEPT ![d].stats = stats] \in [Deployments -> DeploymentType]
    BY <2>1 DEF TypeOK, DeploymentType
  <2>3. [deployments EXCEPT ![d].device_count = @ + 1] \in [Deployments -> DeploymentType]
    <3>1. deployments[d].device_count + 1 \in Nat
      BY <2>1 DEF DeploymentType
    <3>2. \A n \in Nat :
            [deployments EXCEPT ![d].device_count = n] \in [Deployments -> DeploymentType]
      BY <2>1 DEF TypeOK, DeploymentType
    <3> QED BY <3>1, <3>2
  <2>4. [deployments EXCEPT ![d].total_size = IF @ < MaxSize THEN @ + 1 ELSE @]
           \in [Deployments -> DeploymentType]
    <3>1. (IF deployments[d].total_size < MaxSize THEN deployments[d].total_size + 1
           ELSE deployments[d].total_size) \in Nat
      BY <2>1 DEF DeploymentType
    <3>2. \A n \in Nat :
            [deployments EXCEPT ![d].total_size = n] \in [Deployments -> DeploymentType]
      BY <2>1 DEF TypeOK, DeploymentType
    <3> QED BY <3>1, <3>2
  <2>5. \A status \in DeploymentStatuses :
          WithStatus(d, status) \in [Deployments -> DeploymentType]
    BY <2>1 DEF TypeOK, DeploymentType, WithStatus
  <2> QED BY <2>2, <2>3, <2>4, <2>5
<1>2. CASE d \notin Deployments
  <2>1. deployments \in [Deployments -> DeploymentType]
    BY DEF TypeOK
  <2>2. \A e : [deployments EXCEPT ![d] = e] = deployments
    BY <1>2, <2>1
  <2> QED BY <1>2, <2>1, <2>2 DEF WithStatus
<1> QED BY <1>1, <1>2

---------------------------------------------------------------------------
(* Every step of a request preserves the invariant.                        *)

\* The step Respond of a worker keeps the invariant.
LEMMA RespondOK ==
    ASSUME IInv, NEW w \in Workers, Respond(w)
    PROVE  IInv'
<1> DEFINE job == workers[w]
<1>1. job \in WorkerType
  BY JobFacts
<1>2. \A dep \in Deployments \union {0} :
        [dep |-> dep, said |-> NoStatus] \in DeviceType
  BY DEF DeviceType, SomeStatus
<1>3. job.dep \in Deployments \union {0} /\ 0 \in Deployments \union {0}
  BY <1>1 DEF WorkerType
<1>4. devices' \in [Devices -> DeviceType]
  BY <1>2, <1>3 DEF Respond, IInv, TypeOK
<1> QED BY <1>4, IdleOK, StepOK DEF Respond, IInv, TypeOK

\* The step FindActive of a worker keeps the invariant.
LEMMA FindActiveOK ==
    ASSUME IInv, NEW w \in Workers, FindActive(w)
    PROVE  IInv'
<1> DEFINE job == workers[w]
           on == [job EXCEPT !.pc = "find_inactive"]
<1>1. DeviceJob(job) /\ job \in WorkerType /\ KindOK(job) /\ job.dev \in Devices
  BY JobFacts DEF FindActive, At, DevicePCs, DeviceJob
<1>2. WellFormed(on)
  <2>1. on \in WorkerType
    BY <1>1, FieldsTyped, "find_inactive" \in PCs DEF PCs
  <2>2. /\ on.pc = "find_inactive" /\ on.dev = job.dev
        /\ on.kind = job.kind /\ on.new = job.new
    BY <1>1 DEF WorkerType
  <2> QED BY <1>1, <2>1, <2>2 DEF WellFormed, JobOK, KindOK, AbortPCs
<1>3. ASSUME NEW i \in DOMAIN docs
      PROVE  /\ WellFormed([WithDoc(job, i) EXCEPT !.pc = "save_request"])
             /\ job.kind # "poll" =>
                  WellFormed(BeginUpdate(WithDoc(job, i), WideStatus(job.kind)))
  <2> DEFINE with == WithDoc(job, i)
             next == [with EXCEPT !.pc = "save_request"]
  <2>1. DeviceJob(with) /\ with.new = job.new /\ with.kind = job.kind
    BY <1>1, WithDocOK DEF IInv
  <2> HIDE DEF with
  <2>2. next \in WorkerType
    BY <2>1, FieldsTyped, "save_request" \in PCs DEF PCs, DeviceJob
  <2>3. /\ next.pc = "save_request" /\ next.dev = with.dev
        /\ next.kind = with.kind /\ next.new = with.new
    BY <2>1 DEF WorkerType, DeviceJob
  <2>4. WellFormed(next)
    BY <2>1, <2>2, <2>3 DEF WellFormed, JobOK, KindOK, DeviceJob, AbortPCs
  <2>5. /\ WideStatus(job.kind) \in Statuses
        /\ WideStatus(job.kind) = "aborted" => job.kind = "abort_device"
    BY DEF WideStatus, Statuses, FinishedStatuses
  <2>6. WellFormed(BeginUpdate(with, WideStatus(job.kind)))
    BY <2>1, <2>5, BeginUpdateOK
  <2> QED BY <2>4, <2>6 DEF with
<1>4. OldestActive(job.dev) \subseteq DOMAIN docs
  BY DEF OldestActive, DeviceDocs, NotDeleted
<1> QED BY <1>2, <1>3, <1>4, ReadOnlyOK DEF FindActive

\* The step FindInactive of a worker keeps the invariant.
LEMMA FindInactiveOK ==
    ASSUME IInv, NEW w \in Workers, FindInactive(w)
    PROVE  IInv'
<1> DEFINE job == [workers[w] EXCEPT !.pc = "find_newer"]
<1>1. /\ workers[w] \in WorkerType /\ KindOK(workers[w])
      /\ workers[w].dev \in Devices
  BY JobFacts DEF FindInactive, At, DevicePCs, DeviceJob
<1>2. job \in WorkerType
  BY <1>1, FieldsTyped, "find_newer" \in PCs DEF PCs
<1>3. /\ job.pc = "find_newer" /\ job.dev = workers[w].dev
      /\ job.kind = workers[w].kind /\ job.new = workers[w].new
  BY <1>1 DEF WorkerType
<1>4. WellFormed(job)
  BY <1>1, <1>2, <1>3 DEF WellFormed, JobOK, KindOK, AbortPCs
<1>5. ASSUME NEW d \in Deployments
      PROVE  WellFormed([job EXCEPT !.after = d])
  <2> DEFINE next == [job EXCEPT !.after = d]
  <2> HIDE DEF job
  <2>1. next \in WorkerType
    BY <1>2, FieldsTyped
  <2>2. /\ next.pc = job.pc /\ next.dev = job.dev
        /\ next.kind = job.kind /\ next.new = job.new
    BY <1>2 DEF WorkerType
  <2> QED BY <1>3, <1>4, <2>1, <2>2 DEF WellFormed, JobOK, KindOK
<1>6. \A i \in LatestInactive(job.dev) : docs[i].dep \in Deployments
  <2>1. LatestInactive(job.dev) \subseteq DOMAIN docs
    BY DEF LatestInactive, Inactive, DeviceDocs, NotDeleted
  <2> QED BY <2>1, DocTyped DEF IInv
<1> QED BY <1>4, <1>5, <1>6, ReadOnlyOK DEF FindInactive

\* The step FindNewer of a worker keeps the invariant.
LEMMA FindNewerOK ==
    ASSUME IInv, NEW w \in Workers, FindNewer(w)
    PROVE  IInv'
<1> DEFINE job == workers[w]
<1>1. job \in WorkerType /\ KindOK(job) /\ job.dev \in Devices /\ job.pc = "find_newer"
  BY JobFacts DEF FindNewer, At, DevicePCs, DeviceJob
<1>2. WellFormed(Ended(job, "none"))
  BY <1>1, EndedOK DEF Answers
<1>3. ASSUME NEW d \in Deployments
      PROVE  /\ WellFormed([job EXCEPT !.after = d])
             /\ WellFormed([job EXCEPT !.pc = "find_existing", !.dep = d])
  <2> DEFINE past == [job EXCEPT !.after = d]
             next == [job EXCEPT !.pc = "find_existing", !.dep = d]
  <2>1. past \in WorkerType /\ next \in WorkerType
    BY <1>1, FieldsTyped, "find_existing" \in PCs DEF PCs
  <2>2. /\ past.pc = job.pc /\ past.dev = job.dev
        /\ past.kind = job.kind /\ past.new = job.new
    BY <1>1 DEF WorkerType
  <2>3. /\ next.pc = "find_existing" /\ next.dev = job.dev /\ next.dep = d
        /\ next.kind = job.kind /\ next.new = job.new
    BY <1>1 DEF WorkerType
  <2> QED BY <1>1, <2>1, <2>2, <2>3 DEF WellFormed, JobOK, KindOK, AbortPCs
<1>4. NewerActive(job.dev, job.after) \subseteq Deployments
  BY DEF NewerActive
<1> QED BY <1>2, <1>3, <1>4, ReadOnlyOK DEF FindNewer

\* The step FindExisting of a worker keeps the invariant.
LEMMA FindExistingOK ==
    ASSUME IInv, NEW w \in Workers, FindExisting(w)
    PROVE  IInv'
<1> DEFINE job == workers[w]
           b == DocsOf(job.dev, job.dep) = {}
           next == [job EXCEPT !.pc = "insert", !.first = b]
<1>1. /\ job \in WorkerType /\ JobOK(job) /\ KindOK(job)
      /\ job.pc = "find_existing"
  BY JobFacts DEF FindExisting, At
<1>2. next \in WorkerType
  <2>1. "insert" \in PCs /\ b \in BOOLEAN
    BY DEF PCs
  <2> HIDE DEF b
  <2> QED BY <1>1, <2>1, FieldsTyped
<1>3. /\ next.pc = "insert" /\ next.dev = job.dev /\ next.dep = job.dep
      /\ next.kind = job.kind /\ next.new = job.new
  BY <1>1 DEF WorkerType
<1>4. WellFormed(next)
  BY <1>1, <1>2, <1>3 DEF WellFormed, JobOK, KindOK, DevicePCs, AbortPCs
<1> QED BY <1>4, ReadOnlyOK DEF FindExisting

\* The step Insert of a worker keeps the invariant.
LEMMA InsertOK ==
    ASSUME IInv, NEW w \in Workers, InsertDeviceDeployment(w)
    PROVE  IInv'
<1> DEFINE job == workers[w]
           st == IF job.kind = "poll" THEN "pending" ELSE WideStatus(job.kind)
           doc == [dev |-> job.dev, dep |-> job.dep, status |-> st,
                   active |-> Active(st), deleted |-> FALSE,
                   request |-> NoRequest, image |-> FALSE]
           next == [job EXCEPT !.doc = Len(docs) + 1, !.cur = st,
                               !.cur_req = NoRequest, !.image = FALSE]
           count == [next EXCEPT !.pc = "inc_count"]
<1>1. /\ job \in WorkerType /\ KindOK(job) /\ job.dev \in Devices
      /\ job.dep \in Deployments
  BY JobFacts DEF InsertDeviceDeployment, At, DevicePCs, DeviceJob, JobOK
<1>2. st \in Statuses
  BY DEF WideStatus, Statuses, ActiveStatuses, FinishedStatuses
<1>3. doc \in DocType
  BY <1>1, <1>2 DEF DocType, Active
<1>4. docs \in Seq(DocType) /\ Len(docs) + 1 \in Nat
  BY DEF IInv, TypeOK
<1>5. next \in WorkerType
  <2>1. st \in SomeStatus /\ NoRequest \in Requests \union {NoRequest} /\ FALSE \in BOOLEAN
    BY <1>2 DEF SomeStatus
  <2> HIDE DEF st
  <2> QED BY <1>1, <1>4, <2>1, FieldsTyped
<1>6. /\ next.dev = job.dev /\ next.kind = job.kind /\ next.new = job.new
  BY <1>1 DEF WorkerType
<1>7. DeviceJob(next)
  BY <1>1, <1>5, <1>6 DEF DeviceJob, KindOK
<1>8. docs' = Append(docs, doc) /\ Continue(w, IF job.first THEN count ELSE Created(next))
  BY DEF InsertDeviceDeployment
<1> HIDE DEF next
<1>9. WellFormed(count)
  <2>1. count \in WorkerType
    BY <1>5, FieldsTyped, "inc_count" \in PCs DEF PCs
  <2>2. /\ count.pc = "inc_count" /\ count.dev = next.dev
        /\ count.kind = next.kind /\ count.new = next.new
    BY <1>5 DEF WorkerType
  <2> QED BY <1>7, <2>1, <2>2 DEF WellFormed, JobOK, KindOK, DeviceJob, AbortPCs
<1>10. WellFormed(Created(next))
  BY <1>7, CreatedOK
<1>11. docs' \in Seq(DocType)
  <2> HIDE DEF doc
  <2> QED BY <1>3, <1>4, <1>8
<1> QED BY <1>8, <1>9, <1>10, <1>11, StepOK DEF InsertDeviceDeployment, Unchanged, IInv, TypeOK

\* The step IncrementDeviceCount of a worker keeps the invariant.
LEMMA IncrementDeviceCountOK ==
    ASSUME IInv, NEW w \in Workers, IncrementDeviceCount(w)
    PROVE  IInv'
<1>1. DeviceJob(workers[w])
  BY JobFacts DEF IncrementDeviceCount, At, DevicePCs
<1>2. deployments' \in [Deployments -> DeploymentType]
  BY DeploymentUpdated DEF IncrementDeviceCount, IInv
<1> QED BY <1>1, <1>2, CreatedOK, StepOK DEF IncrementDeviceCount, Unchanged, IInv, TypeOK

\* The step SaveRequest of a worker keeps the invariant.
LEMMA SaveRequestOK ==
    ASSUME IInv, NEW w \in Workers, SaveRequest(w)
    PROVE  IInv'
<1> DEFINE job == workers[w]
           next == [job EXCEPT !.pc = "instructions"]
<1>1. DeviceJob(job) /\ job \in WorkerType /\ KindOK(job) /\ job.dev \in Devices
  BY JobFacts DEF SaveRequest, At, DevicePCs, DeviceJob
<1>2. WellFormed(next)
  <2>1. next \in WorkerType
    BY <1>1, FieldsTyped, "instructions" \in PCs DEF PCs
  <2>2. /\ next.pc = "instructions" /\ next.dev = job.dev
        /\ next.kind = job.kind /\ next.new = job.new
    BY <1>1 DEF WorkerType
  <2> QED BY <1>1, <2>1, <2>2 DEF WellFormed, JobOK, KindOK, AbortPCs
<1>3. WellFormed(BeginUpdate(job, "failure"))
  BY <1>1, BeginUpdateOK DEF Statuses, FinishedStatuses
<1>4. docs' \in Seq(DocType)
  <2>1. job.req \in Requests \union {NoRequest} /\ docs \in Seq(DocType)
    BY <1>1 DEF WorkerType, IInv, TypeOK
  <2>2. CASE job.doc \in DOMAIN docs
    BY <2>1, <2>2, DocUpdated DEF SaveRequest, IInv
  <2>3. CASE job.doc \notin DOMAIN docs
    <3>1. \A doc : [docs EXCEPT ![job.doc] = doc] = docs
      BY <2>1, <2>3
    <3> QED BY <2>1, <3>1 DEF SaveRequest
  <2> QED BY <2>2, <2>3
<1> QED BY <1>2, <1>3, <1>4, StepOK DEF SaveRequest, Unchanged, IInv, TypeOK

\* The step Instructions of a worker keeps the invariant.
LEMMA InstructionsOK ==
    ASSUME IInv, NEW w \in Workers, Instructions(w)
    PROVE  IInv'
<1> DEFINE job == workers[w]
           withImage == [job EXCEPT !.image = TRUE]
<1>1. DeviceJob(job) /\ job \in WorkerType /\ KindOK(job) /\ job.dev \in Devices
  BY JobFacts DEF Instructions, At, DevicePCs, DeviceJob
<1>2. \A answer \in {"offer", "refused"} : WellFormed(Reply(job, answer))
  BY <1>1, ReplyOK DEF Answers
<1>3. WellFormed(BeginUpdate(job, "noartifact"))
  BY <1>1, BeginUpdateOK DEF Statuses, FinishedStatuses
<1>4. WellFormed(Instruct(job, FALSE))
  BY <1>1, InstructOK
<1>5. WellFormed(Instruct(withImage, TRUE))
  <2>1. withImage \in WorkerType
    BY <1>1, FieldsTyped
  <2>2. /\ withImage.dev = job.dev /\ withImage.kind = job.kind
        /\ withImage.new = job.new
    BY <1>1 DEF WorkerType
  <2> HIDE DEF withImage
  <2>3. DeviceJob(withImage)
    BY <1>1, <2>1, <2>2 DEF DeviceJob, KindOK
  <2> QED BY <2>3, InstructOK
<1>6. docs' \in Seq(DocType)
  <2>1. NotDeleted(DocsOf(job.dev, job.dep)) \subseteq DOMAIN docs
    BY DEF NotDeleted, DocsOf
  <2>2. docs \in Seq(DocType)
    BY DEF IInv, TypeOK
  <2> QED BY <2>1, <2>2, DocUpdated DEF Instructions, IInv
<1>7. \E next : WellFormed(next) /\ Continue(w, next)
  BY <1>2, <1>3, <1>4, <1>5 DEF Instructions
<1> QED BY <1>6, <1>7, StepOK DEF Instructions, Unchanged, IInv, TypeOK

\* The step IncrementTotalSize of a worker keeps the invariant.
LEMMA IncrementTotalSizeOK ==
    ASSUME IInv, NEW w \in Workers, IncrementTotalSize(w)
    PROVE  IInv'
<1>1. workers[w] \in WorkerType /\ KindOK(workers[w])
  BY JobFacts
<1>2. WellFormed(Reply(workers[w], "offer"))
  BY <1>1, ReplyOK DEF Answers
<1>3. deployments' \in [Deployments -> DeploymentType]
  BY DeploymentUpdated DEF IncrementTotalSize, IInv
<1> QED BY <1>2, <1>3, StepOK DEF IncrementTotalSize, Unchanged, IInv, TypeOK

\* The step GetDeviceDeployment of a worker keeps the invariant.
LEMMA GetDeviceDeploymentOK ==
    ASSUME IInv, NEW w \in Workers, GetDeviceDeployment(w)
    PROVE  IInv'
<1> DEFINE job == workers[w]
<1>1. /\ DeviceJob(job) /\ job \in WorkerType /\ KindOK(job)
      /\ job.new \in Statuses
  BY JobFacts DEF GetDeviceDeployment, At, DevicePCs, DeviceJob, JobOK
<1>2. WellFormed(Reply(job, "refused"))
  BY <1>1, ReplyOK DEF Answers
<1>3. ASSUME NEW i \in DOMAIN docs
      PROVE  WellFormed(BeginUpdate(WithDoc(job, i), job.new))
  <2>1. /\ DeviceJob(WithDoc(job, i))
        /\ WithDoc(job, i).new = job.new /\ WithDoc(job, i).kind = job.kind
    BY <1>1, WithDocOK DEF IInv
  <2>2. job.new = "aborted" => WithDoc(job, i).kind = "abort_device"
    BY <1>1, <2>1 DEF KindOK
  <2> QED BY <1>1, <2>1, <2>2, BeginUpdateOK
<1>4. NotDeleted(DocsOf(job.dev, job.dep)) \subseteq DOMAIN docs
  BY DEF NotDeleted, DocsOf
<1> QED BY <1>2, <1>3, <1>4, ReadOnlyOK DEF GetDeviceDeployment

\* The step UpdateStatus of a worker keeps the invariant.
LEMMA UpdateStatusOK ==
    ASSUME IInv, NEW w \in Workers, UpdateStatus(w)
    PROVE  IInv'
<1> DEFINE job == workers[w]
           next(i) == [Params(job) EXCEPT !.pc = "find_deployment",
                                          !.old = docs[i].status]
           found == NotDeleted(DocsOf(job.dev, job.dep))
<1>1. /\ DeviceJob(job) /\ job \in WorkerType /\ KindOK(job) /\ job.dev \in Devices
      /\ job.new \in Statuses
  BY JobFacts DEF UpdateStatus, At, DevicePCs, DeviceJob, JobOK
<1>2. WellFormed(Ended(job, "refused"))
  BY <1>1, EndedOK DEF Answers
<1>3. WellFormed(PastCounters(job))
  BY <1>1, PastCountersOK
<1>4. \A i \in found : i \in DOMAIN docs /\ docs[i].dep = job.dep
  BY DEF NotDeleted, DocsOf
<1>5. ASSUME NEW i \in found, docs[i].status # job.new
      PROVE  WellFormed(next(i))
  <2>1. docs[i].status \in Statuses /\ job.dep \in Deployments
    BY <1>4, DocTyped DEF IInv
  <2>2. next(i) \in WorkerType
    BY <1>1, <2>1, ParamsTyped, FieldsTyped, "find_deployment" \in PCs DEF PCs, SomeStatus
  <2>3. /\ next(i).pc = "find_deployment" /\ next(i).old = docs[i].status
        /\ next(i).kind = job.kind /\ next(i).dev = job.dev
        /\ next(i).dep = job.dep /\ next(i).new = job.new
    BY <1>1, ParamsTyped DEF WorkerType
  <2> QED BY <1>1, <1>5, <2>1, <2>2, <2>3 DEF WellFormed, JobOK, KindOK, AbortPCs
<1>6. docs' \in Seq(DocType)
  <2>1. docs \in Seq(DocType)
    BY DEF IInv, TypeOK
  <2> QED BY <1>1, <1>4, <2>1, DocUpdated DEF UpdateStatus, IInv
<1>7. \E job1 : WellFormed(job1) /\ Continue(w, job1)
  BY <1>2, <1>3, <1>5 DEF UpdateStatus
<1> QED BY <1>6, <1>7, StepOK DEF UpdateStatus, Unchanged, IInv, TypeOK

\* The overall status of a deployment is one of the three statuses.
LEMMA OverallTyped ==
    ASSUME NEW finished, NEW max, NEW stats
    PROVE  GetStatus(finished, max, stats) \in DeploymentStatuses
BY DEF GetStatus, DeploymentStatuses

\* The step FindDeployment of a worker keeps the invariant.
LEMMA FindDeploymentOK ==
    ASSUME IInv, NEW w \in Workers, FindDeployment(w)
    PROVE  IInv'
<1> DEFINE job == workers[w]
           d == deployments[job.dep]
           overall == OverallStatus(job.dep)
           next == [job EXCEPT !.pc = "inc_stats", !.was_finished = d.finished,
                               !.stats = d.stats, !.overall = overall]
<1>1. /\ job \in WorkerType /\ JobOK(job) /\ KindOK(job) /\ job.dev \in Devices
      /\ job.dep \in Deployments /\ job.pc = "find_deployment"
  BY JobFacts DEF FindDeployment, At, DevicePCs, DeviceJob, JobOK
<1>2. /\ d.finished \in BOOLEAN /\ d.stats \in StatsType
      /\ overall \in DeploymentStatuses
  <2>1. d \in DeploymentType
    BY <1>1 DEF IInv, TypeOK
  <2> QED BY <2>1, OverallTyped DEF DeploymentType, OverallStatus
<1>3. next \in WorkerType
  <2> HIDE DEF d, overall
  <2> QED BY <1>1, <1>2, FieldsTyped, "inc_stats" \in PCs DEF PCs
<1>4. /\ next.pc = "inc_stats" /\ next.dev = job.dev /\ next.kind = job.kind
      /\ next.new = job.new /\ next.old = job.old
  BY <1>1 DEF WorkerType
<1>5. WellFormed(next)
  BY <1>1, <1>3, <1>4 DEF WellFormed, JobOK, KindOK, DevicePCs, AbortPCs
<1> QED BY <1>5, ReadOnlyOK DEF FindDeployment

\* The step UpdateStatsInc of a worker keeps the invariant.
LEMMA UpdateStatsIncOK ==
    ASSUME IInv, NEW w \in Workers, UpdateStatsInc(w)
    PROVE  IInv'
<1> DEFINE job == workers[w]
           stats == StatsInc(deployments[job.dep].stats, job.old, job.new)
           overall == GetStatus(job.was_finished, MaxDevices(job.dep), stats)
           next == [Params(job) EXCEPT !.pc = "set_status", !.overall = overall]
<1>1. /\ DeviceJob(job) /\ job \in WorkerType /\ KindOK(job) /\ job.dev \in Devices
      /\ job.new \in Statuses /\ job.old \in Statuses
  BY JobFacts DEF UpdateStatsInc, At, DevicePCs, DeviceJob, JobOK
<1>2. WellFormed(PastCounters(job))
  BY <1>1, PastCountersOK
<1>3. overall \in DeploymentStatuses
  BY OverallTyped
<1>4. WellFormed(next)
  <2> HIDE DEF overall
  <2>1. next \in WorkerType
    BY <1>1, <1>3, ParamsTyped, FieldsTyped, "set_status" \in PCs DEF PCs
  <2>2. /\ next.pc = "set_status" /\ next.dev = job.dev
        /\ next.kind = job.kind /\ next.new = job.new
    BY <1>1, ParamsTyped DEF WorkerType
  <2> QED BY <1>1, <2>1, <2>2 DEF WellFormed, JobOK, KindOK, AbortPCs
<1>5. deployments' \in [Deployments -> DeploymentType]
  <2>1. CASE job.dep \in Deployments
    <3>1. deployments[job.dep].stats \in StatsType
      BY <2>1 DEF IInv, TypeOK, DeploymentType
    <3> QED BY <1>1, <3>1, StatsIncTyped, DeploymentUpdated DEF UpdateStatsInc, IInv
  <2>2. CASE job.dep \notin Deployments
    BY <2>2 DEF UpdateStatsInc, IInv, TypeOK
  <2> QED BY <2>1, <2>2
<1>6. \E job1 : WellFormed(job1) /\ Continue(w, job1)
  BY <1>2, <1>4 DEF UpdateStatsInc
<1> QED BY <1>5, <1>6, StepOK DEF UpdateStatsInc, Unchanged, IInv, TypeOK

\* The step SetStatus of a worker keeps the invariant.
LEMMA SetStatusOK ==
    ASSUME IInv, NEW w \in Workers, SetStatus(w)
    PROVE  IInv'
<1>1. DeviceJob(workers[w]) /\ workers[w].overall \in DeploymentStatuses
  BY JobFacts DEF SetStatus, At, DevicePCs, WorkerType
<1>2. deployments' \in [Deployments -> DeploymentType]
  BY <1>1, DeploymentUpdated DEF SetStatus, IInv
<1> QED BY <1>1, <1>2, PastCountersOK, StepOK DEF SetStatus, Unchanged, IInv, TypeOK

\* The step SaveLastStatus of a worker keeps the invariant.
LEMMA SaveLastStatusOK ==
    ASSUME IInv, NEW w \in Workers, SaveLastStatus(w)
    PROVE  IInv'
<1> DEFINE job == workers[w]
           last == [dep |-> job.dep, status |-> job.new]
<1>1. DeviceJob(job) /\ job \in WorkerType
  BY JobFacts DEF SaveLastStatus, At, DevicePCs
<1>2. last \in LastStatusType
  BY <1>1 DEF LastStatusType, WorkerType
<1>3. lastStatus' \in [Devices -> LastStatusType]
  BY <1>2 DEF SaveLastStatus, IInv, TypeOK
<1> QED BY <1>1, <1>3, AfterUpdateOK, StepOK DEF SaveLastStatus, Unchanged, IInv, TypeOK

\* The step CheckFinished of a worker keeps the invariant.
LEMMA CheckFinishedOK ==
    ASSUME IInv, NEW w \in Workers, CheckFinished(w)
    PROVE  IInv'
<1> DEFINE job == workers[w]
           next == [job EXCEPT !.pc = "abort_docs"]
<1>1. job \in WorkerType /\ KindOK(job) /\ job.kind = "abort"
  BY JobFacts DEF CheckFinished, At, AbortPCs, JobOK
<1>2. next \in WorkerType
  BY <1>1, FieldsTyped, "abort_docs" \in PCs DEF PCs
<1>3. next.pc = "abort_docs" /\ next.kind = job.kind /\ next.new = job.new
  BY <1>1 DEF WorkerType
<1>4. WellFormed(next)
  BY <1>1, <1>2, <1>3 DEF WellFormed, JobOK, KindOK, DevicePCs
<1> QED BY <1>4, IdleOK, ReadOnlyOK DEF CheckFinished

\* The step AbortDocs of a worker keeps the invariant.
LEMMA AbortDocsOK ==
    ASSUME IInv, NEW w \in Workers, AbortDocs(w)
    PROVE  IInv'
<1> DEFINE job == workers[w]
           next == [job EXCEPT !.pc = "aggregate"]
<1>1. job \in WorkerType /\ KindOK(job) /\ job.kind = "abort"
  BY JobFacts DEF AbortDocs, At, AbortPCs, JobOK
<1>2. next \in WorkerType
  BY <1>1, FieldsTyped, "aggregate" \in PCs DEF PCs
<1>3. next.pc = "aggregate" /\ next.kind = job.kind /\ next.new = job.new
  BY <1>1 DEF WorkerType
<1>4. WellFormed(next)
  BY <1>1, <1>2, <1>3 DEF WellFormed, JobOK, KindOK, DevicePCs
<1>5. \A doc \in DocType : [doc EXCEPT !.status = "aborted", !.active = FALSE] \in DocType
  BY StatusFacts DEF DocType, FinishedStatuses
<1>6. docs' \in Seq(DocType)
  <2>1. \A i \in DOMAIN docs : docs[i] \in DocType
    BY DocTyped DEF IInv
  <2>2. docs' \in [DOMAIN docs -> DocType]
    BY <1>5, <2>1 DEF AbortDocs
  <2> QED BY <2>2, DocsRewritten DEF IInv
<1> QED BY <1>4, <1>6, StepOK DEF AbortDocs, Unchanged, IInv, TypeOK

\* The aggregated counters are counters.
LEMMA AggregateTyped ==
    ASSUME TypeOK, NEW d
    PROVE  AggregateByStatus(d) \in StatsType
<1>1. ASSUME NEW st \in Statuses
      PROVE  AggregateByStatus(d)[st] \in Int
  <2> DEFINE S == {i \in DOMAIN docs : /\ docs[i].dep = d
                                       /\ docs[i].status = st
                                       /\ ~docs[i].deleted}
  <2>1. S \subseteq DOMAIN docs
    OBVIOUS
  <2>2. Cardinality(S) \in Int
    BY <2>1, DocsFinite
  <2> QED BY <2>2 DEF AggregateByStatus
<1> QED BY <1>1 DEF AggregateByStatus, StatsType

\* The step Aggregate of a worker keeps the invariant.
LEMMA AggregateOK ==
    ASSUME IInv, NEW w \in Workers, Aggregate(w)
    PROVE  IInv'
<1> DEFINE job == workers[w]
           stats == AggregateByStatus(job.dep)
           next == [job EXCEPT !.pc = "update_stats", !.stats = stats]
<1>1. job \in WorkerType /\ KindOK(job) /\ job.kind = "abort"
  BY JobFacts DEF Aggregate, At, AbortPCs, JobOK
<1>2. stats \in StatsType
  BY AggregateTyped DEF IInv
<1>3. Continue(w, next)
  BY DEF Aggregate
<1> HIDE DEF stats
<1>4. next \in WorkerType
  BY <1>1, <1>2, FieldsTyped, "update_stats" \in PCs DEF PCs
<1>5. next.pc = "update_stats" /\ next.kind = job.kind /\ next.new = job.new
  BY <1>1 DEF WorkerType
<1>6. WellFormed(next)
  BY <1>1, <1>4, <1>5 DEF WellFormed, JobOK, KindOK, DevicePCs
<1> QED BY <1>3, <1>6, ReadOnlyOK DEF Aggregate

\* The step UpdateStats of a worker keeps the invariant.
LEMMA UpdateStatsOK ==
    ASSUME IInv, NEW w \in Workers, UpdateStats(w)
    PROVE  IInv'
<1> DEFINE job == workers[w]
           next == [Params(job) EXCEPT !.pc = "finish"]
<1>1. job \in WorkerType /\ KindOK(job) /\ job.kind = "abort" /\ job.stats \in StatsType
  BY JobFacts DEF UpdateStats, At, AbortPCs, JobOK, WorkerType
<1>2. next \in WorkerType
  BY <1>1, ParamsTyped, FieldsTyped, "finish" \in PCs DEF PCs
<1>3. next.pc = "finish" /\ next.kind = job.kind /\ next.new = job.new
  BY <1>1, ParamsTyped DEF WorkerType
<1>4. WellFormed(next)
  BY <1>1, <1>2, <1>3 DEF WellFormed, JobOK, KindOK, DevicePCs
<1>5. deployments' \in [Deployments -> DeploymentType]
  BY <1>1, DeploymentUpdated DEF UpdateStats, IInv
<1> QED BY <1>4, <1>5, StepOK DEF UpdateStats, Unchanged, IInv, TypeOK

\* The step Finish of a worker keeps the invariant.
LEMMA FinishOK ==
    ASSUME IInv, NEW w \in Workers, Finish(w)
    PROVE  IInv'
<1>1. deployments' \in [Deployments -> DeploymentType]
  BY DeploymentUpdated DEF Finish, IInv, DeploymentStatuses
<1> QED BY <1>1, IdleOK, StepOK DEF Finish, Unchanged, IInv, TypeOK

\* The three steps of the reset of a history keep the invariant.
LEMMA HistoryOK ==
    ASSUME IInv, NEW w \in Workers, GetHistory(w) \/ MarkDeleted(w) \/ DeleteLast(w)
    PROVE  IInv'
<1> DEFINE job == workers[w]
           at(p) == [job EXCEPT !.pc = p]
<1>1. job \in WorkerType /\ KindOK(job)
  BY JobFacts
<1>2. ASSUME NEW p \in {"mark_deleted", "delete_last"}
      PROVE  WellFormed(at(p))
  <2>1. p \in PCs
    BY DEF PCs
  <2>2. at(p) \in WorkerType
    BY <1>1, <2>1, FieldsTyped
  <2>3. at(p).pc = p /\ at(p).kind = job.kind /\ at(p).new = job.new
    BY <1>1 DEF WorkerType
  <2> QED BY <1>1, <2>2, <2>3 DEF WellFormed, JobOK, KindOK, DevicePCs, AbortPCs
<1>3. CASE GetHistory(w)
  BY <1>2, <1>3, IdleOK, ReadOnlyOK DEF GetHistory
<1>4. CASE MarkDeleted(w)
  <2>1. \A doc \in DocType : [doc EXCEPT !.deleted = TRUE] \in DocType
    BY DEF DocType
  <2>2. \A i \in DOMAIN docs : docs[i] \in DocType
    BY DocTyped DEF IInv
  <2>3. docs' \in [DOMAIN docs -> DocType]
    BY <1>4, <2>1, <2>2 DEF MarkDeleted
  <2>4. docs' \in Seq(DocType)
    BY <2>3, DocsRewritten DEF IInv
  <2> QED BY <1>2, <1>4, <2>4, StepOK DEF MarkDeleted, Unchanged, IInv, TypeOK
<1>5. CASE DeleteLast(w)
  <2>1. [dep |-> 0, status |-> NoStatus] \in LastStatusType
    BY DEF LastStatusType, SomeStatus
  <2>2. lastStatus' \in [Devices -> LastStatusType]
    BY <1>5, <2>1 DEF DeleteLast, IInv, TypeOK
  <2> QED BY <1>5, <2>2, IdleOK, StepOK DEF DeleteLast, Unchanged, IInv, TypeOK
<1> QED BY <1>3, <1>4, <1>5

\* Cutting a request short keeps the invariant.
LEMMA FailOK ==
    ASSUME IInv, NEW w \in Workers, Fail(w)
    PROVE  IInv'
<1> DEFINE job == workers[w]
<1>1. job \in WorkerType /\ KindOK(job)
  BY JobFacts
<1>2. WellFormed(Reply(job, "offer"))
  BY <1>1, ReplyOK DEF Answers
<1>3. job.pc = "save_last" => WellFormed(AfterUpdate(job))
  BY JobFacts, AfterUpdateOK DEF DevicePCs
<1>4. failures' \in Nat
  BY DEF Fail, IInv, TypeOK
<1>5. \E next : WellFormed(next) /\ Continue(w, next)
  BY <1>2, <1>3, IdleOK DEF Fail
<1> QED BY <1>4, <1>5, StepOK DEF Fail, IInv, TypeOK

---------------------------------------------------------------------------
(* So do the arrival of a request and the creation of a deployment.        *)

\* A request that arrives well formed keeps the invariant.
LEMMA ArriveOK ==
    ASSUME IInv, NEW w \in Workers, NEW job, WellFormed(job), Arrive(w, job),
           devices' \in [Devices -> DeviceType], admin' \in Nat
    PROVE  IInv'
BY StepOK DEF Arrive, Continue, IInv, TypeOK

\* Every arrival of a request keeps the invariant.
LEMMA RequestOK ==
    ASSUME IInv, NEW w \in Workers, Request(w)
    PROVE  IInv'
<1>0. Idle \in WorkerType /\ IInv /\ TypeOK
  BY IdleOK DEF WellFormed, IInv
<1>1. ASSUME NEW dev \in Devices, NEW req \in Requests, StartPoll(w, dev, req)
      PROVE  IInv'
  <2> DEFINE job == [Idle EXCEPT !.pc = "find_active", !.kind = "poll",
                                 !.dev = dev, !.req = req]
  <2>1. job \in WorkerType
    BY NewStatsTyped DEF Idle, WorkerType, PCs, Answers, DeploymentStatuses, SomeStatus,
       DeviceKinds
  <2>2. job.kind \in Kinds
    BY <1>1 DEF StartPoll, Arrive
  <2>3. JobOK(job)
    BY <2>2 DEF Idle, JobOK, KindOK, DevicePCs, AbortPCs, NoStatus
  <2> HIDE DEF job
  <2>4. WellFormed(job)
    BY <2>1, <2>3 DEF WellFormed
  <2> QED BY <1>1, <2>4, ArriveOK DEF StartPoll, IInv, TypeOK, job
<1>2. ASSUME NEW dev \in Devices, NEW d \in Deployments, NEW st \in Reports,
             StartReport(w, dev, d, st)
      PROVE  IInv'
  <2> DEFINE job == [Idle EXCEPT !.pc = "get_dd", !.kind = "report",
                                 !.dev = dev, !.dep = d, !.new = st]
  <2>1. st \in Statuses /\ st \in SomeStatus /\ st # "aborted"
    BY ReportsAssumption, StatusFacts DEF SomeStatus
  <2>2. job \in WorkerType
    BY <2>1, NewStatsTyped DEF Idle, WorkerType, PCs, Answers, DeploymentStatuses,
       SomeStatus, DeviceKinds
  <2>3. job.kind \in Kinds
    BY <1>2 DEF StartReport, Arrive
  <2>4. JobOK(job)
    BY <2>1, <2>3 DEF Idle, JobOK, KindOK, DevicePCs, AbortPCs
  <2>5. devices' \in [Devices -> DeviceType]
    <3>1. devices \in [Devices -> DeviceType]
      BY DEF IInv, TypeOK
    <3>2. [devices EXCEPT ![dev].said = st] \in [Devices -> DeviceType]
      BY <2>1, <3>1 DEF DeviceType
    <3> QED BY <1>2, <3>1, <3>2 DEF StartReport
  <2> HIDE DEF job
  <2>6. WellFormed(job)
    BY <2>2, <2>4 DEF WellFormed
  <2> QED BY <1>2, <2>5, <2>6, ArriveOK DEF StartReport, IInv, TypeOK, job
<1>3. ASSUME NEW job, WellFormed(job), StartAdmin(w, job)
      PROVE  IInv'
  BY <1>3, ArriveOK DEF StartAdmin, IInv, TypeOK
<1>4. ASSUME NEW kind \in DeviceWideKinds, NEW dev \in Devices,
             StartDeviceWide(w, kind, dev)
      PROVE  IInv'
  <2> DEFINE job == [Idle EXCEPT !.pc = "find_active", !.kind = kind, !.dev = dev]
  <2>1. job \in WorkerType
    BY NewStatsTyped DEF Idle, WorkerType, PCs, Answers, DeploymentStatuses, SomeStatus,
       AdminKinds
  <2>2. job.kind \in Kinds
    BY <1>4 DEF StartDeviceWide, StartAdmin, Arrive
  <2>3. JobOK(job)
    BY <2>2 DEF Idle, JobOK, KindOK, DevicePCs, AbortPCs, NoStatus
  <2> HIDE DEF job
  <2>4. WellFormed(job)
    BY <2>1, <2>3 DEF WellFormed
  <2> QED BY <1>3, <1>4, <2>4 DEF StartDeviceWide, job
<1>5. ASSUME NEW dev \in Devices, StartDeleteHistory(w, dev)
      PROVE  IInv'
  <2> DEFINE job == [Idle EXCEPT !.pc = "get_history", !.kind = "delete_history",
                                 !.dev = dev]
  <2>1. job \in WorkerType
    BY NewStatsTyped DEF Idle, WorkerType, PCs, Answers, DeploymentStatuses, SomeStatus,
       AdminKinds
  <2>2. job.kind \in Kinds
    BY <1>5 DEF StartDeleteHistory, StartAdmin, Arrive
  <2>3. JobOK(job)
    BY <2>2 DEF Idle, JobOK, KindOK, DevicePCs, AbortPCs, NoStatus
  <2> HIDE DEF job
  <2>4. WellFormed(job)
    BY <2>1, <2>3 DEF WellFormed
  <2> QED BY <1>3, <1>5, <2>4 DEF StartDeleteHistory, job
<1>6. ASSUME NEW d \in Deployments, StartAbort(w, d)
      PROVE  IInv'
  <2> DEFINE job == [Idle EXCEPT !.pc = "check_finished", !.kind = "abort", !.dep = d]
  <2>1. job \in WorkerType
    BY NewStatsTyped DEF Idle, WorkerType, PCs, Answers, DeploymentStatuses, SomeStatus,
       AdminKinds
  <2>2. job.kind \in Kinds
    BY <1>6 DEF StartAbort, StartAdmin, Arrive
  <2>3. JobOK(job)
    BY <2>2 DEF Idle, JobOK, KindOK, DevicePCs, AbortPCs, NoStatus
  <2> HIDE DEF job
  <2>4. WellFormed(job)
    BY <2>1, <2>3 DEF WellFormed
  <2> QED BY <1>3, <1>6, <2>4 DEF StartAbort, job
<1> QED BY <1>1, <1>2, <1>4, <1>5, <1>6 DEF Request

\* The initial deployments are well typed.
LEMMA InitialTyped ==
    ASSUME NEW max \in Nat
    PROVE  InitialStats(max) \in StatsType
<1>1. NewStats \in [Statuses -> Int] /\ "pending" \in Statuses
  BY NewStatsTyped DEF StatsType, Statuses, ActiveStatuses
<1> QED BY <1>1 DEF InitialStats, StatsType

\* Building and storing a deployment keep the invariant.
LEMMA CreateOK ==
    ASSUME IInv, Create
    PROVE  IInv'
<1>1. deployments' \in [Deployments -> DeploymentType]
  <2>1. ASSUME NEW list \in DeviceLists, BuildDeployment(list)
        PROVE  deployments' \in [Deployments -> DeploymentType]
    <3>1. list \in Seq(Devices) /\ Len(list) \in Nat
      BY ListsAssumption
    <3> DEFINE stats == InitialStats(Len(list))
    <3>2. stats \in StatsType
      BY <3>1, InitialTyped
    <3>3. PICK d \in Deployments :
            deployments' = [deployments EXCEPT ![d].stage = "built", ![d].list = list,
                                               ![d].stats = stats]
      BY <2>1 DEF BuildDeployment
    <3> HIDE DEF stats
    <3>4. \A f \in [Deployments -> DeploymentType] :
            /\ [f EXCEPT ![d].stage = "built"] \in [Deployments -> DeploymentType]
            /\ [f EXCEPT ![d].list = list] \in [Deployments -> DeploymentType]
            /\ [f EXCEPT ![d].stats = stats] \in [Deployments -> DeploymentType]
      <4> SUFFICES ASSUME NEW f \in [Deployments -> DeploymentType]
                   PROVE  /\ [f EXCEPT ![d].stage = "built"]
                                 \in [Deployments -> DeploymentType]
                          /\ [f EXCEPT ![d].list = list]
                                 \in [Deployments -> DeploymentType]
                          /\ [f EXCEPT ![d].stats = stats]
                                 \in [Deployments -> DeploymentType]
        OBVIOUS
      <4>1. [f EXCEPT ![d].stage = "built"] \in [Deployments -> DeploymentType]
        BY DEF DeploymentType
      <4>2. [f EXCEPT ![d].list = list] \in [Deployments -> DeploymentType]
        BY <3>1 DEF DeploymentType
      <4>3. [f EXCEPT ![d].stats = stats] \in [Deployments -> DeploymentType]
        BY <3>2 DEF DeploymentType
      <4> QED BY <4>1, <4>2, <4>3
    <3> QED BY <3>3, <3>4 DEF IInv, TypeOK
  <2>2. ASSUME NEW d \in Deployments, InsertDeployment(d)
        PROVE  deployments' \in [Deployments -> DeploymentType]
    <3>1. \A f \in [Deployments -> DeploymentType] :
            /\ [f EXCEPT ![d].stage = "stored"] \in [Deployments -> DeploymentType]
            /\ [f EXCEPT ![d].active = TRUE] \in [Deployments -> DeploymentType]
      BY DEF DeploymentType
    <3> QED BY <2>2, <3>1 DEF InsertDeployment, IInv, TypeOK
  <2> QED BY <2>1, <2>2 DEF Create
<1>2. UNCHANGED <<docs, lastStatus, devices, workers, admin, failures>>
  BY DEF Create, BuildDeployment, InsertDeployment
<1> QED BY <1>1, <1>2 DEF IInv, TypeOK, JobOK, KindOK

---------------------------------------------------------------------------
(* Theorems.                                                               *)

\* The initial states satisfy the invariant.
LEMMA InitIInv == Init => IInv
<1> SUFFICES ASSUME Init PROVE IInv
  OBVIOUS
<1>1. deployments \in [Deployments -> DeploymentType]
  BY NewStatsTyped DEF Init, DeploymentType, DeploymentStatuses
<1>2. /\ docs \in Seq(DocType)
      /\ lastStatus \in [Devices -> LastStatusType]
      /\ devices \in [Devices -> DeviceType]
      /\ admin \in Nat /\ failures \in Nat
  BY DEF Init, LastStatusType, DeviceType, SomeStatus
<1>3. workers \in [Workers -> WorkerType] /\ \A w \in Workers : JobOK(workers[w])
  BY IdleOK DEF Init, WellFormed
<1> QED BY <1>1, <1>2, <1>3 DEF IInv, TypeOK

\* Every step of a worker keeps the invariant.
LEMMA StepIInv ==
    ASSUME IInv, NEW w \in Workers, Step(w)
    PROVE  IInv'
BY RespondOK, FindActiveOK, FindInactiveOK, FindNewerOK, FindExistingOK, InsertOK,
   IncrementDeviceCountOK, SaveRequestOK, InstructionsOK, IncrementTotalSizeOK,
   GetDeviceDeploymentOK, UpdateStatusOK, FindDeploymentOK, UpdateStatsIncOK,
   SetStatusOK, SaveLastStatusOK, CheckFinishedOK, AbortDocsOK, AggregateOK,
   UpdateStatsOK, FinishOK, HistoryOK DEF Step

\* Every step of the specification keeps the invariant.
LEMMA NextIInv == IInv /\ [Next]_vars => IInv'
<1> SUFFICES ASSUME IInv, [Next]_vars PROVE IInv'
  OBVIOUS
<1>1. CASE Create
  BY <1>1, CreateOK
<1>2. ASSUME NEW w \in Workers, Request(w) \/ Step(w) \/ Fail(w)
      PROVE  IInv'
  BY <1>2, RequestOK, StepIInv, FailOK
<1>3. CASE UNCHANGED vars
  BY <1>3 DEF vars, IInv, TypeOK, JobOK, KindOK
<1> QED BY <1>1, <1>2, <1>3 DEF Next

\* The documents of the store and the local variables of every handler keep
\* their shape, and what a handler relies on at each operation holds there.
THEOREM Invariant == Spec => []IInv
<1> QED BY InitIInv, NextIInv, PTL DEF Spec

\* Every variable keeps its shape in all reachable states: the handlers in
\* app/app.go never store a document, nor hold a local variable, outside TypeOK.
THEOREM TypeCorrect == Spec => []TypeOK
<1>1. IInv => TypeOK
  BY DEF IInv
<1> QED BY Invariant, <1>1, PTL

---------------------------------------------------------------------------
(* The counters add up.                                                    *)

\* Every deployment built so far counts as many devices as it has places.
SInv ==
    /\ IInv
    /\ \A d \in Deployments : deployments[d].stage # "none" =>
         CountedDevices(deployments[d].stats) = MaxDevices(d)

\* Moving one counter moves the sum.
LEMMA CountMoves ==
    ASSUME NEW stats \in StatsType, NEW st \in Statuses, NEW k \in Int
    PROVE  CountedDevices([stats EXCEPT ![st] = @ + k]) = CountedDevices(stats) + k
<1>1. \A t \in Statuses :
        /\ stats[t] \in Int
        /\ [stats EXCEPT ![st] = @ + k][t] = IF t = st THEN stats[t] + k ELSE stats[t]
  BY DEF StatsType
<1> DEFINE moved == [stats EXCEPT ![st] = @ + k]
<1> HIDE DEF moved
<1>2. CASE st \in ActiveStatuses
  BY <1>1, <1>2 DEF CountedDevices, CountedOutcomes, Statuses, ActiveStatuses,
                    FinishedStatuses, moved
<1>3. CASE st \in FinishedStatuses
  BY <1>1, <1>3 DEF CountedDevices, CountedOutcomes, Statuses, ActiveStatuses,
                    FinishedStatuses, moved
<1> QED BY <1>2, <1>3 DEF Statuses, moved

\* StatsInc takes a device from one counter to another.
LEMMA StatsIncConserves ==
    ASSUME NEW stats \in StatsType, NEW from \in Statuses, NEW to \in Statuses,
           from # to
    PROVE  CountedDevices(StatsInc(stats, from, to)) = CountedDevices(stats)
<1> DEFINE less == [stats EXCEPT ![from] = @ - 1]
<1>1. less \in StatsType
  BY DEF StatsType
<1>2. CountedDevices(less) = CountedDevices(stats) + (-1)
  <2>1. stats[from] - 1 = stats[from] + (-1)
    BY DEF StatsType
  <2>2. less = [stats EXCEPT ![from] = @ + (-1)]
    BY <2>1
  <2> QED BY <2>2, CountMoves
<1>3. StatsInc(stats, from, to) = [less EXCEPT ![to] = @ + 1]
  <2>1. less[to] = stats[to]
    BY DEF StatsType
  <2> QED BY <2>1 DEF StatsInc
<1> HIDE DEF less
<1>4. CountedDevices([less EXCEPT ![to] = @ + 1]) = CountedDevices(less) + 1
  BY <1>1, CountMoves
<1>5. CountedDevices(stats) \in Int
  BY DEF CountedDevices, CountedOutcomes, StatsType, Statuses, ActiveStatuses,
         FinishedStatuses
<1> QED BY <1>2, <1>3, <1>4, <1>5

\* The initial counters of a deployment add up to the length of its device list.
LEMMA InitialCounted ==
    ASSUME NEW max \in Nat
    PROVE  CountedDevices(InitialStats(max)) = max
BY DEF CountedDevices, CountedOutcomes, InitialStats, NewStats, Statuses,
       ActiveStatuses, FinishedStatuses

\* A step that moves no counter and gives no deployment another list.
LEMMA CountersKept ==
    ASSUME SInv, IInv',
           \A d \in Deployments :
              /\ deployments'[d].stats = deployments[d].stats
              /\ deployments'[d].list = deployments[d].list
              /\ deployments'[d].stage # "none" => deployments[d].stage # "none"
    PROVE  SInv'
BY DEF SInv, MaxDevices

\* Building and storing a deployment keep the sum of the counters.
LEMMA CreateCounts ==
    ASSUME SInv, IInv', Create
    PROVE  SInv'
<1>1. ASSUME NEW list \in DeviceLists, BuildDeployment(list)
      PROVE  SInv'
  <2> DEFINE stats == InitialStats(Len(list))
  <2>1. PICK d \in Deployments :
          deployments' = [deployments EXCEPT ![d].stage = "built", ![d].list = list,
                                             ![d].stats = stats]
    BY <1>1 DEF BuildDeployment
  <2>2. CountedDevices(stats) = Len(list)
    BY ListsAssumption, InitialCounted
  <2> HIDE DEF stats
  <2>3. deployments'[d].stats = stats /\ deployments'[d].list = list
    BY <2>1 DEF SInv, IInv, TypeOK, DeploymentType
  <2>4. \A e \in Deployments \ {d} : deployments'[e] = deployments[e]
    BY <2>1 DEF SInv, IInv, TypeOK
  <2> QED BY <2>2, <2>3, <2>4 DEF SInv, MaxDevices
<1>2. ASSUME NEW d \in Deployments, InsertDeployment(d)
      PROVE  SInv'
  <2>1. deployments \in [Deployments -> DeploymentType]
    BY DEF SInv, IInv, TypeOK
  <2>2. \A e \in Deployments :
          /\ deployments'[e].stats = deployments[e].stats
          /\ deployments'[e].list = deployments[e].list
          /\ deployments'[e].stage # "none" => deployments[e].stage # "none"
    BY <1>2, <2>1 DEF InsertDeployment, DeploymentType
  <2> QED BY <2>2, CountersKept
<1> QED BY <1>1, <1>2 DEF Create

\* UpdateStatsInc moves one device from a counter to another: the sum stays.
LEMMA StatsIncCounts ==
    ASSUME SInv, IInv', NEW w \in Workers, UpdateStatsInc(w)
    PROVE  SInv'
<1> DEFINE job == workers[w]
           stats == StatsInc(deployments[job.dep].stats, job.old, job.new)
<1>1. deployments' = [deployments EXCEPT ![job.dep].stats = stats]
  BY DEF UpdateStatsInc
<1>2. deployments \in [Deployments -> DeploymentType]
  BY DEF SInv, IInv, TypeOK
<1>3. \A d \in Deployments \ {job.dep} : deployments'[d] = deployments[d]
  BY <1>1, <1>2
<1>4. job.dep \in Deployments =>
        /\ CountedDevices(stats) = CountedDevices(deployments[job.dep].stats)
        /\ deployments'[job.dep].stats = stats
        /\ deployments'[job.dep].list = deployments[job.dep].list
        /\ deployments'[job.dep].stage = deployments[job.dep].stage
  <2> SUFFICES ASSUME job.dep \in Deployments
               PROVE  /\ CountedDevices(stats) = CountedDevices(deployments[job.dep].stats)
                      /\ deployments'[job.dep].stats = stats
                      /\ deployments'[job.dep].list = deployments[job.dep].list
                      /\ deployments'[job.dep].stage = deployments[job.dep].stage
    OBVIOUS
  <2>1. job.new \in Statuses /\ job.old \in Statuses /\ job.old # job.new
    BY JobFacts DEF UpdateStatsInc, At, JobOK, SInv
  <2>2. deployments[job.dep] \in DeploymentType
    BY <1>2
  <2>3. CountedDevices(stats) = CountedDevices(deployments[job.dep].stats)
    BY <2>1, <2>2, StatsIncConserves DEF DeploymentType
  <2> HIDE DEF stats
  <2>4. /\ deployments'[job.dep].stats = stats
        /\ deployments'[job.dep].list = deployments[job.dep].list
        /\ deployments'[job.dep].stage = deployments[job.dep].stage
    BY <1>1, <1>2, <2>2 DEF DeploymentType
  <2> QED BY <2>3, <2>4
<1> QED BY <1>3, <1>4 DEF SInv, MaxDevices

\* Besides UpdateStatsInc, only an abort writes counters.
LEMMA StepCounts ==
    ASSUME "abort" \notin Kinds, SInv, IInv', NEW w \in Workers, Step(w)
    PROVE  SInv'
<1>1. workers[w].pc \notin AbortPCs
  BY JobFacts DEF SInv, JobOK, KindOK
<1>2. deployments \in [Deployments -> DeploymentType]
  BY DEF SInv, IInv, TypeOK
<1>3. CASE UpdateStatsInc(w)
  BY <1>3, StatsIncCounts
<1>4. CASE IncrementDeviceCount(w) \/ IncrementTotalSize(w) \/ SetStatus(w)
  <2> SUFFICES ASSUME NEW d \in Deployments
               PROVE  /\ deployments'[d].stats = deployments[d].stats
                      /\ deployments'[d].list = deployments[d].list
                      /\ deployments'[d].stage = deployments[d].stage
    BY CountersKept
  <2>1. CASE IncrementDeviceCount(w)
    BY <1>2, <2>1 DEF IncrementDeviceCount, DeploymentType
  <2>2. CASE IncrementTotalSize(w)
    BY <1>2, <2>2 DEF IncrementTotalSize, DeploymentType
  <2>3. CASE SetStatus(w)
    BY <1>2, <2>3 DEF SetStatus, WithStatus, DeploymentType
  <2> QED BY <1>4, <2>1, <2>2, <2>3
<1>5. CASE UNCHANGED deployments
  BY <1>5, CountersKept
<1>6. UNCHANGED deployments \/ UpdateStatsInc(w) \/ IncrementDeviceCount(w)
        \/ IncrementTotalSize(w) \/ SetStatus(w)
  BY <1>1 DEF Step, Respond, FindActive, FindInactive, FindNewer, FindExisting,
     InsertDeviceDeployment, SaveRequest, Instructions, GetDeviceDeployment, UpdateStatus,
     FindDeployment, SaveLastStatus, CheckFinished, AbortDocs, Aggregate, UpdateStats,
     Finish, GetHistory, MarkDeleted, DeleteLast, ReadOnly, At, AbortPCs
<1> QED BY <1>3, <1>4, <1>5, <1>6

\* Whatever devices report, whoever is decommissioned or reset and whichever
\* request is cut short: the counters of a deployment that no operator aborts
\* as a whole add up to the number of devices it was created for
\* (UpdateStatsInc moves a device from one counter to another).
THEOREM CountersConserved ==
    ASSUME "abort" \notin Kinds
    PROVE  Spec => []StatsConserved
<1>1. Init => SInv
  <2>1. Init => \A d \in Deployments : deployments[d].stage = "none"
    BY DEF Init
  <2> QED BY <2>1, InitIInv DEF SInv
<1>2. SInv /\ [Next]_vars => SInv'
  <2> SUFFICES ASSUME SInv, [Next]_vars PROVE SInv'
    OBVIOUS
  <2>1. IInv'
    BY NextIInv DEF SInv
  <2>2. CASE Create
    BY <2>1, <2>2, CreateCounts
  <2>3. ASSUME NEW w \in Workers, Step(w)
        PROVE  SInv'
    BY <2>1, <2>3, StepCounts
  <2>4. ASSUME NEW w \in Workers, Request(w) \/ Fail(w)
        PROVE  SInv'
    <3>1. UNCHANGED deployments
      BY <2>4 DEF Request, Fail, StartPoll, StartReport, StartDeviceWide,
         StartDeleteHistory, StartAbort, StartAdmin, Arrive
    <3> QED BY <2>1, <3>1, CountersKept
  <2>5. CASE UNCHANGED vars
    BY <2>1, <2>5, CountersKept DEF vars
  <2> QED BY <2>2, <2>3, <2>4, <2>5 DEF Next
<1>3. SInv => StatsConserved
  BY DEF SInv, StatsConserved, Stored
<1> QED BY <1>1, <1>2, <1>3, PTL DEF Spec

---------------------------------------------------------------------------
(* An abort keeps outcomes.                                                *)

\* What a step does to the status of a device deployment: it leaves it, writes
\* the status of the request, or aborts it while it is active.
Evolves(old, new, job) ==
    \/ new.status = old.status /\ new.active = old.active
    \/ job.pc = "update_status" /\ new.status = job.new /\ new.active = Active(job.new)
    \/ old.active /\ new.status = "aborted" /\ new.active = FALSE

Consistent(doc) == doc.active = Active(doc.status)

\* The flag "active" agrees with the status in every device deployment.
AInv == IInv /\ \A i \in DOMAIN docs : Consistent(docs[i])

\* A step of a worker changes device deployments only as Evolves allows.
LEMMA DocsStep ==
    ASSUME IInv, NEW w \in Workers, Step(w)
    PROVE  /\ \A i \in DOMAIN docs : i \in DOMAIN docs' /\ Evolves(docs[i], docs'[i], workers[w])
           /\ \A i \in DOMAIN docs' \ DOMAIN docs : Consistent(docs'[i])
<1> DEFINE job == workers[w]
           Goal == /\ \A i \in DOMAIN docs : i \in DOMAIN docs' /\ Evolves(docs[i], docs'[i], job)
                   /\ \A i \in DOMAIN docs' \ DOMAIN docs : Consistent(docs'[i])
<1>1. docs \in Seq(DocType) /\ \A i \in DOMAIN docs : docs[i] \in DocType
  BY DocTyped DEF IInv, TypeOK
<1>2. CASE UNCHANGED docs
  BY <1>2 DEF Evolves
<1>3. CASE InsertDeviceDeployment(w)
  <2> DEFINE st == IF job.kind = "poll" THEN "pending" ELSE WideStatus(job.kind)
             doc == [dev |-> job.dev, dep |-> job.dep, status |-> st,
                     active |-> Active(st), deleted |-> FALSE,
                     request |-> NoRequest, image |-> FALSE]
  <2>1. docs' = Append(docs, doc)
    BY <1>3 DEF InsertDeviceDeployment
  <2>2. Consistent(doc)
    BY DEF Consistent
  <2> HIDE DEF doc
  <2>3. /\ DOMAIN docs' = 1..(Len(docs) + 1) /\ DOMAIN docs = 1..Len(docs)
        /\ docs'[Len(docs) + 1] = doc
        /\ \A i \in DOMAIN docs : docs'[i] = docs[i]
    BY <1>1, <2>1
  <2>4. Len(docs) \in Nat
    BY <1>1
  <2>5. \A i \in DOMAIN docs' \ DOMAIN docs : i = Len(docs) + 1
    BY <2>3, <2>4
  <2>6. \A i \in DOMAIN docs : i \in DOMAIN docs'
    BY <2>3, <2>4
  <2> QED BY <2>2, <2>3, <2>5, <2>6 DEF Evolves
<1>4. CASE \E i, r : docs' = [docs EXCEPT ![i].request = r]
  <2>1. PICK i, r : docs' = [docs EXCEPT ![i].request = r]
    BY <1>4
  <2> QED BY <1>1, <2>1 DEF Evolves, DocType
<1>5. CASE \E i : docs' = [docs EXCEPT ![i].image = TRUE]
  <2>1. PICK i : docs' = [docs EXCEPT ![i].image = TRUE]
    BY <1>5
  <2> QED BY <1>1, <2>1 DEF Evolves, DocType
<1>6. CASE UpdateStatus(w) /\ ~UNCHANGED docs
  <2>1. PICK i \in DOMAIN docs :
          docs' = [docs EXCEPT ![i].status = job.new, ![i].active = Active(job.new)]
    BY <1>6 DEF UpdateStatus, NotDeleted, DocsOf
  <2>2. job.pc = "update_status"
    BY <1>6 DEF UpdateStatus, At
  <2>3. DOMAIN docs' = DOMAIN docs
    BY <1>1, <2>1
  <2>4. docs'[i].status = job.new /\ docs'[i].active = Active(job.new)
    BY <1>1, <2>1 DEF DocType
  <2>5. \A j \in DOMAIN docs \ {i} : docs'[j] = docs[j]
    BY <1>1, <2>1
  <2> QED BY <2>2, <2>3, <2>4, <2>5 DEF Evolves
<1>7. CASE AbortDocs(w)
  BY <1>1, <1>7 DEF AbortDocs, Evolves, DocType
<1>8. CASE MarkDeleted(w)
  BY <1>1, <1>8 DEF MarkDeleted, Evolves, DocType
<1>9. \/ UNCHANGED docs \/ InsertDeviceDeployment(w) \/ UpdateStatus(w)
      \/ AbortDocs(w) \/ MarkDeleted(w)
      \/ \E i, r : docs' = [docs EXCEPT ![i].request = r]
      \/ \E i : docs' = [docs EXCEPT ![i].image = TRUE]
  BY DEF Step, Respond, FindActive, FindInactive, FindNewer, FindExisting,
     IncrementDeviceCount, SaveRequest, Instructions, IncrementTotalSize,
     GetDeviceDeployment, FindDeployment, UpdateStatsInc, SetStatus, SaveLastStatus,
     CheckFinished, Aggregate, UpdateStats, Finish, GetHistory, DeleteLast, ReadOnly
<1> QED BY <1>2, <1>3, <1>4, <1>5, <1>6, <1>7, <1>8, <1>9

\* Arrivals, failures and the creation of deployments leave device deployments alone.
LEMMA OthersKeepDocs ==
    ASSUME [Next]_vars, \A w \in Workers : ~Step(w)
    PROVE  UNCHANGED docs
<1>1. CASE UNCHANGED vars
  BY <1>1 DEF vars
<1>2. CASE Create
  BY <1>2 DEF Create, BuildDeployment, InsertDeployment
<1>3. ASSUME NEW w \in Workers, Request(w)
      PROVE  UNCHANGED docs
  BY <1>3 DEF Request, StartPoll, StartReport, StartDeviceWide, StartDeleteHistory,
     StartAbort, StartAdmin, Arrive
<1>4. ASSUME NEW w \in Workers, Fail(w)
      PROVE  UNCHANGED docs
  BY <1>4 DEF Fail
<1> QED BY <1>1, <1>2, <1>3, <1>4 DEF Next

\* The flag agrees with the status in the initial states, where there are none.
LEMMA InitAInv == Init => AInv
<1>1. Init => DOMAIN docs = {}
  BY DEF Init
<1> QED BY <1>1, InitIInv DEF AInv

\* Every step keeps the flag in agreement with the status.
LEMMA NextAInv == AInv /\ [Next]_vars => AInv'
<1> SUFFICES ASSUME AInv, [Next]_vars PROVE AInv'
  OBVIOUS
<1>1. IInv'
  BY NextIInv DEF AInv
<1>2. CASE UNCHANGED docs
  BY <1>1, <1>2 DEF AInv
<1>3. ASSUME NEW w \in Workers, Step(w)
      PROVE  AInv'
  <2>1. \A i \in DOMAIN docs : Evolves(docs[i], docs'[i], workers[w]) /\ Consistent(docs[i])
    BY <1>3, DocsStep DEF AInv
  <2>2. Active("aborted") = FALSE
    BY DEF Active, ActiveStatuses
  <2>3. \A i \in DOMAIN docs : Consistent(docs'[i])
    <3> SUFFICES ASSUME NEW i \in DOMAIN docs
                 PROVE  docs'[i].active = Active(docs'[i].status)
      BY DEF Consistent
    <3>1. CASE docs'[i].status = docs[i].status /\ docs'[i].active = docs[i].active
      BY <2>1, <3>1 DEF Consistent
    <3>2. CASE docs'[i].status = workers[w].new /\ docs'[i].active = Active(workers[w].new)
      BY <3>2
    <3>3. CASE docs'[i].status = "aborted" /\ docs'[i].active = FALSE
      BY <2>2, <3>3
    <3> QED BY <2>1, <3>1, <3>2, <3>3 DEF Evolves
  <2>4. \A i \in DOMAIN docs' \ DOMAIN docs : Consistent(docs'[i])
    BY <1>3, DocsStep DEF AInv
  <2> QED BY <1>1, <2>3, <2>4 DEF AInv, Consistent
<1> QED BY <1>1, <1>2, <1>3, OthersKeepDocs DEF AInv

\* Aborting a deployment leaves alone what its devices have completed, whatever
\* requests run beside it (AbortDeviceDeployments in the store selects the active
\* device deployments; a report never says "aborted").
THEOREM OutcomesKept ==
    ASSUME "abort_device" \notin Kinds
    PROVE  Spec => AbortKeepsOutcomes
<1>1. AInv /\ [Next]_vars =>
        [\A i \in DOMAIN docs : docs[i].status \in FinishedStatuses \ {"aborted"}
              => docs'[i].status # "aborted"]_vars
  <2> SUFFICES ASSUME AInv, [Next]_vars,
                      NEW i \in DOMAIN docs, docs[i].status \in FinishedStatuses \ {"aborted"}
               PROVE  docs'[i].status # "aborted"
    OBVIOUS
  <2>1. ~docs[i].active
    BY DEF AInv, Consistent, Active, ActiveStatuses, FinishedStatuses
  <2>2. CASE UNCHANGED docs
    BY <2>2
  <2>3. ASSUME NEW w \in Workers, Step(w)
        PROVE  docs'[i].status # "aborted"
    <3>1. Evolves(docs[i], docs'[i], workers[w])
      BY <2>3, DocsStep DEF AInv
    <3>2. workers[w].pc = "update_status" => workers[w].new # "aborted"
      BY JobFacts DEF KindOK, AInv
    <3> QED BY <2>1, <3>1, <3>2 DEF Evolves
  <2> QED BY <2>2, <2>3, OthersKeepDocs
<1> QED BY InitAInv, NextAInv, <1>1, PTL DEF Spec, AbortKeepsOutcomes
=============================================================================
