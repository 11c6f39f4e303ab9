------------------- MODULE DeviceDeployments_serial -------------------
(***************************************************************************)
(* Theorems about device deployments when requests of all kinds but the    *)
(* reset of a history come one after the other: the aborts of deployments,  *)
(* the aborts of the deployments of one device and decommissioning as well *)
(* as polls and reports.  What such a request inserts is in no counter     *)
(* until the counters of the deployment are replaced or it is finished.    *)
(***************************************************************************)
EXTENDS DeviceDeployments_traffic

---------------------------------------------------------------------------
(* One request at a time.                                                  *)

\* The only request handler, and the request it serves.
Server == CHOOSE w \in Workers : TRUE
Job == workers[Server]

\* Requests come one after the other, of devices that report on what they were given;
\* none is cut short and no history is reset.
Serial ==
    /\ Workers = {Server} /\ Obedient = TRUE /\ MaxFailures = 0
    /\ "delete_history" \notin Kinds

WidePCs ==
    {"find_active", "find_inactive", "find_newer", "find_existing", "insert", "inc_count",
     "update_status"} \union AfterPCs

\* A request at an operation of its kind, for a whole device or not.
Proper(job) == Routine(job) \/ (job.kind \in DeviceWideKinds /\ job.pc \in WidePCs)

\* Where a request acts on a deployment it found unfinished.
WorkPCs ==
    {"find_existing", "insert", "inc_count", "save_request", "instructions",
     "update_status", "find_deployment", "inc_stats", "set_status"}

\* The device deployment an update is about to write.
Target(job, i) ==
    /\ i \in DocsOf(job.dev, job.dep) /\ docs[i].active
    /\ docs[i].request # NoRequest /\ docs[i].status # job.new

\* What a request has made sure of; Sure says more of that of a device.
Prepared(job) ==
    /\ Proper(job)
    /\ Refers(job)
    /\ Searching(job)
    /\ job.pc \in WorkPCs => job.dep \in Deployments /\ ~deployments[job.dep].finished
    /\ job.pc = "update_status" => \E i \in DOMAIN docs : Target(job, i)
    /\ job.pc = "inc_stats" => ~job.was_finished
    /\ job.kind \in DeviceWideKinds /\ job.pc \in AfterPCs => OverUpTo(job.dev, job.dep)
    /\ job.kind \in DeviceWideKinds /\ job.pc \in AfterPCs \union {"update_status"} =>
         job.new \in {"aborted", "decommissioned"}

\* The device deployment a poll has found or inserted, before its request is stored.
Held(i) ==
    /\ Job.kind = "poll" /\ Job.pc \in {"inc_count", "save_request"}
    /\ Job.doc = i

\* A device is active in its latest deployment only, and has asked for it.
ActiveLast(i) ==
    docs[i].active =>
        /\ \A j \in DOMAIN docs : docs[j].dev = docs[i].dev => j <= i
        /\ docs[i].request = NoRequest => Held(i) /\ docs[i].status = "pending"

Store ==
    /\ AllListed /\ DeliveredInOrder
    /\ \A i \in DOMAIN docs : Stored(docs[i].dep) /\ ActiveLast(i)
    /\ Job.kind = "poll" /\ Job.pc \in {"inc_count", "save_request", "instructions"} =>
         docs[Job.doc].active

---------------------------------------------------------------------------
(* The counters.                                                           *)

\* The device deployments the counters are about: their devices have asked for them.
Taken(d) == {i \in InDeployment(d) : docs[i].request # NoRequest}
TakenIn(d, st) == {i \in Taken(d) : docs[i].status = st}

\* What the counters of an unfinished deployment come to.
Tally(d) ==
    [st \in Statuses |->
        Cardinality(TakenIn(d, st))
          + (IF st = "pending" THEN MaxDevices(d) - Cardinality(Taken(d)) ELSE 0)]

\* The counters once the request in flight has moved them.
StatsToBe(d) ==
    IF Job.dep = d /\ Job.pc \in {"find_deployment", "inc_stats"}
    THEN StatsAfter(Job) ELSE deployments[d].stats

Exact(d) == \A st \in Statuses : deployments[d].stats[st] = Cardinality(InStatus(d, st))

\* No device is active in the deployment.
AllOver(d) == \A i \in InDeployment(d) : ~docs[i].active

\* Between the abort of its device deployments and its finish.
Aborting(d) == Job.dep = d /\ Job.pc \in {"aggregate", "update_stats", "finish"}

Ledger(d) ==
    /\ deployments[d].finished => Stored(d) /\ Exact(d) /\ AllOver(d) /\ ~deployments[d].active
    /\ deployments[d].stage # "none" /\ ~deployments[d].finished /\ ~Aborting(d) =>
         StatsToBe(d) = Tally(d)
    /\ Aborting(d) => AllOver(d)
    /\ Job.dep = d /\ Job.pc = "update_stats" =>
         \A st \in Statuses : Job.stats[st] = Cardinality(InStatus(d, st))
    /\ \/ Job.dep = d /\ Job.pc = "finish"
       \/ Job.dep = d /\ Job.pc = "set_status" /\ Job.overall = "finished"
       => Exact(d) /\ AllOver(d)

SerialInv ==
    /\ AInv /\ Honest /\ Alone /\ Prepared(Job) /\ Store
    /\ \A d \in Deployments : Ledger(d)

---------------------------------------------------------------------------
(* What a step makes of a request for a whole device.                       *)

\* After an update it looks for a newer deployment.
LooksOn(job, next) ==
    Keeps(job, next) /\ next.pc = "find_newer" /\ next.after = job.dep

\* What follows an update for a whole device.
LEMMA WideAfterUpdate ==
    ASSUME NEW job \in WorkerType, job.kind \in DeviceWideKinds
    PROVE  LooksOn(job, AfterUpdate(job))
<1> DEFINE params == Params(job)
           next == [params EXCEPT !.pc = "find_newer", !.after = job.dep, !.new = NoStatus]
<1>1. params \in WorkerType /\ Keeps(job, params)
  BY ParamsTyped DEF Keeps
<1>2. AfterUpdate(job) = next
  BY DEF AfterUpdate, DeviceWideKinds
<1> HIDE DEF params
<1>3. Keeps(params, next) /\ next.pc = "find_newer" /\ next.after = job.dep
  BY <1>1 DEF Keeps, WorkerType
<1> QED BY <1>1, <1>2, <1>3 DEF LooksOn, Keeps

\* What follows the counters: such an update ends what was active.
LEMMA WidePastCounters ==
    ASSUME NEW job \in WorkerType, job.new \in {"aborted", "decommissioned"}
    PROVE  /\ Keeps(job, PastCounters(job)) /\ PastCounters(job).pc = "save_last"
           /\ PastCounters(job).new = job.new
<1> DEFINE params == Params(job)
           next == [params EXCEPT !.pc = "save_last"]
<1>1. params \in WorkerType /\ Keeps(job, params) /\ params.new = job.new
  BY ParamsTyped DEF Keeps
<1>2. PastCounters(job) = next
  BY DEF PastCounters, Active, ActiveStatuses
<1> HIDE DEF params
<1>3. next.pc = "save_last" /\ next.new = params.new /\ Keeps(params, next)
  BY <1>1 DEF Keeps, WorkerType
<1> QED BY <1>1, <1>2, <1>3 DEF Keeps

\* It begins with the oldest active device deployment, or looks on.
FindActiveWide(job, next) ==
    \/ OldestActive(job.dev) = {} /\ Keeps(job, next) /\ next.pc = "find_inactive"
    \/ \E i \in OldestActive(job.dev) :
         /\ next.kind = job.kind /\ next.dev = job.dev /\ next.dep = docs[i].dep
         /\ next.pc = "update_status" /\ next.new = WideStatus(job.kind)

\* FindActive moves a request for a whole device as FindActiveWide says.
LEMMA FindActiveWideIs ==
    ASSUME AInv, NEW w \in Workers, workers[w].kind \in DeviceWideKinds, FindActive(w)
    PROVE  \E next : Continue(w, next) /\ FindActiveWide(workers[w], next)
<1> DEFINE job == workers[w]
<1>1. job \in WorkerType /\ job.kind # "poll" /\ IInv
  BY JobFacts DEF AInv, DeviceWideKinds
<1>2. CASE OldestActive(job.dev) = {} /\ Continue(w, [job EXCEPT !.pc = "find_inactive"])
  <2>1. /\ Keeps(job, [job EXCEPT !.pc = "find_inactive"])
        /\ [job EXCEPT !.pc = "find_inactive"].pc = "find_inactive"
    BY <1>1 DEF Keeps, WorkerType
  <2> QED BY <1>2, <2>1 DEF FindActiveWide
<1>3. ASSUME NEW i \in OldestActive(job.dev),
             Continue(w, BeginUpdate(WithDoc(job, i), WideStatus(job.kind)))
      PROVE  \E next : Continue(w, next) /\ FindActiveWide(job, next)
  <2> DEFINE with == WithDoc(job, i)
             params == Params(with)
             st == WideStatus(job.kind)
             next == [params EXCEPT !.pc = "update_status", !.new = st, !.cur = with.cur]
  <2>1. i \in DOMAIN docs /\ docs[i].active /\ docs[i].status \in Statuses
    BY <1>1, DocTyped DEF OldestActive, DeviceDocs, NotDeleted, IInv
  <2>2. docs[i].status \in ActiveStatuses
    BY <2>1 DEF AInv, Consistent, Active
  <2>3. /\ with \in WorkerType /\ with.kind = job.kind /\ with.dev = job.dev
        /\ with.dep = docs[i].dep /\ with.cur = docs[i].status
    <3>1. DeviceJob(job)
      BY <1>1, JobFacts DEF FindActive, At, DevicePCs
    <3>2. DeviceJob(WithDoc(job, i))
      BY <1>1, <2>1, <3>1, WithDocOK DEF IInv
    <3> QED BY <1>1, <3>2 DEF DeviceJob, WithDoc, WorkerType
  <2>4. st \in {"aborted", "decommissioned"}
    BY DEF WideStatus
  <2>5. with.cur \notin {"aborted", "decommissioned"} /\ with.cur # st
    BY <2>2, <2>3, <2>4 DEF ActiveStatuses
  <2> HIDE DEF with, st
  <2>6. params \in WorkerType /\ Keeps(with, params)
    BY <2>3, ParamsTyped DEF Keeps
  <2>7. BeginUpdate(with, st) = next
    BY <2>5 DEF BeginUpdate
  <2> HIDE DEF params
  <2>8. next.pc = "update_status" /\ next.new = st /\ Keeps(params, next)
    BY <2>6 DEF Keeps, WorkerType
  <2>9. next.kind = job.kind /\ next.dev = job.dev /\ next.dep = docs[i].dep
    BY <2>3, <2>6, <2>8 DEF Keeps
  <2> QED BY <1>3, <2>7, <2>8, <2>9 DEF FindActiveWide, with, st
<1> QED BY <1>1, <1>2, <1>3 DEF FindActive

\* It takes the newest deployment it finds, full or not, or ends.
FindNewerWide(job, next) ==
    \/ next = Idle
    \/ \E d \in NewerActive(job.dev, job.after) :
         /\ next.kind = job.kind /\ next.dev = job.dev
         /\ next.pc = "find_existing" /\ next.dep = d

\* FindNewer moves a request for a whole device as FindNewerWide says.
LEMMA FindNewerWideIs ==
    ASSUME IInv, NEW w \in Workers, workers[w].kind \in DeviceWideKinds, FindNewer(w)
    PROVE  \E next : Continue(w, next) /\ FindNewerWide(workers[w], next)
<1> DEFINE job == workers[w]
<1>1. job \in WorkerType /\ job.kind # "poll" /\ job.kind \notin DeviceKinds
  BY JobFacts DEF DeviceWideKinds, DeviceKinds
<1>2. CASE Continue(w, Ended(job, "none"))
  BY <1>1, <1>2 DEF Ended, FindNewerWide
<1>3. ASSUME NEW d \in NewerActive(job.dev, job.after),
             Continue(w, [job EXCEPT !.pc = "find_existing", !.dep = d])
      PROVE  \E next : Continue(w, next) /\ FindNewerWide(job, next)
  <2> DEFINE next == [job EXCEPT !.pc = "find_existing", !.dep = d]
  <2>1. /\ next.kind = job.kind /\ next.dev = job.dev
        /\ next.pc = "find_existing" /\ next.dep = d
    BY <1>1 DEF WorkerType
  <2> QED BY <1>3, <2>1 DEF FindNewerWide
<1> QED BY <1>1, <1>2, <1>3 DEF FindNewer

\* The document it inserts.
WideDoc(job) ==
    [dev |-> job.dev, dep |-> job.dep, status |-> WideStatus(job.kind), active |-> FALSE,
     deleted |-> FALSE, request |-> NoRequest, image |-> FALSE]

\* InsertDeviceDeployment inserts it; the request counts the device or ends.
LEMMA InsertWideIs ==
    ASSUME IInv, NEW w \in Workers, workers[w].kind \in DeviceWideKinds,
           InsertDeviceDeployment(w)
    PROVE  /\ docs' = Append(docs, WideDoc(workers[w]))
           /\ \E next : /\ Continue(w, next)
                        /\ next = Idle \/ (Keeps(workers[w], next) /\ next.pc = "inc_count")
<1> DEFINE job == workers[w]
           st == WideStatus(job.kind)
           next == [job EXCEPT !.doc = Len(docs) + 1, !.cur = st,
                               !.cur_req = NoRequest, !.image = FALSE]
<1>1. job \in WorkerType /\ job.kind # "poll"
  BY JobFacts DEF DeviceWideKinds
<1>2. Active(st) = FALSE
  BY DEF WideStatus, Active, ActiveStatuses
<1>3. docs' = Append(docs, WideDoc(job))
  BY <1>1, <1>2 DEF InsertDeviceDeployment, WideDoc
<1>4. Continue(w, IF job.first THEN [next EXCEPT !.pc = "inc_count"] ELSE Created(next))
  BY <1>1 DEF InsertDeviceDeployment
<1>5. Keeps(job, next) /\ next.kind # "poll"
  BY <1>1 DEF Keeps, WorkerType
<1>6. Keeps(job, [next EXCEPT !.pc = "inc_count"]) /\ [next EXCEPT !.pc = "inc_count"].pc = "inc_count"
  BY <1>1 DEF Keeps, WorkerType
<1>7. Created(next) = Idle
  BY <1>5 DEF Created
<1> QED BY <1>3, <1>4, <1>6, <1>7

\* Counting the device is the last step.
LEMMA CountWideIs ==
    ASSUME IInv, NEW w \in Workers, workers[w].kind \in DeviceWideKinds,
           IncrementDeviceCount(w)
    PROVE  Continue(w, Idle)
BY DEF IncrementDeviceCount, Created, DeviceWideKinds

---------------------------------------------------------------------------
(* What a step makes of an update, of whichever kind of request.             *)

\* The status of its target is written, and the counters come next.
LEMMA TargetWritten ==
    ASSUME IInv, AllListed, DeliveredInOrder, NEW w \in Workers, UpdateStatus(w),
           NEW i, Target(workers[w], i)
    PROVE  /\ docs' = [docs EXCEPT ![i].status = workers[w].new,
                                   ![i].active = Active(workers[w].new)]
           /\ \E next : /\ Continue(w, next) /\ Keeps(workers[w], next)
                        /\ next.new = workers[w].new /\ next.old = docs[i].status
                        /\ next.pc = "find_deployment"
<1> DEFINE job == workers[w]
           found == NotDeleted(DocsOf(job.dev, job.dep))
           params == Params(job)
           next == [params EXCEPT !.pc = "find_deployment", !.old = docs[i].status]
<1>1. job \in WorkerType
  BY JobFacts
<1>2. i \in DocsOf(job.dev, job.dep) /\ docs[i].status # job.new
  BY DEF Target
<1>3. i \in found
  BY <1>2 DEF NotDeleted, AllListed, DocsOf
<1>4. \A j \in found : j = i
  BY <1>2, OneDoc DEF NotDeleted
<1>5. /\ docs' = [docs EXCEPT ![i].status = job.new, ![i].active = Active(job.new)]
      /\ Continue(w, next)
  BY <1>2, <1>3, <1>4 DEF UpdateStatus
<1>6. params \in WorkerType /\ Keeps(job, params) /\ params.new = job.new
  BY <1>1, ParamsTyped DEF Keeps
<1> HIDE DEF params
<1>7. /\ Keeps(params, next) /\ next.new = params.new /\ next.old = docs[i].status
      /\ next.pc = "find_deployment"
  BY <1>6 DEF Keeps, WorkerType
<1>8. Keeps(job, next) /\ next.new = job.new
  BY <1>6, <1>7 DEF Keeps
<1> HIDE DEF next
<1> QED BY <1>5, <1>7, <1>8

\* An update for a whole device sets the status of the deployment if that is another one.
IncWide(job, next) ==
    /\ Keeps(job, next) /\ next.new = job.new
    /\ \/ OverallAfter(job) = job.overall /\ next.pc = "save_last"
       \/ /\ OverallAfter(job) # job.overall /\ next.overall = OverallAfter(job)
          /\ next.pc = "set_status"

\* UpdateStatsInc moves it as IncWide says.
LEMMA IncWideIs ==
    ASSUME IInv, NEW w \in Workers, workers[w].new \in {"aborted", "decommissioned"},
           UpdateStatsInc(w)
    PROVE  /\ \E next : Continue(w, next) /\ IncWide(workers[w], next)
           /\ deployments' = [deployments EXCEPT ![workers[w].dep].stats = StatsAfter(workers[w])]
<1> DEFINE job == workers[w]
           params == Params(job)
           next == [params EXCEPT !.pc = "set_status", !.overall = OverallAfter(job)]
<1>1. job \in WorkerType
  BY JobFacts
<1>2. /\ deployments' = [deployments EXCEPT ![job.dep].stats = StatsAfter(job)]
      /\ Continue(w, IF OverallAfter(job) = job.overall THEN PastCounters(job) ELSE next)
  BY DEF UpdateStatsInc, StatsAfter, OverallAfter
<1>3. CASE OverallAfter(job) = job.overall
  BY <1>1, <1>2, <1>3, WidePastCounters DEF IncWide
<1>4. CASE OverallAfter(job) # job.overall
  <2>1. params \in WorkerType /\ Keeps(job, params) /\ params.new = job.new
    BY <1>1, ParamsTyped DEF Keeps
  <2> HIDE DEF params
  <2>2. /\ Keeps(params, next) /\ next.new = params.new /\ next.pc = "set_status"
        /\ next.overall = OverallAfter(job)
    BY <2>1 DEF Keeps, WorkerType
  <2>3. Keeps(job, next) /\ next.new = job.new
    BY <2>1, <2>2 DEF Keeps
  <2> HIDE DEF next
  <2> QED BY <1>2, <1>4, <2>2, <2>3 DEF IncWide
<1> QED BY <1>2, <1>3, <1>4

---------------------------------------------------------------------------
(* One request at a time: what a step leaves as it is.                      *)

\* The request after a step.
LEMMA JobAfter ==
    ASSUME Serial, IInv
    PROVE  /\ Server \in Workers /\ \A w \in Workers : w = Server
           /\ \A next : Continue(Server, next) =>
                Job' = next /\ \A w \in Workers : workers'[w] = next
<1>1. Server \in Workers /\ \A w \in Workers : w = Server
  BY DEF Serial
<1>2. \A next : Continue(Server, next) => workers'[Server] = next
  BY <1>1, OthersStay
<1> QED BY <1>1, <1>2 DEF Job

\* What the invariant says in terms of the lemmas on requests in traffic.
LEMMA SerialFacts ==
    ASSUME Serial, SerialInv
    PROVE  /\ IInv /\ Orderly /\ Alone
           /\ Server \in Workers /\ Job = workers[Server] /\ Job \in WorkerType /\ JobOK(Job)
           /\ Job.kind \in DeviceKinds => Ready
<1>1. IInv /\ Alone
  BY DEF SerialInv, AInv
<1>2. Server \in Workers /\ \A w \in Workers : w = Server
  BY <1>1, JobAfter
<1>3. Job = workers[Server] /\ Job \in WorkerType /\ JobOK(Job)
  BY <1>1, <1>2, JobFacts DEF Job
<1>4. Orderly
  BY <1>2, <1>3 DEF SerialInv, Store, Prepared, Orderly
<1>5. ASSUME Job.kind \in DeviceKinds PROVE Ready
  <2>1. IsFiniteSet(Busy)
    <3>1. Busy \subseteq {Server}
      BY <1>2 DEF Busy
    <3> QED BY <3>1, FS_Singleton, FS_Subset
  <2>2. Routine(Job) /\ Refers(Job) /\ Job.kind # "abort"
    BY <1>5 DEF SerialInv, Prepared, Proper, DeviceKinds, DeviceWideKinds
  <2>3. \A w \in Workers : Routine(workers[w]) /\ Refers(workers[w]) /\ workers[w].kind # "abort"
    BY <1>2, <1>3, <2>2
  <2> QED BY <2>1, <2>3 DEF Ready, SerialInv, Store
<1> QED BY <1>1, <1>2, <1>3, <1>4, <1>5

\* Device deployments stay where they are, and none becomes active.
Steady ==
    /\ DOMAIN docs' = DOMAIN docs
    /\ \A i \in DOMAIN docs :
         /\ docs'[i].dev = docs[i].dev /\ docs'[i].dep = docs[i].dep
         /\ docs'[i].deleted = docs[i].deleted
         /\ docs'[i].active => docs[i].active

\* A request that holds a device deployment its device has not asked for goes on with it.
KeepsHold(next) ==
    \A i \in DOMAIN docs : docs'[i].active /\ docs'[i].request = NoRequest =>
        /\ docs[i].request = NoRequest /\ docs'[i].status = docs[i].status
        /\ next.kind = "poll" /\ next.pc \in {"inc_count", "save_request"} /\ next.doc = i

HoldsActive(next) ==
    next.kind = "poll" /\ next.pc \in {"inc_count", "save_request", "instructions"} =>
        docs'[next.doc].active

\* The store after a step that inserts nothing.
LEMMA StoreStays ==
    ASSUME Serial, SerialInv, [Next]_vars, NEW next, Continue(Server, next),
           Steady, KeepsHold(next), HoldsActive(next)
    PROVE  Store'
<1>1. IInv /\ Store /\ Job' = next
  BY JobAfter DEF SerialInv, AInv
<1>2. \A i \in DOMAIN docs : docs[i].dep \in Deployments /\ Stored(docs[i].dep)
  BY <1>1, DocTyped DEF IInv, Store
<1>3. \A d \in Deployments : Stored(d) =>
         deployments'[d].stage = "stored" /\ deployments'[d].list = deployments[d].list
  BY <1>1, StoredStays DEF Stored
<1>4. AllListed'
  <2> SUFFICES ASSUME NEW i \in DOMAIN docs
               PROVE  ~docs'[i].deleted /\ docs'[i].dev \in Listed(docs[i].dep)'
    BY DEF AllListed, Steady
  <2>1. Listed(docs[i].dep)' = {deployments'[docs'[i].dep].list[k] :
                                  k \in DOMAIN deployments'[docs'[i].dep].list}
    BY DEF Listed, Steady
  <2> QED BY <1>1, <1>2, <1>3 DEF Store, AllListed, Steady, Listed
<1>5. DeliveredInOrder'
  BY <1>1 DEF Store, DeliveredInOrder, Steady
<1>6. \A i \in DOMAIN docs' : deployments'[docs'[i].dep].stage = "stored"
  BY <1>2, <1>3 DEF Steady
<1>7. \A i \in DOMAIN docs' : ActiveLast(i)'
  BY <1>1 DEF Store, ActiveLast, Steady, KeepsHold, Held
<1> QED BY <1>1, <1>4, <1>5, <1>6, <1>7 DEF Store, Stored, HoldsActive

\* Which parts of a deployment which steps write; no step of a request writes another one.
LEMMA DeploymentKept ==
    ASSUME IInv, NEW w \in Workers, Step(w), NEW d \in Deployments
    PROVE  /\ deployments'[d].stage = deployments[d].stage
           /\ deployments'[d].list = deployments[d].list
           /\ \/ deployments'[d].finished = deployments[d].finished
                   /\ deployments'[d].active = deployments[d].active
              \/ SetStatus(w) \/ Finish(w)
           /\ \/ deployments'[d].stats = deployments[d].stats
              \/ UpdateStatsInc(w) \/ UpdateStats(w)
           /\ d # workers[w].dep => deployments'[d] = deployments[d]
<1>1. deployments \in [Deployments -> DeploymentType]
  BY DEF IInv, TypeOK
<1>2. CASE UNCHANGED deployments
  BY <1>2
<1>3. CASE IncrementDeviceCount(w)
  BY <1>1, <1>3 DEF IncrementDeviceCount, DeploymentType
<1>4. CASE IncrementTotalSize(w)
  BY <1>1, <1>4 DEF IncrementTotalSize, DeploymentType
<1>5. CASE UpdateStatsInc(w) \/ UpdateStats(w)
  <2>1. PICK stats : deployments' = [deployments EXCEPT ![workers[w].dep].stats = stats]
    BY <1>5 DEF UpdateStatsInc, UpdateStats
  <2> QED BY <1>1, <1>5, <2>1 DEF DeploymentType
<1>6. CASE SetStatus(w) \/ Finish(w)
  <2>1. PICK status : deployments' = WithStatus(workers[w].dep, status)
    BY <1>6 DEF SetStatus, Finish
  <2> QED BY <1>1, <1>6, <2>1 DEF WithStatus, DeploymentType
<1>7. \/ UNCHANGED deployments
      \/ IncrementDeviceCount(w) \/ IncrementTotalSize(w) \/ UpdateStatsInc(w)
      \/ UpdateStats(w) \/ SetStatus(w) \/ Finish(w)
  BY DEF Step, Respond, FindActive, FindInactive, FindNewer, FindExisting,
     InsertDeviceDeployment, SaveRequest, Instructions, GetDeviceDeployment, UpdateStatus,
     FindDeployment, SaveLastStatus, CheckFinished, AbortDocs, Aggregate, GetHistory,
     MarkDeleted, DeleteLast, ReadOnly
<1> QED BY <1>2, <1>3, <1>4, <1>5, <1>6, <1>7

\* The step a request for a whole device takes is that of its operation.
LEMMA WideStep ==
    ASSUME IInv, NEW w \in Workers, Step(w),
           workers[w].kind \in DeviceWideKinds, workers[w].pc \in WidePCs
    PROVE  /\ \/ FindActive(w) \/ FindInactive(w) \/ FindNewer(w) \/ FindExisting(w)
              \/ InsertDeviceDeployment(w) \/ IncrementDeviceCount(w)
              \/ UpdateStatus(w) \/ FindDeployment(w) \/ UpdateStatsInc(w)
              \/ SetStatus(w) \/ SaveLastStatus(w)
           /\ UNCHANGED devices
<1>1. ~(Respond(w) \/ SaveRequest(w) \/ Instructions(w) \/ IncrementTotalSize(w)
        \/ GetDeviceDeployment(w))
  BY DEF WidePCs, AfterPCs, Respond, SaveRequest, Instructions, IncrementTotalSize,
     GetDeviceDeployment, At
<1>2. ~(CheckFinished(w) \/ AbortDocs(w) \/ Aggregate(w) \/ UpdateStats(w) \/ Finish(w))
  BY DEF WidePCs, AfterPCs, CheckFinished, AbortDocs, Aggregate, UpdateStats, Finish, At
<1>3. ~(GetHistory(w) \/ MarkDeleted(w) \/ DeleteLast(w))
  BY DEF WidePCs, AfterPCs, GetHistory, MarkDeleted, DeleteLast, At
<1>4. \/ FindActive(w) \/ FindInactive(w) \/ FindNewer(w) \/ FindExisting(w)
      \/ InsertDeviceDeployment(w) \/ IncrementDeviceCount(w)
      \/ UpdateStatus(w) \/ FindDeployment(w) \/ UpdateStatsInc(w)
      \/ SetStatus(w) \/ SaveLastStatus(w)
  BY <1>1, <1>2, <1>3 DEF Step
<1>5. UNCHANGED devices
  BY <1>4 DEF FindActive, FindInactive, FindNewer, FindExisting,
     InsertDeviceDeployment, IncrementDeviceCount, UpdateStatus, FindDeployment,
     UpdateStatsInc, SetStatus, SaveLastStatus, ReadOnly, Unchanged
<1> QED BY <1>4, <1>5

\* A newer deployment the search finds is open to its device.
LEMMA NewerIs ==
    ASSUME NEW dev, NEW after, NEW d \in NewerActive(dev, after)
    PROVE  /\ d \in Deployments /\ Stored(d) /\ deployments[d].active
           /\ d > after /\ dev \in Listed(d)
BY DEF NewerActive

---------------------------------------------------------------------------
(* One request at a time: what it has made sure of at its next operation.   *)

\* A step leaves one request.
LEMMA OneNext ==
    ASSUME IInv, NEW w \in Workers, NEW next, Continue(w, next), NEW other, Continue(w, other)
    PROVE  next = other
BY OthersStay

\* Where a device is active the deployment is not finished.
LEMMA ActiveOpen ==
    ASSUME SerialInv, NEW i \in DOMAIN docs, docs[i].active
    PROVE  /\ docs[i].dep \in Deployments /\ ~deployments[docs[i].dep].finished
           /\ docs[i].status \in ActiveStatuses
<1>1. docs[i].dep \in Deployments
  BY DocTyped DEF SerialInv, AInv, IInv
<1>2. Ledger(docs[i].dep)
  BY <1>1 DEF SerialInv
<1>3. ~deployments[docs[i].dep].finished
  BY <1>2 DEF Ledger, AllOver, InDeployment
<1> QED BY <1>1, <1>3 DEF SerialInv, AInv, Consistent, Active

\* Nor is one a device can be given.
LEMMA NewerOpen ==
    ASSUME SerialInv, NEW dev, NEW after, NEW d \in NewerActive(dev, after)
    PROVE  d \in Deployments /\ ~deployments[d].finished
BY NewerIs DEF SerialInv, Ledger

\* The part of Prepared that is about deployments and updates.
Worked(job) ==
    /\ job.pc \in WorkPCs => job.dep \in Deployments /\ ~deployments[job.dep].finished
    /\ job.pc = "update_status" => \E i \in DOMAIN docs : Target(job, i)
    /\ job.pc = "inc_stats" => ~job.was_finished

\* Answers and ends ask for nothing.
LEMMA EndWorked ==
    ASSUME NEW next, next.pc \in {"idle", "respond", "save_last", "find_inactive", "find_newer",
                                  "inc_size"}
    PROVE  Worked(next)
BY DEF Worked, WorkPCs

\* So do updates past the counters.
LEMMA PassedWorked ==
    ASSUME NEW job, NEW next, Passed(job, next) \/ Over(job, next)
    PROVE  Worked(next)
<1>1. next.pc \in {"respond", "save_last"}
  BY DEF Passed, Over, Answered
<1> QED BY <1>1, EndWorked

\* A request that stays on a deployment it found unfinished.
LEMMA KeepsWorked ==
    ASSUME NEW job, Worked(job), job.pc \in WorkPCs, NEW next, Keeps(job, next),
           next.pc \notin {"update_status", "inc_stats"}
    PROVE  Worked(next)
BY DEF Worked, Keeps

\* An update that begins has its target.
LEMMA BegunWorked ==
    ASSUME SerialInv, NEW job, NEW st, NEW next, Begun(job, st, next),
           NEW i \in DocsOf(job.dev, job.dep), docs[i].status = job.cur,
           job.cur \in OpenStatuses, docs[i].request # NoRequest
    PROVE  Worked(next)
<1>1. CASE next.pc = "respond"
  BY <1>1, EndWorked
<1>2. CASE next.pc # "respond"
  <2>1. /\ job.cur # st /\ job.cur \notin {"aborted", "decommissioned"}
        /\ Keeps(job, next) /\ next.pc = "update_status" /\ next.new = st
    BY <1>2 DEF Begun, Answered
  <2>2. i \in DOMAIN docs /\ docs[i].dep = job.dep
    BY DEF DocsOf
  <2>3. docs[i].active
    BY <2>1, <2>2 DEF SerialInv, AInv, Consistent, OpenStatuses, Active
  <2>4. Target(next, i)
    BY <2>1, <2>3 DEF Target, Keeps
  <2>5. job.dep \in Deployments /\ ~deployments[job.dep].finished
    BY <2>2, <2>3, ActiveOpen
  <2> QED BY <2>1, <2>2, <2>4, <2>5 DEF Worked, Keeps
<1> QED BY <1>1, <1>2

\* The device deployment a poll holds, as it holds it.
LEMMA HeldIs ==
    ASSUME Serial, SerialInv, Job.kind = "poll",
           Job.pc \in {"inc_count", "save_request", "instructions"}
    PROVE  /\ Job.doc \in DocsOf(Job.dev, Job.dep) /\ docs[Job.doc].active
           /\ docs[Job.doc].status = Job.cur /\ Job.cur \in ActiveStatuses
           /\ docs[Job.doc].request = (IF Job.pc = "instructions" THEN Job.req ELSE Job.cur_req)
           /\ docs[Job.doc].image = Job.image
           /\ Job.req # NoRequest
<1>1. Sure(Job)
  BY SerialFacts DEF SerialInv, Honest, DeviceKinds
<1>2. docs[Job.doc].active
  BY DEF SerialInv, Store
<1>3. Fresh(Job, Job.doc) /\ Job.req \in Requests
  BY <1>1 DEF Sure, ReadPCs
<1>4. docs[Job.doc].status \in ActiveStatuses
  BY <1>2, <1>3, ActiveOpen DEF Fresh, DocsOf
<1>5. docs[Job.doc].status # "aborted"
  BY <1>4 DEF ActiveStatuses
<1> QED BY <1>1, <1>2, <1>3, <1>5, RequestsAssumption DEF Sure, Fresh

\* Where the update of what a device reports begins.
LEMMA ReportedIs ==
    ASSUME Serial, SerialInv, Job.kind = "report", Job.pc = "get_dd",
           NEW i \in DocsOf(Job.dev, Job.dep)
    PROVE  docs[i].status \in OpenStatuses /\ docs[i].request # NoRequest
<1>1. Sure(Job) /\ \A dev \in Devices : Carrying(dev)
  BY SerialFacts DEF SerialInv, Honest, DeviceKinds
<1>2. Job.dev \in Devices /\ devices[Job.dev].dep = Job.dep
  BY <1>1 DEF Sure
<1>3. Job.dep # 0
  <2>1. docs[i].dep \in Deployments /\ docs[i].dep = Job.dep
    BY DocTyped DEF SerialInv, AInv, IInv, DocsOf
  <2> QED BY <2>1 DEF Deployments
<1>4. PICK k \in DocsOf(Job.dev, Job.dep) :
        Given(k) /\ (docs[k].status \in OpenStatuses \/ Closing(Job.dev, Job.dep))
  BY <1>1, <1>2, <1>3 DEF Carrying
<1>5. ~Closing(Job.dev, Job.dep)
  <2>1. \A w \in Workers : workers[w] = Job
    BY SerialFacts, JobAfter
  <2>2. ~Closes(Job, Job.dep)
    BY DEF Closes, AfterPCs
  <2> QED BY <2>1, <2>2 DEF Closing
<1>6. k = i
  BY OneDoc DEF SerialInv, AInv, Store
<1> QED BY <1>4, <1>5, <1>6 DEF Given

\* What a step of a device's request has made sure of, but for the write of a status.
LEMMA DeviceWorked ==
    ASSUME Serial, SerialInv, Job.kind \in DeviceKinds, Step(Server),
           ~InsertDeviceDeployment(Server), ~UpdateStatus(Server),
           NEW next, Continue(Server, next)
    PROVE  Worked(next)
<1>0. /\ IInv /\ Server \in Workers /\ Job = workers[Server] /\ Job \in WorkerType
      /\ Routine(Job) /\ Worked(Job)
  BY SerialFacts DEF Ready, SerialInv, Prepared, Worked
<1>a. \A other : Continue(Server, other) => next = other
  BY <1>0, OneNext
<1>1. CASE Respond(Server)
  <2>1. next.pc = "idle"
    BY <1>1, <1>a DEF Respond, Idle
  <2> QED BY <2>1, EndWorked
<1>2. CASE Job.kind = "poll" /\ FindActive(Server)
  <2>1. FindActiveWay(Job, next)
    BY <1>0, <1>2, <1>a, FindActiveIs
  <2>2. CASE next.pc = "find_inactive"
    BY <2>2, EndWorked
  <2>3. ASSUME NEW i \in OldestActive(Job.dev), next.pc = "save_request", next.dep = docs[i].dep
        PROVE  Worked(next)
    <3>1. i \in DOMAIN docs /\ docs[i].active
      BY DEF OldestActive, DeviceDocs, NotDeleted
    <3> QED BY <2>3, <3>1, ActiveOpen DEF Worked
  <2> QED BY <2>1, <2>2, <2>3 DEF FindActiveWay
<1>3. CASE Job.kind = "poll" /\ FindInactive(Server)
  BY <1>0, <1>3, <1>a, FindInactiveIs, EndWorked DEF FindInactiveWay
<1>4. CASE Job.kind = "poll" /\ FindNewer(Server)
  <2>1. FindNewerWay(Job, next)
    BY <1>0, <1>4, <1>a, FindNewerIs
  <2>2. CASE next.pc \in {"respond", "find_newer"}
    BY <2>2, EndWorked
  <2>3. ASSUME NEW d \in NewerActive(Job.dev, Job.after), next.pc = "find_existing", next.dep = d
        PROVE  Worked(next)
    BY <2>3, NewerOpen DEF Worked
  <2> QED BY <2>1, <2>2, <2>3 DEF FindNewerWay, Answered
<1>5. CASE Job.kind = "poll" /\ FindExisting(Server)
  <2>1. FindExistingWay(Job, next) /\ Job.pc = "find_existing"
    BY <1>0, <1>5, <1>a, FindExistingIs DEF FindExisting, At
  <2> QED BY <1>0, <2>1, KeepsWorked DEF FindExistingWay, WorkPCs
<1>6. CASE Job.kind = "poll" /\ IncrementDeviceCount(Server)
  BY <1>0, <1>6, <1>a, CountIs, KeepsWorked DEF IncrementDeviceCount, At, WorkPCs
<1>7. CASE Job.kind = "poll" /\ SaveRequest(Server)
  <2>1. SaveRequestWay(Job, next)
    BY <1>0, <1>7, <1>a, SaveRequestIs
  <2>2. Job.pc = "save_request"
    BY <1>0, <1>7 DEF SaveRequest, At
  <2>3. CASE Keeps(Job, next) /\ next.pc = "instructions"
    BY <1>0, <2>2, <2>3, KeepsWorked DEF WorkPCs
  <2>4. CASE Job.cur_req # NoRequest /\ Begun(Job, "failure", next)
    <3>1. /\ Job.doc \in DocsOf(Job.dev, Job.dep) /\ docs[Job.doc].status = Job.cur
          /\ Job.cur \in ActiveStatuses /\ docs[Job.doc].request # NoRequest
      BY <1>7, <2>2, <2>4, HeldIs
    <3> QED BY <2>4, <3>1, BegunWorked DEF OpenStatuses
  <2> QED BY <2>1, <2>3, <2>4 DEF SaveRequestWay
<1>8. CASE Job.kind = "poll" /\ Instructions(Server)
  <2>1. InstructionsWay(Job, next) \/ InstructedBy(Job, TRUE, next)
    BY <1>0, <1>8, <1>a, InstructionsIs DEF Assigning
  <2>2. Job.pc = "instructions"
    BY <1>0, <1>8 DEF Instructions, At
  <2>3. CASE next.pc \in {"respond", "inc_size"}
    BY <2>3, EndWorked
  <2>4. ASSUME NEW st, Begun(Job, st, next) PROVE Worked(next)
    <3>1. /\ Job.doc \in DocsOf(Job.dev, Job.dep) /\ docs[Job.doc].status = Job.cur
          /\ Job.cur \in ActiveStatuses /\ docs[Job.doc].request # NoRequest
      BY <1>8, <2>2, HeldIs
    <3> QED BY <2>4, <3>1, BegunWorked DEF OpenStatuses
  <2> QED BY <2>1, <2>3, <2>4 DEF InstructionsWay, InstructedBy, Answered
<1>9. CASE Job.kind = "poll" /\ IncrementTotalSize(Server)
  BY <1>0, <1>9, <1>a, TotalSizeIs, EndWorked DEF Answered
<1>10. CASE Job.kind = "report" /\ GetDeviceDeployment(Server)
  <2>1. GetWay(Job, next)
    BY <1>0, <1>10, <1>a, GetIs
  <2>2. Job.pc = "get_dd"
    BY <1>0, <1>10 DEF GetDeviceDeployment, At
  <2>3. CASE next.pc = "respond"
    BY <2>3, EndWorked
  <2>4. ASSUME NEW i \in NotDeleted(DocsOf(Job.dev, Job.dep)), NEW with \in WorkerType,
               Keeps(Job, with), with.cur = docs[i].status, Begun(with, Job.new, next)
        PROVE  Worked(next)
    <3>1. i \in DocsOf(Job.dev, Job.dep)
      BY DEF NotDeleted
    <3>2. docs[i].status \in OpenStatuses /\ docs[i].request # NoRequest
      BY <1>10, <2>2, <3>1, ReportedIs
    <3>3. i \in DocsOf(with.dev, with.dep)
      BY <2>4, <3>1 DEF Keeps
    <3> QED BY <2>4, <3>2, <3>3, BegunWorked
  <2> QED BY <2>1, <2>3, <2>4 DEF GetWay, Answered
<1>11. CASE FindDeployment(Server)
  <2>1. FindDeploymentWay(Job, next) /\ Job.pc = "find_deployment"
    BY <1>0, <1>11, <1>a, FindDeploymentIs DEF FindDeployment, At
  <2> QED BY <1>0, <2>1 DEF FindDeploymentWay, Worked, Keeps, WorkPCs
<1>12. CASE UpdateStatsInc(Server)
  <2>1. IncWay(Job, next) /\ Job.pc = "inc_stats"
    BY <1>0, <1>12, <1>a, IncIs DEF UpdateStatsInc, At
  <2> QED BY <1>0, <2>1, PassedWorked, KeepsWorked DEF IncWay, WorkPCs
<1>13. CASE SetStatus(Server) \/ SaveLastStatus(Server)
  BY <1>0, <1>13, <1>a, SetStatusIs, SaveLastIs, PassedWorked
<1> QED BY <1>0, <1>1, <1>2, <1>3, <1>4, <1>5, <1>6, <1>7, <1>8, <1>9, <1>10, <1>11, <1>12, <1>13,
           DeviceStep

\* So has the write of a status, of whichever kind of request.
LEMMA UpdateWorked ==
    ASSUME Serial, SerialInv, UpdateStatus(Server), NEW next, Continue(Server, next)
    PROVE  /\ Worked(next) /\ Keeps(Job, next) /\ next.pc = "find_deployment"
           /\ next.new = Job.new
           /\ \E i \in DOMAIN docs :
                /\ Target(Job, i) /\ next.old = docs[i].status
                /\ docs' = [docs EXCEPT ![i].status = Job.new, ![i].active = Active(Job.new)]
<1>1. /\ IInv /\ Server \in Workers /\ Job = workers[Server] /\ Worked(Job)
      /\ AllListed /\ DeliveredInOrder
  BY SerialFacts DEF SerialInv, Prepared, Worked, Store
<1>2. Job.pc = "update_status"
  BY <1>1 DEF UpdateStatus, At
<1>3. PICK i \in DOMAIN docs : Target(Job, i)
  BY <1>1, <1>2 DEF Worked
<1>4. \A other : Continue(Server, other) => next = other
  BY <1>1, OneNext
<1>5. /\ docs' = [docs EXCEPT ![i].status = Job.new, ![i].active = Active(Job.new)]
      /\ Keeps(Job, next) /\ next.new = Job.new /\ next.old = docs[i].status
      /\ next.pc = "find_deployment"
  BY <1>1, <1>3, <1>4, TargetWritten
<1>6. Worked(next)
  BY <1>1, <1>2, <1>5, KeepsWorked DEF WorkPCs
<1> QED BY <1>3, <1>5, <1>6

\* A request of a device is prepared for its next operation.
LEMMA DeviceAhead ==
    ASSUME Serial, SerialInv, Job.kind \in DeviceKinds, Step(Server),
           NEW next, Continue(Server, next)
    PROVE  Prepared(next) /\ (next = Idle \/ (next.kind = Job.kind /\ next.dev = Job.dev))
<1>0. /\ IInv /\ Server \in Workers /\ Job = workers[Server] /\ Job \in WorkerType
      /\ Ready /\ Worked(Job) /\ Prepared(Job) /\ AllListed
  BY SerialFacts DEF SerialInv, Prepared, Worked, Store
<1>a. \A other : Continue(Server, other) => next = other
  BY <1>0, OneNext
<1>1. /\ Routine(next) /\ Came(Server, next.pc)
      /\ \/ next = Idle
         \/ /\ next.kind = Job.kind /\ next.dev = Job.dev
            /\ next.dep = Job.dep \/ Stored(next.dep)
  BY <1>0, <1>a, DeviceGoesOn
<1>2. Refers(next)
  <2>1. CASE next = Idle
    BY <2>1 DEF Refers, Idle, Deployments
  <2>2. CASE next.dep = Job.dep
    BY <1>0, <2>2 DEF Refers, Prepared
  <2>3. CASE Stored(next.dep)
    BY <2>3 DEF Refers
  <2> QED BY <1>1, <2>1, <2>2, <2>3
<1>3. Searching(next)
  <2>1. CASE Job.kind = "poll"
    <3>1. next.kind = "poll" => Searching(next)
      BY <1>0, <1>a, <2>1, PollSearches DEF Prepared
    <3>2. next = Idle => Searching(next)
      BY DEF Searching, Idle
    <3> QED BY <1>1, <2>1, <3>1, <3>2
  <2>2. CASE Job.kind = "report"
    <3>1. next.pc \notin {"find_inactive", "find_newer", "find_existing", "insert"}
      BY <1>1, <2>2 DEF Routine, ReportPCs, AfterPCs, Idle
    <3> QED BY <3>1 DEF Searching
  <2> QED BY <2>1, <2>2 DEF DeviceKinds
<1>4. Worked(next)
  <2>1. CASE UpdateStatus(Server)
    BY <2>1, UpdateWorked
  <2>2. CASE InsertDeviceDeployment(Server)
    <3>1. Job.pc = "insert"
      BY <1>0, <2>2 DEF InsertDeviceDeployment, At
    <3>2. Job.kind = "poll"
      BY <1>0, <3>1 DEF Ready, Routine, ReportPCs, AfterPCs, DeviceKinds
    <3>3. InsertWay(Job, next)
      BY <1>0, <1>a, <2>2, <3>2, InsertIs
    <3> QED BY <1>0, <3>1, <3>3, KeepsWorked DEF InsertWay, WorkPCs
  <2>3. CASE ~UpdateStatus(Server) /\ ~InsertDeviceDeployment(Server)
    BY <2>3, DeviceWorked
  <2> QED BY <2>1, <2>2, <2>3
<1>5. next.kind \notin DeviceWideKinds
  BY <1>1 DEF Idle, DeviceKinds, DeviceWideKinds
<1> QED BY <1>1, <1>2, <1>3, <1>4, <1>5 DEF Prepared, Proper, Worked

\* So is one for a whole device, but for what the write of a status ends.
LEMMA WideAhead ==
    ASSUME Serial, SerialInv, Job.kind \in DeviceWideKinds, Step(Server),
           NEW next, Continue(Server, next)
    PROVE  /\ Proper(next) /\ Refers(next) /\ Searching(next) /\ Worked(next)
           /\ next = Idle \/ (next.kind = Job.kind /\ next.dev = Job.dev)
           /\ next.pc \in AfterPCs \union {"update_status"} =>
                next.new \in {"aborted", "decommissioned"}
           /\ next.pc \in AfterPCs \ {"find_deployment"} => OverUpTo(next.dev, next.dep)
           /\ next.pc = "find_deployment" => UpdateStatus(Server)
<1>0. /\ AInv /\ IInv /\ Server \in Workers /\ Job = workers[Server] /\ Job \in WorkerType
      /\ Worked(Job) /\ Prepared(Job) /\ AllListed
  BY SerialFacts DEF SerialInv, Prepared, Worked, Store
<1>a. \A other : Continue(Server, other) => next = other
  BY <1>0, OneNext
<1>b. Job.pc \in WidePCs /\ Job.kind \notin DeviceKinds
  <2>1. Job.kind \notin {"none", "poll", "report", "abort"}
    BY DEF DeviceWideKinds
  <2> QED BY <1>0, <2>1 DEF Prepared, Proper, Routine, DeviceKinds
<1> DEFINE Goal == /\ Proper(next) /\ Refers(next) /\ Searching(next) /\ Worked(next)
                   /\ next = Idle \/ (next.kind = Job.kind /\ next.dev = Job.dev)
                   /\ next.pc \in AfterPCs \union {"update_status"} =>
                        next.new \in {"aborted", "decommissioned"}
                   /\ next.pc \in AfterPCs \ {"find_deployment"} => OverUpTo(next.dev, next.dep)
                   /\ next.pc = "find_deployment" => UpdateStatus(Server)
<1>c. next = Idle => Goal
  <2> SUFFICES ASSUME next = Idle PROVE Goal
    OBVIOUS
  <2>1. Proper(next) /\ Refers(next) /\ Searching(next)
    BY DEF Proper, Routine, Refers, Searching, Idle, Deployments
  <2>2. Worked(next) /\ next.pc \notin AfterPCs \union {"update_status"}
    BY EndWorked DEF Idle, AfterPCs
  <2> QED BY <2>1, <2>2 DEF AfterPCs
<1>1. CASE FindActive(Server)
  <2>1. FindActiveWide(Job, next)
    BY <1>0, <1>1, <1>a, FindActiveWideIs
  <2>2. CASE OldestActive(Job.dev) = {} /\ Keeps(Job, next) /\ next.pc = "find_inactive"
    <3>1. Searching(next)
      BY <1>0, <2>2, NoneActive DEF Searching, Keeps
    <3>2. Worked(next)
      BY <2>2, EndWorked
    <3>3. Proper(next) /\ Refers(next)
      BY <1>0, <2>2 DEF Proper, Refers, Keeps, WidePCs, Prepared
    <3> QED BY <2>2, <3>1, <3>2, <3>3 DEF Keeps, AfterPCs
  <2>3. ASSUME NEW i \in OldestActive(Job.dev),
               next.kind = Job.kind, next.dev = Job.dev, next.dep = docs[i].dep,
               next.pc = "update_status", next.new = WideStatus(Job.kind)
        PROVE  Goal
    <3>1. i \in DOMAIN docs /\ docs[i].active /\ docs[i].dev = Job.dev
      BY DEF OldestActive, DeviceDocs, NotDeleted
    <3>2. /\ docs[i].dep \in Deployments /\ ~deployments[docs[i].dep].finished
          /\ docs[i].status \in ActiveStatuses /\ Stored(docs[i].dep)
      BY <3>1, ActiveOpen DEF SerialInv, Store
    <3>3. docs[i].request # NoRequest
      BY <1>b, <3>1 DEF SerialInv, Store, ActiveLast, Held, DeviceKinds
    <3>4. next.new \in {"aborted", "decommissioned"}
      BY <2>3 DEF WideStatus
    <3>5. Target(next, i)
      BY <2>3, <3>1, <3>2, <3>3, <3>4 DEF Target, DocsOf, ActiveStatuses
    <3>6. Worked(next)
      BY <2>3, <3>1, <3>2, <3>5 DEF Worked
    <3>7. Proper(next) /\ Refers(next) /\ Searching(next)
      BY <2>3, <3>2 DEF Proper, WidePCs, Refers, Searching
    <3> QED BY <2>3, <3>4, <3>6, <3>7 DEF AfterPCs
  <2> QED BY <2>1, <2>2, <2>3 DEF FindActiveWide
<1>2. CASE FindInactive(Server)
  <2>1. FindInactiveWay(Job, next)
    BY <1>0, <1>2, <1>a, FindInactiveIs
  <2>2. OverUpTo(Job.dev, NumDeployments)
    BY <1>0, <1>2 DEF Searching, FindInactive, At, Prepared
  <2>3. Searching(next)
    BY <1>0, <2>1, <2>2, LatestBounds DEF FindInactiveWay, Searching, Keeps
  <2>4. Worked(next)
    BY <2>1, EndWorked DEF FindInactiveWay
  <2>5. Proper(next) /\ Refers(next)
    BY <1>0, <2>1 DEF FindInactiveWay, Proper, Refers, Keeps, WidePCs, Prepared
  <2> QED BY <2>1, <2>3, <2>4, <2>5 DEF FindInactiveWay, Keeps, AfterPCs
<1>3. CASE FindNewer(Server)
  <2>1. FindNewerWide(Job, next)
    BY <1>0, <1>3, <1>a, FindNewerWideIs
  <2>2. OverUpTo(Job.dev, Job.after) /\ Job.after \in Nat
    <3>1. Job.after \in Nat
      BY <1>0, NumDeploymentsAssumption DEF WorkerType, Deployments
    <3> QED BY <1>0, <1>3, <3>1 DEF Searching, FindNewer, At, Prepared
  <2>3. \A i \in DOMAIN docs : docs[i].dep \in Nat
    BY <1>0, DocTyped, NumDeploymentsAssumption DEF IInv, Deployments
  <2>4. ASSUME NEW d \in NewerActive(Job.dev, Job.after),
               next.kind = Job.kind, next.dev = Job.dev,
               next.pc = "find_existing", next.dep = d
        PROVE  Goal
    <3>1. /\ d \in Deployments /\ Stored(d) /\ ~deployments[d].finished
          /\ d > Job.after /\ Job.dev \in Listed(d)
      BY NewerIs, NewerOpen
    <3>2. OverUpTo(Job.dev, d - 1)
      BY <2>2, <2>3, <3>1, NumDeploymentsAssumption DEF OverUpTo, Deployments
    <3>3. Searching(next)
      BY <2>4, <3>1, <3>2 DEF Searching
    <3>4. Proper(next) /\ Refers(next) /\ Worked(next)
      BY <2>4, <3>1 DEF Proper, WidePCs, Refers, Worked
    <3> QED BY <2>4, <3>3, <3>4 DEF AfterPCs
  <2> QED BY <1>c, <2>1, <2>4 DEF FindNewerWide
<1>4. CASE FindExisting(Server)
  <2>1. FindExistingWay(Job, next)
    BY <1>0, <1>4, <1>a, FindExistingIs
  <2>2. /\ OverUpTo(Job.dev, Job.dep - 1) /\ Job.dev \in Listed(Job.dep) /\ Job.dep \in Nat
        /\ Job.pc = "find_existing"
    <3>1. Job.dep \in Deployments /\ Job.pc = "find_existing"
      BY <1>0, <1>4, SerialFacts DEF JobOK, FindExisting, At
    <3> QED BY <1>0, <3>1, NumDeploymentsAssumption DEF Searching, Deployments, Prepared
  <2>3. DocsOf(Job.dev, Job.dep) = {}
    BY <2>2 DEF DocsOf, OverUpTo
  <2>4. Searching(next)
    BY <2>1, <2>2, <2>3 DEF FindExistingWay, Keeps, Searching
  <2>5. Worked(next)
    BY <1>0, <2>1, <2>2, KeepsWorked DEF FindExistingWay, WorkPCs
  <2>6. Proper(next) /\ Refers(next)
    BY <1>0, <2>1 DEF FindExistingWay, Proper, Refers, Keeps, WidePCs, Prepared
  <2> QED BY <2>1, <2>4, <2>5, <2>6 DEF FindExistingWay, Keeps, AfterPCs
<1>5. CASE InsertDeviceDeployment(Server)
  <2>1. (next = Idle \/ (Keeps(Job, next) /\ next.pc = "inc_count")) /\ Job.pc = "insert"
    BY <1>0, <1>5, <1>a, InsertWideIs DEF InsertDeviceDeployment, At
  <2>2. CASE Keeps(Job, next) /\ next.pc = "inc_count"
    <3>1. Worked(next)
      BY <1>0, <2>1, <2>2, KeepsWorked DEF WorkPCs
    <3>2. Proper(next) /\ Refers(next) /\ Searching(next)
      BY <1>0, <2>2 DEF Proper, Refers, Keeps, WidePCs, Searching, Prepared
    <3> QED BY <2>2, <3>1, <3>2 DEF Keeps, AfterPCs
  <2> QED BY <1>c, <2>1, <2>2
<1>6. CASE IncrementDeviceCount(Server)
  BY <1>0, <1>6, <1>a, <1>c, CountWideIs
<1>7. CASE UpdateStatus(Server)
  <2>1. /\ Worked(next) /\ Keeps(Job, next) /\ next.pc = "find_deployment"
        /\ next.new = Job.new /\ Job.pc = "update_status"
    BY <1>0, <1>7, UpdateWorked DEF UpdateStatus, At
  <2>2. next.new \in {"aborted", "decommissioned"}
    BY <1>0, <2>1 DEF Prepared
  <2>3. Proper(next) /\ Refers(next) /\ Searching(next)
    BY <1>0, <2>1 DEF Proper, Refers, Keeps, WidePCs, AfterPCs, Searching, Prepared
  <2> QED BY <1>7, <2>1, <2>2, <2>3 DEF Keeps
<1>8. CASE FindDeployment(Server)
  <2>1. FindDeploymentWay(Job, next) /\ Job.pc = "find_deployment"
    BY <1>0, <1>8, <1>a, FindDeploymentIs DEF FindDeployment, At
  <2>2. Job.new \in {"aborted", "decommissioned"} /\ OverUpTo(Job.dev, Job.dep)
    BY <1>0, <2>1 DEF Prepared, AfterPCs
  <2>3. Worked(next)
    BY <1>0, <2>1 DEF FindDeploymentWay, Worked, Keeps, WorkPCs
  <2>4. Proper(next) /\ Refers(next) /\ Searching(next)
    BY <1>0, <2>1 DEF FindDeploymentWay, Proper, Refers, Keeps, WidePCs, AfterPCs, Searching, Prepared
  <2> QED BY <2>1, <2>2, <2>3, <2>4 DEF FindDeploymentWay, Keeps
<1>9. CASE UpdateStatsInc(Server)
  <2>0. Job.pc = "inc_stats"
    BY <1>0, <1>9 DEF UpdateStatsInc, At
  <2>1. Job.new \in {"aborted", "decommissioned"} /\ OverUpTo(Job.dev, Job.dep)
    BY <1>0, <2>0 DEF Prepared, AfterPCs
  <2>2. IncWide(Job, next)
    BY <1>0, <1>9, <1>a, <2>1, IncWideIs
  <2>3. Worked(next)
    BY <1>0, <2>0, <2>2, KeepsWorked, EndWorked DEF IncWide, WorkPCs
  <2>4. Proper(next) /\ Refers(next) /\ Searching(next)
    BY <1>0, <2>2 DEF IncWide, Proper, Refers, Keeps, WidePCs, AfterPCs, Searching, Prepared
  <2> QED BY <2>1, <2>2, <2>3, <2>4 DEF IncWide, Keeps
<1>10. CASE SetStatus(Server)
  <2>0. Job.pc = "set_status" /\ Continue(Server, PastCounters(Job))
    BY <1>0, <1>10 DEF SetStatus, At
  <2>1. Job.new \in {"aborted", "decommissioned"} /\ OverUpTo(Job.dev, Job.dep)
    BY <1>0, <2>0 DEF Prepared, AfterPCs
  <2>2. Keeps(Job, next) /\ next.pc = "save_last" /\ next.new = Job.new
    BY <1>0, <1>a, <2>0, <2>1, WidePastCounters
  <2>3. Worked(next)
    BY <2>2, EndWorked
  <2>4. Proper(next) /\ Refers(next) /\ Searching(next)
    BY <1>0, <2>2 DEF Proper, Refers, Keeps, WidePCs, AfterPCs, Searching, Prepared
  <2> QED BY <2>1, <2>2, <2>3, <2>4 DEF Keeps
<1>11. CASE SaveLastStatus(Server)
  <2>0. Job.pc = "save_last" /\ Continue(Server, AfterUpdate(Job))
    BY <1>0, <1>11 DEF SaveLastStatus, At
  <2>1. OverUpTo(Job.dev, Job.dep)
    BY <1>0, <2>0 DEF Prepared, AfterPCs
  <2>2. LooksOn(Job, next)
    BY <1>0, <1>a, <2>0, WideAfterUpdate
  <2>3. Worked(next)
    BY <2>2, EndWorked DEF LooksOn
  <2>4. Proper(next) /\ Refers(next) /\ Searching(next)
    BY <1>0, <2>1, <2>2 DEF LooksOn, Proper, Refers, Keeps, WidePCs, Searching, Prepared
  <2> QED BY <2>2, <2>3, <2>4 DEF LooksOn, Keeps, AfterPCs
<1> QED BY <1>0, <1>b, <1>1, <1>2, <1>3, <1>4, <1>5, <1>6, <1>7, <1>8, <1>9, <1>10, <1>11, WideStep

---------------------------------------------------------------------------
(* One request at a time: the device deployments after a step.              *)

\* The ways a step writes device deployments.
LEMMA DocsMove ==
    ASSUME Serial, SerialInv, Step(Server)
    PROVE  \/ UNCHANGED docs
           \/ InsertDeviceDeployment(Server)
           \/ /\ UpdateStatus(Server)
              /\ \E i \in DOMAIN docs :
                   /\ Target(Job, i)
                   /\ docs' = [docs EXCEPT ![i].status = Job.new, ![i].active = Active(Job.new)]
           \/ AbortDocs(Server) /\ Job.kind = "abort"
           \/ /\ SaveRequest(Server) /\ Job.kind = "poll" /\ Job.cur_req = NoRequest
              /\ docs' = [docs EXCEPT ![Job.doc].request = Job.req]
           \/ /\ Instructions(Server) /\ Job.kind = "poll"
              /\ \E i \in DOMAIN docs : docs' = [docs EXCEPT ![i].image = TRUE]
<1>0. /\ IInv /\ Server \in Workers /\ Job = workers[Server]
      /\ JobOK(Job) /\ Proper(Job) /\ AllListed /\ DeliveredInOrder
  BY SerialFacts DEF SerialInv, Prepared, Store
<1>1. ~MarkDeleted(Server)
  BY <1>0 DEF MarkDeleted, At, Proper, Routine, WidePCs, PollPCs, DevicePCs, ReportPCs,
     AfterPCs, AbortPCs
<1>2. CASE UpdateStatus(Server)
  <2>1. Job.pc = "update_status"
    BY <1>0, <1>2 DEF UpdateStatus, At
  <2>2. PICK i \in DOMAIN docs : Target(Job, i)
    BY <2>1 DEF SerialInv, Prepared
  <2> QED BY <1>0, <1>2, <2>2, TargetWritten
<1>3. CASE AbortDocs(Server)
  BY <1>0, <1>3 DEF AbortDocs, At, JobOK, AbortPCs
<1>4. CASE SaveRequest(Server)
  <2>1. Job.kind = "poll"
    BY <1>0, <1>4 DEF SaveRequest, At, Proper, Routine, WidePCs, ReportPCs, AfterPCs, AbortPCs
  <2> QED BY <1>0, <1>4, <2>1 DEF SaveRequest
<1>5. CASE Instructions(Server)
  <2>1. Job.kind = "poll"
    BY <1>0, <1>5 DEF Instructions, At, Proper, Routine, WidePCs, ReportPCs, AfterPCs, AbortPCs
  <2>2. NotDeleted(DocsOf(Job.dev, Job.dep)) \subseteq DOMAIN docs
    BY DEF NotDeleted, DocsOf
  <2>3. UNCHANGED docs \/ \E i \in NotDeleted(DocsOf(Job.dev, Job.dep)) :
                            docs' = [docs EXCEPT ![i].image = TRUE]
    BY <1>0, <1>5 DEF Instructions
  <2> QED BY <1>5, <2>1, <2>2, <2>3
<1>6. \/ UNCHANGED docs \/ InsertDeviceDeployment(Server) \/ UpdateStatus(Server)
      \/ AbortDocs(Server) \/ SaveRequest(Server) \/ Instructions(Server)
  BY <1>1 DEF Step, Respond, FindActive, FindInactive, FindNewer, FindExisting,
     IncrementDeviceCount, IncrementTotalSize,
     GetDeviceDeployment, FindDeployment, UpdateStatsInc, SetStatus, SaveLastStatus,
     CheckFinished, Aggregate, UpdateStats, Finish, GetHistory, DeleteLast, ReadOnly
<1> QED BY <1>2, <1>3, <1>4, <1>5, <1>6

\* What stays of every device deployment, whichever way one is written.
LEMMA DocsSteady ==
    ASSUME Serial, SerialInv, Step(Server), ~InsertDeviceDeployment(Server)
    PROVE  /\ Steady
           /\ \A i \in DOMAIN docs :
                docs'[i].request = NoRequest => docs[i].request = NoRequest
           /\ \A i \in DOMAIN docs : docs'[i].active =>
                docs'[i].status = docs[i].status \/ Job.pc = "update_status"
           /\ ~UpdateStatus(Server) /\ ~AbortDocs(Server) =>
                \A i \in DOMAIN docs :
                    docs'[i].status = docs[i].status /\ docs'[i].active = docs[i].active
<1>0. /\ docs \in Seq(DocType) /\ (\A i \in DOMAIN docs : docs[i] \in DocType)
      /\ IInv /\ Server \in Workers /\ Job = workers[Server]
  BY SerialFacts, DocTyped DEF IInv, TypeOK
<1>1. CASE UNCHANGED docs
  BY <1>1 DEF Steady
<1>2. CASE UpdateStatus(Server)
  <2>1. PICK i \in DOMAIN docs :
          /\ Target(Job, i)
          /\ docs' = [docs EXCEPT ![i].status = Job.new, ![i].active = Active(Job.new)]
    BY <1>0, <1>2, OneNext, UpdateWorked DEF UpdateStatus
  <2>2. DOMAIN docs' = DOMAIN docs /\ \A j \in DOMAIN docs \ {i} : docs'[j] = docs[j]
    BY <1>0, <2>1
  <2>3. /\ docs'[i].dev = docs[i].dev /\ docs'[i].dep = docs[i].dep
        /\ docs'[i].deleted = docs[i].deleted /\ docs'[i].request = docs[i].request
    BY <1>0, <2>1 DEF DocType
  <2>4. docs[i].active /\ Job.pc = "update_status"
    BY <1>0, <1>2, <2>1 DEF Target, UpdateStatus, At
  <2> QED BY <1>2, <2>2, <2>3, <2>4 DEF Steady
<1>3. CASE AbortDocs(Server)
  BY <1>0, <1>3 DEF AbortDocs, DocType, Steady
<1>4. CASE SaveRequest(Server) /\ docs' = [docs EXCEPT ![Job.doc].request = Job.req]
           /\ Job.kind = "poll"
  <2>1. Job.req # NoRequest /\ Job.doc \in DOMAIN docs
    BY <1>0, <1>4, HeldIs DEF SaveRequest, At, DocsOf
  <2>2. DOMAIN docs' = DOMAIN docs /\ \A j \in DOMAIN docs \ {Job.doc} : docs'[j] = docs[j]
    BY <1>0, <1>4
  <2>3. /\ docs'[Job.doc].dev = docs[Job.doc].dev /\ docs'[Job.doc].dep = docs[Job.doc].dep
        /\ docs'[Job.doc].deleted = docs[Job.doc].deleted
        /\ docs'[Job.doc].status = docs[Job.doc].status
        /\ docs'[Job.doc].active = docs[Job.doc].active
        /\ docs'[Job.doc].request = Job.req
    BY <1>0, <1>4, <2>1 DEF DocType
  <2> QED BY <2>1, <2>2, <2>3 DEF Steady
<1>5. CASE \E i \in DOMAIN docs : docs' = [docs EXCEPT ![i].image = TRUE]
  BY <1>0, <1>5 DEF DocType, Steady
<1> QED BY <1>1, <1>2, <1>3, <1>4, <1>5, DocsMove

\* A poll that holds a device deployment after a step found it active or held it before.
LEMMA PollHolds ==
    ASSUME Serial, SerialInv, Job.kind \in DeviceKinds, Step(Server),
           ~InsertDeviceDeployment(Server), NEW next, Continue(Server, next),
           next.pc \in {"inc_count", "save_request", "instructions"}
    PROVE  /\ next.doc \in DOMAIN docs /\ docs[next.doc].active /\ ~UpdateStatus(Server)
           /\ \/ FindActive(Server)
              \/ /\ Job.kind = "poll" /\ Job.pc \in {"inc_count", "save_request"}
                 /\ next.doc = Job.doc /\ next.kind = "poll"
                 /\ Job.pc = "inc_count" => UNCHANGED docs /\ next.pc = "save_request"
<1>0. /\ IInv /\ Server \in Workers /\ Job = workers[Server] /\ Job \in WorkerType
      /\ Routine(Job)
  BY SerialFacts DEF Ready, SerialInv
<1>a. \A other : Continue(Server, other) => next = other
  BY <1>0, OneNext
<1>b. next.pc \notin {"respond", "find_inactive", "find_newer", "find_existing", "insert",
                      "inc_size", "update_status", "find_deployment", "inc_stats",
                      "set_status", "save_last", "idle"}
  OBVIOUS
<1>1. ~Respond(Server)
  BY <1>a, <1>b DEF Respond, Idle
<1>2. CASE Job.kind = "poll" /\ FindActive(Server)
  <2>1. FindActiveWay(Job, next)
    BY <1>0, <1>2, <1>a, FindActiveIs
  <2>2. PICK i \in OldestActive(Job.dev) : next.doc = i
    BY <1>b, <2>1 DEF FindActiveWay
  <2>3. i \in DOMAIN docs /\ docs[i].active
    BY DEF OldestActive, DeviceDocs, NotDeleted
  <2>4. ~UpdateStatus(Server)
    BY <1>2 DEF UpdateStatus, FindActive, At
  <2> QED BY <1>2, <2>2, <2>3, <2>4
<1>3. ~(Job.kind = "poll" /\ FindInactive(Server))
  BY <1>0, <1>a, <1>b, FindInactiveIs DEF FindInactiveWay
<1>4. ~(Job.kind = "poll" /\ FindNewer(Server))
  BY <1>0, <1>a, <1>b, FindNewerIs DEF FindNewerWay, Answered
<1>5. ~(Job.kind = "poll" /\ FindExisting(Server))
  BY <1>0, <1>a, <1>b, FindExistingIs DEF FindExistingWay
<1>6. CASE Job.kind = "poll" /\ IncrementDeviceCount(Server)
  <2>1. /\ Keeps(Job, next) /\ Copies(Job, next) /\ next.pc = "save_request"
        /\ Job.pc = "inc_count" /\ UNCHANGED docs /\ ~UpdateStatus(Server)
    BY <1>0, <1>6, <1>a, CountIs DEF IncrementDeviceCount, UpdateStatus, At
  <2>2. Job.doc \in DOMAIN docs /\ docs[Job.doc].active
    BY <1>6, <2>1, HeldIs DEF DocsOf
  <2> QED BY <1>6, <2>1, <2>2 DEF Keeps, Copies
<1>7. CASE Job.kind = "poll" /\ SaveRequest(Server)
  <2>1. SaveRequestWay(Job, next) /\ Job.pc = "save_request" /\ ~UpdateStatus(Server)
    BY <1>0, <1>7, <1>a, SaveRequestIs DEF SaveRequest, UpdateStatus, At
  <2>2. Keeps(Job, next) /\ Copies(Job, next)
    BY <1>b, <2>1 DEF SaveRequestWay, Begun, Answered
  <2>3. Job.doc \in DOMAIN docs /\ docs[Job.doc].active
    BY <1>7, <2>1, HeldIs DEF DocsOf
  <2> QED BY <1>7, <2>1, <2>2, <2>3 DEF Keeps, Copies
<1>8. ~(Job.kind = "poll" /\ Instructions(Server))
  <2> SUFFICES ASSUME Job.kind = "poll", Instructions(Server) PROVE FALSE
    OBVIOUS
  <2>1. InstructionsWay(Job, next) \/ InstructedBy(Job, TRUE, next)
    BY <1>0, <1>a, InstructionsIs DEF Assigning
  <2> QED BY <1>b, <2>1 DEF InstructionsWay, InstructedBy, Begun, Answered
<1>9. ~(Job.kind = "poll" /\ IncrementTotalSize(Server))
  BY <1>0, <1>a, <1>b, TotalSizeIs DEF Answered
<1>10. ~(Job.kind = "report" /\ GetDeviceDeployment(Server))
  BY <1>0, <1>a, <1>b, GetIs DEF GetWay, Begun, Answered
<1>11. ~UpdateStatus(Server)
  BY <1>b, UpdateWorked
<1>12. ~FindDeployment(Server)
  BY <1>0, <1>a, <1>b, FindDeploymentIs DEF FindDeploymentWay
<1>13. ~UpdateStatsInc(Server)
  BY <1>0, <1>a, <1>b, IncIs DEF IncWay, Passed, Over, Answered
<1>14. ~SetStatus(Server) /\ ~SaveLastStatus(Server)
  BY <1>0, <1>a, <1>b, SetStatusIs, SaveLastIs DEF Passed, Over, Answered
<1> QED BY <1>0, <1>1, <1>2, <1>3, <1>4, <1>5, <1>6, <1>7, <1>8, <1>9, <1>10, <1>11, <1>12, <1>13,
           <1>14, DeviceStep

\* The other requests hold none.
LEMMA OthersHoldNone ==
    ASSUME Serial, SerialInv, Job.kind \notin DeviceKinds, Step(Server),
           NEW next, Continue(Server, next)
    PROVE  next.kind # "poll"
<1>0. /\ IInv /\ Server \in Workers /\ Job = workers[Server] /\ Proper(Job)
  BY SerialFacts DEF SerialInv, Prepared
<1>1. CASE Job.kind \in DeviceWideKinds
  <2>1. next = Idle \/ next.kind = Job.kind
    BY <1>1, WideAhead
  <2> QED BY <1>1, <2>1 DEF Idle, DeviceWideKinds
<1>2. CASE Job.kind = "abort"
  <2>1. Job.pc \in AbortPCs
    BY <1>0, <1>2 DEF Proper, Routine, DeviceWideKinds
  <2>2. AbortWay(Job, next)
    BY <1>0, <2>1, OneNext, AbortIs
  <2> QED BY <2>2 DEF AbortWay, Idle
<1>3. CASE Job.kind = "none"
  <2>1. Job.pc = "idle"
    BY <1>0, <1>3 DEF Proper, Routine, DeviceWideKinds
  <2>2. ~Step(Server)
    BY <1>0, <2>1 DEF Step, Respond, FindActive, FindInactive, FindNewer, FindExisting,
       InsertDeviceDeployment, IncrementDeviceCount, SaveRequest, Instructions,
       IncrementTotalSize, GetDeviceDeployment, UpdateStatus, FindDeployment, UpdateStatsInc,
       SetStatus, SaveLastStatus, CheckFinished, AbortDocs, Aggregate, UpdateStats, Finish,
       GetHistory, MarkDeleted, DeleteLast, At
  <2> QED BY <2>2
<1> QED BY <1>0, <1>1, <1>2, <1>3 DEF Proper, Routine, DeviceKinds

\* Nothing is held by a request that has not found it.
LEMMA StepHolds ==
    ASSUME Serial, SerialInv, Step(Server), ~InsertDeviceDeployment(Server),
           NEW next, Continue(Server, next)
    PROVE  KeepsHold(next) /\ HoldsActive(next)
<1>0. /\ IInv /\ Server \in Workers /\ Job = workers[Server] /\ Store
  BY SerialFacts DEF SerialInv
<1>1. HoldsActive(next)
  <2> SUFFICES ASSUME next.kind = "poll", next.pc \in {"inc_count", "save_request", "instructions"}
               PROVE  docs'[next.doc].active
    BY DEF HoldsActive
  <2>1. Job.kind \in DeviceKinds
    BY OthersHoldNone
  <2>2. /\ next.doc \in DOMAIN docs /\ docs[next.doc].active /\ ~UpdateStatus(Server)
    BY <2>1, PollHolds
  <2>3. ~AbortDocs(Server)
    <3>1. AbortDocs(Server) => Job.pc = "abort_docs"
      BY <1>0 DEF AbortDocs, At
    <3>2. Job.pc = "abort_docs" => Job.kind = "abort"
      BY <1>0, SerialFacts DEF JobOK, AbortPCs
    <3> QED BY <2>1, <3>1, <3>2 DEF DeviceKinds
  <2> QED BY <2>2, <2>3, DocsSteady
<1>2. KeepsHold(next)
  <2> SUFFICES ASSUME NEW i \in DOMAIN docs, docs'[i].active, docs'[i].request = NoRequest
               PROVE  /\ docs[i].request = NoRequest /\ docs'[i].status = docs[i].status
                      /\ next.kind = "poll" /\ next.pc \in {"inc_count", "save_request"}
                      /\ next.doc = i
    BY DEF KeepsHold
  <2>1. docs[i].active /\ docs[i].request = NoRequest
    BY DocsSteady DEF Steady
  <2>2. Held(i)
    BY <1>0, <2>1 DEF Store, ActiveLast
  <2>3. CASE Job.pc = "save_request"
    <3>1. Job.cur_req = NoRequest /\ Job.req # NoRequest
      BY <2>1, <2>2, <2>3, HeldIs DEF Held
    <3>2. SaveRequest(Server)
      BY <1>0, <2>3 DEF Step, Respond, FindActive, FindInactive, FindNewer, FindExisting,
         InsertDeviceDeployment, IncrementDeviceCount, Instructions,
         IncrementTotalSize, GetDeviceDeployment, UpdateStatus, FindDeployment, UpdateStatsInc,
         SetStatus, SaveLastStatus, CheckFinished, AbortDocs, Aggregate, UpdateStats, Finish,
         GetHistory, MarkDeleted, DeleteLast, At
    <3>3. docs' = [docs EXCEPT ![i].request = Job.req]
      BY <1>0, <2>2, <3>1, <3>2 DEF SaveRequest, Held
    <3>4. docs[i] \in DocType /\ docs \in Seq(DocType)
      BY <1>0, DocTyped DEF IInv, TypeOK
    <3>5. docs'[i].request = Job.req
      BY <3>3, <3>4 DEF DocType
    <3> QED BY <3>1, <3>5
  <2>4. CASE Job.pc = "inc_count"
    <3>1. IncrementDeviceCount(Server)
      BY <1>0, <2>4 DEF Step, Respond, FindActive, FindInactive, FindNewer, FindExisting,
         InsertDeviceDeployment, SaveRequest, Instructions,
         IncrementTotalSize, GetDeviceDeployment, UpdateStatus, FindDeployment, UpdateStatsInc,
         SetStatus, SaveLastStatus, CheckFinished, AbortDocs, Aggregate, UpdateStats, Finish,
         GetHistory, MarkDeleted, DeleteLast, At
    <3>2. Keeps(Job, next) /\ Copies(Job, next) /\ next.pc = "save_request"
      BY <1>0, <2>2, <3>1, OneNext, CountIs DEF Held
    <3>3. UNCHANGED docs
      BY <3>1 DEF IncrementDeviceCount
    <3> QED BY <2>1, <2>2, <3>2, <3>3 DEF Held, Keeps, Copies
  <2> QED BY <2>2, <2>3, <2>4 DEF Held
<1> QED BY <1>1, <1>2

\* What a request has made sure of stays, while no device deployment comes in.
LEMMA PreparedStays ==
    ASSUME Serial, SerialInv, [Next]_vars, NEW next, Continue(Server, next), Steady,
           Proper(next), Refers(next), Searching(next), Worked(next),
           next.pc \in WorkPCs =>
             deployments'[next.dep].finished = deployments[next.dep].finished,
           next.pc = "update_status" => \A i \in DOMAIN docs :
             /\ docs'[i].status = docs[i].status /\ docs'[i].active = docs[i].active
             /\ docs[i].request # NoRequest => docs'[i].request # NoRequest,
           next.kind \in DeviceWideKinds /\ next.pc \in AfterPCs => OverUpTo(next.dev, next.dep)',
           next.kind \in DeviceWideKinds /\ next.pc \in AfterPCs \union {"update_status"} =>
             next.new \in {"aborted", "decommissioned"}
    PROVE  Prepared(Job)'
<1>0. /\ IInv /\ Server \in Workers /\ Job' = next /\ workers'[Server] = next
  BY SerialFacts, JobAfter
<1>1. Refers(next)'
  BY <1>0, StoredStays DEF Refers
<1>2. Searching(Job)'
  <2>1. Untouched(next.dev)
    BY DEF Untouched, Steady
  <2>2. next.pc \in {"find_existing", "insert"} =>
          deployments'[next.dep].list = deployments[next.dep].list
    <3>1. next.pc \in {"find_existing", "insert"} => next.dep \in Deployments /\ Stored(next.dep)
      BY DEF Worked, WorkPCs, Refers
    <3> QED BY <1>0, <3>1, StoredStays DEF Stored
  <2>3. Searching(workers[Server])'
    BY <1>0, <2>1, <2>2, SearchesAfter
  <2> QED BY <2>3 DEF Job
<1>3. next.pc \in WorkPCs => next.dep \in Deployments /\ ~deployments'[next.dep].finished
  BY DEF Worked
<1>4. next.pc = "update_status" =>
        \E i \in DOMAIN docs' :
          /\ docs'[i].dev = next.dev /\ docs'[i].dep = next.dep /\ docs'[i].active
          /\ docs'[i].request # NoRequest /\ docs'[i].status # next.new
  BY DEF Worked, Target, DocsOf, Steady
<1>5. next.pc = "inc_stats" => ~next.was_finished
  BY DEF Worked
<1> QED BY <1>0, <1>1, <1>2, <1>3, <1>4, <1>5 DEF Prepared, Proper, Routine, Refers, Target, DocsOf

\* After the write of a status for a whole device nothing of it is active.
LEMMA WideWritten ==
    ASSUME Serial, SerialInv, Job.kind \in DeviceWideKinds, UpdateStatus(Server),
           NEW next, Continue(Server, next)
    PROVE  OverUpTo(next.dev, next.dep)'
<1>0. /\ IInv /\ Server \in Workers /\ Job = workers[Server] /\ Store /\ DeliveredInOrder
      /\ docs \in Seq(DocType) /\ \A i \in DOMAIN docs : docs[i] \in DocType
  BY SerialFacts, DocTyped DEF SerialInv, Store, IInv, TypeOK
<1>1. Keeps(Job, next) /\ Job.pc = "update_status"
  BY <1>0, UpdateWorked DEF UpdateStatus, At
<1>2. PICK i \in DOMAIN docs :
        /\ Target(Job, i)
        /\ docs' = [docs EXCEPT ![i].status = Job.new, ![i].active = Active(Job.new)]
  BY UpdateWorked
<1>3. ~Active(Job.new)
  BY <1>1 DEF SerialInv, Prepared, Active, ActiveStatuses
<1>4. docs[i].dev = Job.dev /\ docs[i].dep = Job.dep /\ docs[i].active
  BY <1>2 DEF Target, DocsOf
<1>5. /\ DOMAIN docs' = DOMAIN docs /\ \A j \in DOMAIN docs \ {i} : docs'[j] = docs[j]
      /\ ~docs'[i].active /\ docs'[i].dep = docs[i].dep /\ docs'[i].dev = docs[i].dev
  BY <1>0, <1>2, <1>3 DEF DocType
<1>6. ASSUME NEW j \in DOMAIN docs, docs[j].dev = Job.dev
      PROVE  docs[j].dep <= docs[i].dep /\ (j # i => ~docs[j].active)
  <2>1. j <= i
    BY <1>0, <1>4, <1>6 DEF Store, ActiveLast
  <2>2. docs[j].active => i <= j
    BY <1>0, <1>4, <1>6 DEF Store, ActiveLast
  <2>3. i \in Nat /\ j \in Nat /\ docs[j].dep \in Nat /\ docs[i].dep \in Nat
    BY <1>0, NumDeploymentsAssumption DEF DocType, Deployments
  <2>4. j # i => docs[j].dep < docs[i].dep
    BY <1>0, <1>4, <1>6, <2>1, <2>3 DEF DeliveredInOrder
  <2> QED BY <2>1, <2>2, <2>3, <2>4
<1>7. \A j \in DOMAIN docs' : docs'[j].dev = next.dev => ~docs'[j].active /\ docs'[j].dep <= next.dep
  BY <1>1, <1>4, <1>5, <1>6 DEF Keeps
<1> QED BY <1>7 DEF OverUpTo

\* An abort of a deployment goes on as it does, without anything made sure of.
LEMMA AbortAhead ==
    ASSUME Serial, SerialInv, Job.kind = "abort", Step(Server),
           NEW next, Continue(Server, next)
    PROVE  /\ Proper(next) /\ Refers(next) /\ Searching(next) /\ Worked(next)
           /\ next.kind \notin DeviceWideKinds \union DeviceKinds
           /\ next.pc \in {"idle", "abort_docs", "aggregate", "update_stats", "finish"}
           /\ Job.pc \in AbortPCs
<1>0. /\ IInv /\ Server \in Workers /\ Job = workers[Server] /\ Proper(Job) /\ Refers(Job)
  BY SerialFacts DEF SerialInv, Prepared
<1>1. Job.pc \in AbortPCs
  BY <1>0 DEF Proper, Routine, DeviceWideKinds
<1>2. AbortWay(Job, next)
  BY <1>0, <1>1, OneNext, AbortIs
<1>3. CASE next = Idle
  BY <1>1, <1>3, EndWorked DEF Idle, Proper, Routine, Refers, Searching, Deployments,
     DeviceWideKinds, DeviceKinds
<1>4. CASE /\ next.kind = "abort" /\ next.dep = Job.dep
           /\ next.pc \in AbortPCs \ {"check_finished"}
  BY <1>0, <1>1, <1>4 DEF AbortPCs, Proper, Routine, Refers, Searching, Worked, WorkPCs,
     DeviceWideKinds, DeviceKinds
<1> QED BY <1>2, <1>3, <1>4 DEF AbortWay

\* A request that is idle takes no step.
LEMMA IdleRests ==
    ASSUME Serial, SerialInv, Step(Server)
    PROVE  Job.kind \in DeviceKinds \/ Job.kind \in DeviceWideKinds \/ Job.kind = "abort"
<1>0. /\ IInv /\ Server \in Workers /\ Job = workers[Server] /\ Proper(Job)
  BY SerialFacts DEF SerialInv, Prepared
<1>1. Job.pc # "idle"
  BY <1>0 DEF Step, Respond, FindActive, FindInactive, FindNewer, FindExisting,
     InsertDeviceDeployment, IncrementDeviceCount, SaveRequest, Instructions,
     IncrementTotalSize, GetDeviceDeployment, UpdateStatus, FindDeployment, UpdateStatsInc,
     SetStatus, SaveLastStatus, CheckFinished, AbortDocs, Aggregate, UpdateStats, Finish,
     GetHistory, MarkDeleted, DeleteLast, At
<1> QED BY <1>0, <1>1 DEF Proper, Routine, DeviceKinds

\* Once the status of a deployment is set, the update is past its work.
LEMMA SetStatusLeads ==
    ASSUME Serial, SerialInv, SetStatus(Server), Step(Server), NEW next, Continue(Server, next)
    PROVE  next.pc \in {"respond", "save_last"}
<1>0. /\ IInv /\ Server \in Workers /\ Job = workers[Server] /\ Job \in WorkerType
      /\ JobOK(Job) /\ Prepared(Job) /\ Job.pc = "set_status"
  BY SerialFacts DEF SerialInv, SetStatus, At
<1>1. CASE Job.kind \in DeviceKinds
  BY <1>0, <1>1, OneNext, SetStatusIs DEF Passed, Over, Answered
<1>2. CASE Job.kind \in DeviceWideKinds
  <2>1. Job.new \in {"aborted", "decommissioned"}
    BY <1>0, <1>2 DEF Prepared, AfterPCs
  <2>2. Continue(Server, PastCounters(Job))
    BY <1>0 DEF SetStatus
  <2> QED BY <1>0, <2>1, <2>2, OneNext, WidePastCounters
<1>3. CASE Job.kind = "abort"
  BY <1>0, <1>3, AbortAhead DEF AbortPCs
<1> QED BY <1>1, <1>2, <1>3, IdleRests

\* What a request has made sure of after a step that inserts nothing.
LEMMA StepPrepared ==
    ASSUME Serial, SerialInv, [Next]_vars, Step(Server), ~InsertDeviceDeployment(Server),
           NEW next, Continue(Server, next)
    PROVE  Prepared(Job)'
<1>0. /\ IInv /\ Server \in Workers /\ Job = workers[Server] /\ Job' = next /\ Prepared(Job)
  BY SerialFacts, JobAfter DEF SerialInv
<1>1. /\ Proper(next) /\ Refers(next) /\ Searching(next) /\ Worked(next)
      /\ next.kind \in DeviceWideKinds /\ next.pc \in AfterPCs \union {"update_status"} =>
           next.new \in {"aborted", "decommissioned"}
      /\ next.kind \in DeviceWideKinds => Job.kind \in DeviceWideKinds
  <2>1. CASE Job.kind \in DeviceKinds
    <3>1. Prepared(next) /\ (next = Idle \/ next.kind = Job.kind)
      BY <2>1, DeviceAhead
    <3>2. next.kind \notin DeviceWideKinds
      BY <2>1, <3>1 DEF Idle, DeviceKinds, DeviceWideKinds
    <3> QED BY <3>1, <3>2 DEF Prepared, Worked
  <2>2. CASE Job.kind \in DeviceWideKinds
    BY <2>2, WideAhead
  <2>3. CASE Job.kind = "abort"
    BY <2>3, AbortAhead
  <2> QED BY <2>1, <2>2, <2>3, IdleRests
<1>2. Steady
  BY DocsSteady
<1>3. next.pc \in WorkPCs => deployments'[next.dep].finished = deployments[next.dep].finished
  <2> SUFFICES ASSUME next.pc \in WorkPCs
               PROVE  deployments'[next.dep].finished = deployments[next.dep].finished
    OBVIOUS
  <2>1. next.dep \in Deployments
    BY <1>1 DEF Worked
  <2>2. ~SetStatus(Server)
    BY SetStatusLeads DEF WorkPCs
  <2>3. ~Finish(Server)
    <3>1. Finish(Server) => Job.pc = "finish"
      BY <1>0 DEF Finish, At
    <3>2. Job.pc = "finish" => Job.kind = "abort"
      BY <1>0, SerialFacts DEF JobOK, AbortPCs
    <3> QED BY <3>1, <3>2, AbortAhead DEF WorkPCs
  <2> QED BY <1>0, <2>1, <2>2, <2>3, DeploymentKept
<1>4. next.pc = "update_status" => \A i \in DOMAIN docs :
        /\ docs'[i].status = docs[i].status /\ docs'[i].active = docs[i].active
        /\ docs[i].request # NoRequest => docs'[i].request # NoRequest
  <2>1. next.pc = "update_status" => ~UpdateStatus(Server)
    BY UpdateWorked
  <2>2. next.pc = "update_status" => ~AbortDocs(Server)
    <3>1. AbortDocs(Server) => Job.pc = "abort_docs"
      BY <1>0 DEF AbortDocs, At
    <3>2. Job.pc = "abort_docs" => Job.kind = "abort"
      BY <1>0, SerialFacts DEF JobOK, AbortPCs
    <3> QED BY <3>1, <3>2, AbortAhead
  <2> QED BY <2>1, <2>2, DocsSteady
<1>5. next.kind \in DeviceWideKinds /\ next.pc \in AfterPCs => OverUpTo(next.dev, next.dep)'
  <2> SUFFICES ASSUME next.kind \in DeviceWideKinds, next.pc \in AfterPCs
               PROVE  OverUpTo(next.dev, next.dep)'
    OBVIOUS
  <2>1. Job.kind \in DeviceWideKinds
    BY <1>1
  <2>2. CASE next.pc = "find_deployment"
    BY <2>1, <2>2, WideAhead, WideWritten
  <2>3. CASE next.pc # "find_deployment"
    <3>1. OverUpTo(next.dev, next.dep)
      BY <2>1, <2>3, WideAhead
    <3> QED BY <1>2, <3>1 DEF OverUpTo, Steady
  <2> QED BY <2>2, <2>3
<1> QED BY <1>1, <1>2, <1>3, <1>4, <1>5, PreparedStays

---------------------------------------------------------------------------
(* One request at a time: the insertion of a device deployment.             *)

\* The document a request inserts, and what it holds of it.
LEMMA InsertedIs ==
    ASSUME Serial, SerialInv, Step(Server), InsertDeviceDeployment(Server),
           NEW next, Continue(Server, next)
    PROVE  \E doc \in DocType :
             /\ docs' = Append(docs, doc) /\ doc.dev = Job.dev /\ doc.dep = Job.dep
             /\ ~doc.deleted /\ doc.request = NoRequest
             /\ doc.active => doc.status = "pending" /\ Job.kind = "poll"
             /\ \/ Job.kind = "poll" /\ next.kind = "poll" /\ next.doc = Len(docs) + 1 /\ doc.active
                     /\ next.pc \in {"inc_count", "save_request"}
                \/ ~doc.active /\ next.kind # "poll" /\ next.pc \in {"idle", "inc_count"}
                     /\ Job.kind \in DeviceWideKinds
                     /\ doc.status \in {"aborted", "decommissioned"}
<1>0. /\ IInv /\ Server \in Workers /\ Job = workers[Server] /\ Job \in WorkerType
      /\ JobOK(Job) /\ Prepared(Job) /\ Job.pc = "insert"
  BY SerialFacts DEF SerialInv, InsertDeviceDeployment, At
<1>1. Job.dev \in Devices /\ Job.dep \in Deployments
  BY <1>0 DEF JobOK, DevicePCs
<1>2. CASE Job.kind = "poll"
  <2>1. InsertWay(Job, next) /\ docs' = Append(docs, NewDoc(Job))
    BY <1>0, <1>2, OneNext, InsertIs
  <2> DEFINE doc == NewDoc(Job)
  <2>2. /\ doc \in DocType /\ doc.dev = Job.dev /\ doc.dep = Job.dep /\ ~doc.deleted
        /\ doc.request = NoRequest /\ doc.status = "pending" /\ doc.active
    BY <1>1 DEF NewDoc, DocType, Statuses, ActiveStatuses
  <2>3. /\ next.kind = "poll" /\ next.doc = Len(docs) + 1
        /\ next.pc \in {"inc_count", "save_request"}
    BY <1>2, <2>1 DEF InsertWay, Keeps
  <2> HIDE DEF doc
  <2>4. docs' = Append(docs, doc)
    BY <2>1 DEF doc
  <2> QED BY <1>2, <2>2, <2>3, <2>4
<1>3. CASE Job.kind \in DeviceWideKinds
  <2>1. /\ docs' = Append(docs, WideDoc(Job))
        /\ next = Idle \/ (Keeps(Job, next) /\ next.pc = "inc_count")
    BY <1>0, <1>3, OneNext, InsertWideIs
  <2> DEFINE doc == WideDoc(Job)
  <2>2. /\ doc \in DocType /\ doc.dev = Job.dev /\ doc.dep = Job.dep /\ ~doc.deleted
        /\ doc.request = NoRequest /\ ~doc.active
        /\ doc.status \in {"aborted", "decommissioned"}
    BY <1>1 DEF WideDoc, WideStatus, DocType, Statuses, FinishedStatuses
  <2>3. next.kind # "poll" /\ next.pc \in {"idle", "inc_count"}
    BY <1>3, <2>1 DEF Keeps, Idle, DeviceWideKinds
  <2> HIDE DEF doc
  <2>4. docs' = Append(docs, doc)
    BY <2>1 DEF doc
  <2> QED BY <1>3, <2>2, <2>3, <2>4
<1>4. Job.kind = "poll" \/ Job.kind \in DeviceWideKinds
  BY <1>0 DEF Prepared, Proper, Routine, ReportPCs, AfterPCs, AbortPCs
<1> QED BY <1>2, <1>3, <1>4

\* A document put at the end of the collection.
LEMMA DocAppended ==
    ASSUME IInv, NEW doc, docs' = Append(docs, doc)
    PROVE  /\ Len(docs) \in Nat /\ DOMAIN docs = 1..Len(docs)
           /\ DOMAIN docs' = 1..(Len(docs) + 1)
           /\ docs'[Len(docs) + 1] = doc
           /\ \A i \in DOMAIN docs : docs'[i] = docs[i]
<1>1. docs \in Seq(DocType)
  BY DEF IInv, TypeOK
<1> QED BY <1>1

\* The store after an insertion: the device had only older deployments, all over.
LEMMA InsertStore ==
    ASSUME Serial, SerialInv, Step(Server), InsertDeviceDeployment(Server),
           NEW next, Continue(Server, next)
    PROVE  Store' /\ Prepared(Job)'
<1>0. /\ IInv /\ Server \in Workers /\ Job = workers[Server] /\ Job' = next
      /\ JobOK(Job) /\ Prepared(Job) /\ Job.pc = "insert" /\ Store
      /\ UNCHANGED deployments
  BY SerialFacts, JobAfter DEF SerialInv, InsertDeviceDeployment, At
<1>1. PICK doc \in DocType :
        /\ docs' = Append(docs, doc) /\ doc.dev = Job.dev /\ doc.dep = Job.dep
        /\ ~doc.deleted /\ doc.request = NoRequest
        /\ doc.active => doc.status = "pending" /\ Job.kind = "poll"
        /\ \/ Job.kind = "poll" /\ next.kind = "poll" /\ next.doc = Len(docs) + 1 /\ doc.active
                /\ next.pc \in {"inc_count", "save_request"}
           \/ ~doc.active /\ next.kind # "poll" /\ next.pc \in {"idle", "inc_count"}
                /\ Job.kind \in DeviceWideKinds
                /\ doc.status \in {"aborted", "decommissioned"}
  BY InsertedIs
<1> DEFINE last == Len(docs) + 1
<1>2. /\ last \in Nat /\ last - 1 \in Nat /\ DOMAIN docs = 1..(last - 1) /\ DOMAIN docs' = 1..last
      /\ docs'[last] = doc /\ \A i \in DOMAIN docs : docs'[i] = docs[i]
  BY <1>0, <1>1, DocAppended
<1>3. next.doc = last \/ next.kind # "poll"
  BY <1>1
<1> HIDE DEF last
<1>4. /\ Job.dep \in Deployments /\ Job.dep \in Nat /\ Stored(Job.dep)
      /\ Job.dev \in Listed(Job.dep) /\ OverUpTo(Job.dev, Job.dep - 1)
  <2>1. Job.dep \in Deployments
    BY <1>0 DEF JobOK
  <2> QED BY <1>0, <2>1, NumDeploymentsAssumption DEF Prepared, Refers, Searching, Deployments
<1>5. \A i \in DOMAIN docs : docs[i].dev = Job.dev => ~docs[i].active /\ docs[i].dep < Job.dep
  <2>1. \A i \in DOMAIN docs : docs[i].dep \in Nat
    BY <1>0, DocTyped, NumDeploymentsAssumption DEF IInv, Deployments
  <2> QED BY <1>4, <2>1 DEF OverUpTo
<1>6. \A i \in DOMAIN docs' : i = last \/ i \in DOMAIN docs
  BY <1>2
<1>8. AllListed'
  <2> SUFFICES ASSUME NEW i \in DOMAIN docs'
               PROVE  ~docs'[i].deleted /\ docs'[i].dev \in Listed(docs'[i].dep)
    BY <1>0 DEF AllListed, Listed
  <2>1. CASE i = last
    BY <1>1, <1>2, <1>4, <2>1
  <2>2. CASE i \in DOMAIN docs
    <3>1. ~docs[i].deleted /\ docs[i].dev \in Listed(docs[i].dep)
      BY <1>0, <2>2 DEF Store, AllListed
    <3> QED BY <1>2, <2>2, <3>1
  <2> QED BY <1>6, <2>1, <2>2
<1>9. DeliveredInOrder'
  <2> SUFFICES ASSUME NEW i \in DOMAIN docs', NEW j \in DOMAIN docs', i < j,
                      docs'[i].dev = docs'[j].dev
               PROVE  docs'[i].dep < docs'[j].dep
    BY DEF DeliveredInOrder
  <2>1. i \in DOMAIN docs
    BY <1>2
  <2>2. CASE j = last
    BY <1>1, <1>2, <1>5, <2>1, <2>2
  <2>3. CASE j \in DOMAIN docs
    BY <1>0, <1>2, <2>1, <2>3 DEF Store, DeliveredInOrder
  <2> QED BY <1>6, <2>2, <2>3
<1>10. \A i \in DOMAIN docs' : deployments'[docs'[i].dep].stage = "stored"
  BY <1>0, <1>1, <1>2, <1>4, <1>6 DEF Store, Stored
<1>11. ASSUME NEW i \in DOMAIN docs', docs'[i].active
       PROVE  /\ \A j \in DOMAIN docs' : docs'[j].dev = docs'[i].dev => j <= i
              /\ docs'[i].request = NoRequest =>
                   /\ next.kind = "poll" /\ next.pc \in {"inc_count", "save_request"}
                   /\ next.doc = i /\ docs'[i].status = "pending"
  <2>1. CASE i = last
    BY <1>1, <1>2, <1>3, <1>11, <2>1
  <2>2. CASE i \in DOMAIN docs
    <3>1. ActiveLast(i) /\ docs[i].active
      BY <1>0, <1>2, <1>11, <2>2 DEF Store
    <3>2. docs[i].dev # Job.dev /\ docs[i].request # NoRequest
      BY <1>0, <1>5, <2>2, <3>1 DEF ActiveLast, Held
    <3> QED BY <1>1, <1>2, <1>6, <2>2, <3>1, <3>2 DEF ActiveLast
  <2> QED BY <1>6, <2>1, <2>2
<1>12. next.kind = "poll" => docs'[next.doc].active
  BY <1>1, <1>2, <1>3
<1>13. Store'
  BY <1>0, <1>8, <1>9, <1>10, <1>11, <1>12 DEF Store, Stored, ActiveLast, Held
<1>14. Prepared(Job)'
  <2>1. /\ Proper(next) /\ Refers(next) /\ Worked(next)
        /\ next.kind \in DeviceWideKinds => next.pc \notin AfterPCs \union {"update_status"}
    <3>1. CASE Job.kind = "poll"
      <4>1. Prepared(next) /\ (next = Idle \/ next.kind = Job.kind)
        BY <3>1, DeviceAhead DEF DeviceKinds
      <4> QED BY <3>1, <4>1 DEF Prepared, Worked, Idle, DeviceWideKinds
    <3>2. CASE Job.kind \in DeviceWideKinds
      BY <1>1, <3>2, WideAhead DEF AfterPCs
    <3> QED BY <1>1, <3>1, <3>2
  <2>2. next.pc \in {"idle", "inc_count", "save_request"}
    BY <1>1
  <2>3. Refers(next)'
    BY <1>0, <2>1 DEF Refers, Stored
  <2>4. next.pc \in WorkPCs => next.dep \in Deployments /\ ~deployments'[next.dep].finished
    BY <1>0, <2>1 DEF Worked
  <2> QED BY <1>0, <2>1, <2>2, <2>3, <2>4 DEF Prepared, Proper, Routine, Refers, Searching, AfterPCs
<1> QED BY <1>13, <1>14

\* The store and what the request has made sure of, after any step.
LEMMA StepStore ==
    ASSUME Serial, SerialInv, [Next]_vars, Step(Server), NEW next, Continue(Server, next)
    PROVE  Store' /\ Prepared(Job)'
<1>1. CASE InsertDeviceDeployment(Server)
  BY <1>1, InsertStore
<1>2. CASE ~InsertDeviceDeployment(Server)
  BY <1>2, DocsSteady, StepHolds, StoreStays, StepPrepared
<1> QED BY <1>1, <1>2

---------------------------------------------------------------------------
(* One request at a time: what devices rely on.                             *)

\* What a device carries out stays open when no device's request is in flight: an
\* operator's request ends it as "aborted" or "decommissioned" at most.
LEMMA ElseHonest ==
    ASSUME Serial, SerialInv, NEW next, Continue(Server, next), Job.kind \notin DeviceKinds,
           next.kind \in DeviceKinds => Sure(next)',
           \A dev \in Devices : devices'[dev].dep = devices[dev].dep,
           \A i \in DOMAIN docs :
             /\ i \in DOMAIN docs' /\ docs'[i].dev = docs[i].dev /\ docs'[i].dep = docs[i].dep
             /\ docs'[i].request = docs[i].request /\ docs'[i].image = docs[i].image
             /\ \/ docs'[i].status = docs[i].status
                \/ docs'[i].status \in {"aborted", "decommissioned"}
    PROVE  Honest'
<1>0. /\ IInv /\ Server \in Workers /\ Job = workers[Server]
      /\ \A w \in Workers : w = Server
      /\ \A w \in Workers : workers'[w] = next
      /\ \A dev \in Devices : Carrying(dev)
  BY SerialFacts, JobAfter DEF SerialInv, Honest
<1>1. \A w \in Workers : workers'[w].kind \in DeviceKinds => Sure(workers[w])'
  BY <1>0 DEF Sure, Fresh, Fits, Given, DocsOf
<1>2. ASSUME NEW dev \in Devices PROVE Carrying(dev)'
  <2> SUFFICES ASSUME devices'[dev].dep # 0 PROVE Carrying(dev)'
    BY DEF Carrying
  <2>1. ~Closing(dev, devices[dev].dep)
    BY <1>0 DEF Closing
  <2>2. PICK i \in DocsOf(dev, devices[dev].dep) : Given(i) /\ docs[i].status \in OpenStatuses
    BY <1>0, <2>1 DEF Carrying
  <2>3. i \in DOMAIN docs
    BY DEF DocsOf
  <2>4. i \in DocsOf(dev, devices[dev].dep)'
    BY <2>3 DEF DocsOf
  <2>5. Given(i)'
    BY <2>2, <2>3 DEF Given, Fits
  <2>6. docs'[i].status \in OpenStatuses
    BY <2>2, <2>3 DEF OpenStatuses
  <2> QED BY <2>4, <2>5, <2>6 DEF Carrying
<1> QED BY <1>1, <1>2 DEF Honest

\* The write of a status touches nothing else of a device deployment.
LEMMA UpdateWrites ==
    ASSUME Serial, SerialInv, Job.kind \in DeviceWideKinds, UpdateStatus(Server)
    PROVE  \A i \in DOMAIN docs :
             /\ i \in DOMAIN docs' /\ docs'[i].dev = docs[i].dev /\ docs'[i].dep = docs[i].dep
             /\ docs'[i].request = docs[i].request /\ docs'[i].image = docs[i].image
             /\ \/ docs'[i].status = docs[i].status
                \/ docs'[i].status \in {"aborted", "decommissioned"}
<1>0. /\ docs \in Seq(DocType) /\ (\A i \in DOMAIN docs : docs[i] \in DocType)
      /\ IInv /\ Server \in Workers /\ Job = workers[Server] /\ Job.pc = "update_status"
  BY SerialFacts, DocTyped DEF IInv, TypeOK, UpdateStatus, At
<1>1. PICK next : Continue(Server, next)
  BY DEF UpdateStatus
<1>2. PICK i \in DOMAIN docs :
        docs' = [docs EXCEPT ![i].status = Job.new, ![i].active = Active(Job.new)]
  BY <1>1, UpdateWorked
<1>3. Job.new \in {"aborted", "decommissioned"}
  BY <1>0 DEF SerialInv, Prepared
<1>4. DOMAIN docs' = DOMAIN docs /\ \A j \in DOMAIN docs \ {i} : docs'[j] = docs[j]
  BY <1>0, <1>2
<1>5. /\ docs'[i].dev = docs[i].dev /\ docs'[i].dep = docs[i].dep
      /\ docs'[i].request = docs[i].request /\ docs'[i].image = docs[i].image
      /\ docs'[i].status = Job.new
  BY <1>0, <1>2 DEF DocType
<1> QED BY <1>3, <1>4, <1>5

\* Every step keeps what devices rely on.
LEMMA StepHonest ==
    ASSUME Serial, SerialInv, Step(Server), NEW next, Continue(Server, next)
    PROVE  Honest'
<1>0. /\ IInv /\ Server \in Workers /\ Job = workers[Server] /\ AInv /\ Orderly /\ Honest
      /\ Proper(Job)
  BY SerialFacts DEF SerialInv, Prepared
<1>1. CASE Job.kind \in DeviceKinds
  <2>1. Routine(Job)
    BY <1>1, SerialFacts DEF Ready
  <2> QED BY <1>0, <1>1, <2>1, DeviceStep, SearchHonest, CountHonest, InsertHonest,
             SaveRequestHonest, InstructionsHonest, UpdateHonest, RespondHonest
<1>2. CASE Job.kind = "abort"
  <2>1. Job.pc \in AbortPCs /\ Job.kind \notin DeviceKinds
    BY <1>2, AbortAhead DEF DeviceKinds
  <2> QED BY <1>0, <2>1, AbortHonest
<1>3. CASE Job.kind \in DeviceWideKinds
  <2>1. Job.kind \notin DeviceKinds /\ next.kind \notin DeviceKinds
    BY <1>3, WideAhead DEF DeviceKinds, DeviceWideKinds, Idle
  <2>2. Job.pc \in WidePCs
    BY <1>0, <1>3 DEF Proper, Routine, DeviceWideKinds
  <2>3. UNCHANGED devices
    BY <1>0, <1>3, <2>2, WideStep
  <2>4. \A i \in DOMAIN docs :
          /\ i \in DOMAIN docs' /\ docs'[i].dev = docs[i].dev /\ docs'[i].dep = docs[i].dep
          /\ docs'[i].request = docs[i].request /\ docs'[i].image = docs[i].image
          /\ \/ docs'[i].status = docs[i].status
             \/ docs'[i].status \in {"aborted", "decommissioned"}
    <3>1. CASE UpdateStatus(Server)
      BY <1>3, <3>1, UpdateWrites
    <3>2. CASE InsertDeviceDeployment(Server)
      <4>1. PICK doc : docs' = Append(docs, doc)
        BY <3>2, InsertedIs
      <4> QED BY <1>0, <4>1, DocAppended
    <3>3. CASE ~UpdateStatus(Server) /\ ~InsertDeviceDeployment(Server)
      <4>1. UNCHANGED docs
        BY <1>0, <1>3, <2>2, <3>3, WideStep DEF FindActive, FindInactive, FindNewer, FindExisting,
           IncrementDeviceCount, FindDeployment, UpdateStatsInc, SetStatus, SaveLastStatus, ReadOnly
      <4> QED BY <4>1
    <3> QED BY <3>1, <3>2, <3>3
  <2> QED BY <2>1, <2>3, <2>4, ElseHonest
<1> QED BY <1>1, <1>2, <1>3, IdleRests
---------------------------------------------------------------------------
(* One request at a time: the counters.                                     *)

\* Where a request is about to write the counters or the end of a deployment.
LedgerPCs == {"find_deployment", "inc_stats", "set_status", "aggregate", "update_stats", "finish"}

\* The steps that lead there, and those from there.
LedgerStep ==
    \/ UpdateStatus(Server) \/ FindDeployment(Server) \/ UpdateStatsInc(Server)
    \/ SetStatus(Server) \/ AbortDocs(Server) \/ Aggregate(Server)
    \/ UpdateStats(Server) \/ Finish(Server)

\* The step an abort takes is that of its operation.
LEMMA AbortStep ==
    ASSUME NEW w \in Workers, Step(w), workers[w].pc \in AbortPCs
    PROVE  \/ CheckFinished(w) \/ AbortDocs(w) \/ Aggregate(w) \/ UpdateStats(w) \/ Finish(w)
BY DEF AbortPCs, Step, Respond, FindActive, FindInactive, FindNewer, FindExisting,
   InsertDeviceDeployment, IncrementDeviceCount, SaveRequest, Instructions,
   IncrementTotalSize, GetDeviceDeployment, UpdateStatus, FindDeployment, UpdateStatsInc,
   SetStatus, SaveLastStatus, CheckFinished, AbortDocs, Aggregate, UpdateStats, Finish,
   GetHistory, MarkDeleted, DeleteLast, At

\* An update for a whole device gets there by the write of a status, on its deployment.
LEMMA WideLeads ==
    ASSUME Serial, SerialInv, Job.kind \in DeviceWideKinds, Step(Server),
           NEW next, Continue(Server, next)
    PROVE  next.pc \in LedgerPCs => next.dep = Job.dep /\ LedgerStep
<1>0. /\ AInv /\ IInv /\ Server \in Workers /\ Job = workers[Server] /\ Job \in WorkerType
      /\ Prepared(Job)
  BY SerialFacts DEF SerialInv
<1>a. \A other : Continue(Server, other) => next = other
  BY <1>0, OneNext
<1>b. Job.pc \in WidePCs
  <2>1. Job.kind \notin {"none", "poll", "report", "abort"}
    BY DEF DeviceWideKinds
  <2> QED BY <1>0, <2>1 DEF Prepared, Proper, Routine
<1>c. Idle.pc \notin LedgerPCs
  BY DEF Idle, LedgerPCs
<1>1. CASE FindActive(Server)
  <2>1. FindActiveWide(Job, next)
    BY <1>0, <1>1, <1>a, FindActiveWideIs
  <2> QED BY <2>1 DEF FindActiveWide, LedgerPCs
<1>2. CASE FindInactive(Server)
  <2>1. FindInactiveWay(Job, next)
    BY <1>0, <1>2, <1>a, FindInactiveIs
  <2> QED BY <2>1 DEF FindInactiveWay, LedgerPCs
<1>3. CASE FindNewer(Server)
  <2>1. FindNewerWide(Job, next)
    BY <1>0, <1>3, <1>a, FindNewerWideIs
  <2> QED BY <1>c, <2>1 DEF FindNewerWide, LedgerPCs
<1>4. CASE FindExisting(Server)
  <2>1. FindExistingWay(Job, next)
    BY <1>0, <1>4, <1>a, FindExistingIs
  <2> QED BY <2>1 DEF FindExistingWay, LedgerPCs
<1>5. CASE InsertDeviceDeployment(Server)
  <2>1. next = Idle \/ next.pc = "inc_count"
    BY <1>0, <1>5, <1>a, InsertWideIs
  <2> QED BY <1>c, <2>1 DEF LedgerPCs
<1>6. CASE IncrementDeviceCount(Server)
  <2>1. next = Idle
    BY <1>0, <1>6, <1>a, CountWideIs
  <2> QED BY <1>c, <2>1
<1>7. CASE UpdateStatus(Server)
  BY <1>7, UpdateWorked DEF Keeps, LedgerStep
<1>8. CASE FindDeployment(Server)
  <2>1. FindDeploymentWay(Job, next)
    BY <1>0, <1>8, <1>a, FindDeploymentIs
  <2> QED BY <1>8, <2>1 DEF FindDeploymentWay, Keeps, LedgerStep
<1>9. CASE UpdateStatsInc(Server)
  <2>1. Job.pc = "inc_stats"
    BY <1>0, <1>9 DEF UpdateStatsInc, At
  <2>2. Job.new \in {"aborted", "decommissioned"}
    BY <1>0, <2>1 DEF Prepared, AfterPCs
  <2>3. IncWide(Job, next)
    BY <1>0, <1>9, <1>a, <2>2, IncWideIs
  <2> QED BY <1>9, <2>3 DEF IncWide, Keeps, LedgerStep
<1>10. CASE SetStatus(Server)
  BY <1>10, SetStatusLeads DEF LedgerPCs
<1>11. CASE SaveLastStatus(Server)
  <2>1. Continue(Server, AfterUpdate(Job))
    BY <1>0, <1>11 DEF SaveLastStatus
  <2>2. LooksOn(Job, next)
    BY <1>0, <1>a, <2>1, WideAfterUpdate
  <2> QED BY <2>2 DEF LooksOn, LedgerPCs
<1> QED
  BY <1>0, <1>b, <1>1, <1>2, <1>3, <1>4, <1>5, <1>6, <1>7, <1>8, <1>9, <1>10, <1>11, WideStep

\* So does an update of a device.
LEMMA DeviceLeads ==
    ASSUME Serial, SerialInv, Job.kind \in DeviceKinds, Step(Server),
           NEW next, Continue(Server, next)
    PROVE  next.pc \in LedgerPCs => next.dep = Job.dep /\ LedgerStep
<1>0. IInv /\ Ready /\ Server \in Workers /\ Job = workers[Server]
  BY SerialFacts
<1>a. \A other : Continue(Server, other) => next = other
  BY <1>0, OneNext
<1>1. Routine(next) /\ Came(Server, next.pc) /\ (next = Idle \/ next.kind = Job.kind)
  BY <1>0, <1>a, DeviceGoesOn
<1>2. next.pc \in LedgerPCs => next.pc \in {"find_deployment", "inc_stats", "set_status"}
  BY <1>1 DEF Routine, PollPCs, ReportPCs, DevicePCs, AfterPCs, LedgerPCs, DeviceKinds, Idle
<1>3. CASE next.pc = "find_deployment"
  <2>1. UpdateStatus(Server)
    BY <1>1, <1>3 DEF Came
  <2> QED BY <2>1, UpdateWorked DEF Keeps, LedgerStep
<1>4. CASE next.pc = "inc_stats"
  <2>1. FindDeployment(Server)
    BY <1>1, <1>4 DEF Came
  <2>2. FindDeploymentWay(Job, next)
    BY <1>0, <1>a, <2>1, FindDeploymentIs
  <2> QED BY <2>1, <2>2 DEF FindDeploymentWay, Keeps, LedgerStep
<1>5. CASE next.pc = "set_status"
  <2>1. UpdateStatsInc(Server)
    BY <1>1, <1>5 DEF Came
  <2>2. IncWay(Job, next)
    BY <1>0, <1>a, <2>1, IncIs
  <2>3. Keeps(Job, next)
    BY <2>2 DEF IncWay, Passed, Over, Answered
  <2> QED BY <2>1, <2>3 DEF Keeps, LedgerStep
<1> QED BY <1>2, <1>3, <1>4, <1>5

\* And an abort.
LEMMA AbortLeads ==
    ASSUME Serial, SerialInv, Job.kind = "abort", Step(Server),
           NEW next, Continue(Server, next)
    PROVE  next.pc \in LedgerPCs => next.dep = Job.dep /\ LedgerStep
<1>0. IInv /\ Server \in Workers /\ Job = workers[Server] /\ Job \in WorkerType
  BY SerialFacts
<1>a. \A other : Continue(Server, other) => next = other
  BY <1>0, OneNext
<1>1. Job.pc \in AbortPCs
  BY AbortAhead
<1>2. AbortWay(Job, next)
  BY <1>0, <1>1, <1>a, AbortIs
<1>3. next.pc \in LedgerPCs => next.dep = Job.dep
  BY <1>2 DEF AbortWay, Idle, LedgerPCs
<1>4. CASE CheckFinished(Server)
  <2>1. \/ Continue(Server, Idle)
        \/ Continue(Server, [Job EXCEPT !.pc = "abort_docs"])
    BY <1>0, <1>4 DEF CheckFinished
  <2>2. next = Idle \/ next = [Job EXCEPT !.pc = "abort_docs"]
    BY <1>a, <2>1
  <2>3. [Job EXCEPT !.pc = "abort_docs"].pc = "abort_docs"
    BY <1>0 DEF WorkerType
  <2>4. next.pc = "idle" \/ next.pc = "abort_docs"
    <3>1. Idle.pc = "idle"
      BY DEF Idle
    <3> QED BY <2>2, <2>3, <3>1
  <2> QED BY <2>4 DEF LedgerPCs
<1>5. CASE AbortDocs(Server) \/ Aggregate(Server) \/ UpdateStats(Server) \/ Finish(Server)
  BY <1>3, <1>5 DEF LedgerStep
<1> QED BY <1>0, <1>1, <1>4, <1>5, AbortStep

\* So the requests about to write a ledger have come there on their deployment.
LEMMA LedgerLeads ==
    ASSUME Serial, SerialInv, Step(Server), NEW next, Continue(Server, next)
    PROVE  next.pc \in LedgerPCs => next.dep = Job.dep /\ LedgerStep
BY IdleRests, DeviceLeads, WideLeads, AbortLeads

\* To a deployment the store looks the same: no device deployment comes into it, and those
\* in it keep their status and stay asked for, or not.
Alike(d) ==
    /\ \A i \in DOMAIN docs :
         /\ i \in DOMAIN docs' /\ docs'[i].dep = docs[i].dep
         /\ docs[i].dep = d =>
              /\ docs'[i].status = docs[i].status
              /\ docs'[i].request = NoRequest <=> docs[i].request = NoRequest
              /\ docs'[i].active => docs[i].active
    /\ \A i \in DOMAIN docs' \ DOMAIN docs : docs'[i].dep # d

\* So do the sets of device deployments its counters are about.
LEMMA AlikeSame ==
    ASSUME NEW d, Alike(d)
    PROVE  /\ InDeployment(d)' = InDeployment(d) /\ Taken(d)' = Taken(d)
           /\ \A st : InStatus(d, st)' = InStatus(d, st) /\ TakenIn(d, st)' = TakenIn(d, st)
           /\ AllOver(d) => AllOver(d)'
<1>1. InDeployment(d)' = InDeployment(d)
  BY DEF Alike, InDeployment
<1>2. Taken(d)' = Taken(d)
  BY <1>1 DEF Alike, Taken, InDeployment
<1>3. ASSUME NEW st
      PROVE  InStatus(d, st)' = InStatus(d, st) /\ TakenIn(d, st)' = TakenIn(d, st)
  <2>1. InStatus(d, st)' = InStatus(d, st)
    BY <1>1 DEF Alike, InStatus, InDeployment
  <2>2. TakenIn(d, st)' = TakenIn(d, st)
    BY <1>2 DEF Alike, TakenIn, Taken, InDeployment
  <2> QED BY <2>1, <2>2
<1>4. AllOver(d) => AllOver(d)'
  BY <1>1 DEF Alike, AllOver, InDeployment
<1> QED BY <1>1, <1>2, <1>3, <1>4

\* A deployment keeps its list and how far it has come.
DeploymentStays(d) ==
    /\ deployments'[d].stage = deployments[d].stage /\ deployments'[d].list = deployments[d].list
    /\ deployments'[d].finished = deployments[d].finished
    /\ deployments'[d].active = deployments[d].active

\* What the counters come to, when all the sets are the same ones.
LEMMA TallySame ==
    ASSUME NEW d, Taken(d)' = Taken(d), \A st : TakenIn(d, st)' = TakenIn(d, st),
           deployments'[d].list = deployments[d].list
    PROVE  Tally(d)' = Tally(d)
BY DEF Tally, MaxDevices

\* The ledger of a deployment the step has nothing to do with.
LEMMA LedgerStays ==
    ASSUME NEW d \in Deployments, Ledger(d), Alike(d), DeploymentStays(d),
           deployments'[d].stats = deployments[d].stats,
           NEW next, Job' = next,
           Job.dep = d => Job.pc \notin LedgerPCs,
           next.dep = d => next.pc \notin LedgerPCs
    PROVE  Ledger(d)'
<1>1. /\ Tally(d)' = Tally(d) /\ (AllOver(d) => AllOver(d)')
      /\ Exact(d)' <=> Exact(d)
  BY AlikeSame, TallySame DEF DeploymentStays, Exact
<1>2. StatsToBe(d) = deployments[d].stats /\ ~Aborting(d)
  BY DEF StatsToBe, Aborting, LedgerPCs
<1>3. StatsToBe(d)' = deployments'[d].stats /\ ~Aborting(d)'
  BY DEF StatsToBe, Aborting, LedgerPCs
<1>4. /\ ~(Job.dep = d /\ Job.pc = "update_stats")'
      /\ ~(Job.dep = d /\ Job.pc = "finish")'
      /\ ~(Job.dep = d /\ Job.pc = "set_status" /\ Job.overall = "finished")'
  BY DEF LedgerPCs
<1>5. (deployments[d].finished => Stored(d) /\ Exact(d) /\ AllOver(d) /\ ~deployments[d].active)'
  BY <1>1 DEF Ledger, DeploymentStays, Stored
<1>6. (deployments[d].stage # "none" /\ ~deployments[d].finished /\ ~Aborting(d) =>
         StatsToBe(d) = Tally(d))'
  BY <1>1, <1>2, <1>3 DEF Ledger, DeploymentStays
<1> QED BY <1>3, <1>4, <1>5, <1>6 DEF Ledger

\* To the deployments but the one of the request a step leaves the store as it is; to that
\* one as well, unless it writes to it.
LEMMA StepAlike ==
    ASSUME Serial, SerialInv, Step(Server), NEW next, Continue(Server, next),
           NEW d \in Deployments,
           \/ d # Job.dep
           \/ /\ ~InsertDeviceDeployment(Server) /\ ~UpdateStatus(Server) /\ ~AbortDocs(Server)
              /\ ~(SaveRequest(Server) /\ Job.cur_req = NoRequest)
    PROVE  Alike(d)
<1>0. /\ IInv /\ Server \in Workers /\ Job = workers[Server] /\ Job \in WorkerType
      /\ DOMAIN docs = 1..Len(docs)
  BY SerialFacts DEF IInv, TypeOK
<1>1. CASE UNCHANGED docs
  BY <1>1 DEF Alike
<1>2. CASE InsertDeviceDeployment(Server)
  <2>1. PICK doc \in DocType : docs' = Append(docs, doc) /\ doc.dep = Job.dep
    BY <1>2, InsertedIs
  <2>2. /\ DOMAIN docs' = 1..(Len(docs) + 1) /\ docs'[Len(docs) + 1] = doc /\ Len(docs) \in Nat
        /\ \A i \in DOMAIN docs : docs'[i] = docs[i]
    BY <1>0, <2>1, DocAppended
  <2>3. d # Job.dep
    BY <1>2
  <2>4. \A i \in DOMAIN docs' \ DOMAIN docs : i = Len(docs) + 1
    BY <1>0, <2>2
  <2>5. DOMAIN docs \subseteq DOMAIN docs'
    BY <1>0, <2>2
  <2> QED BY <2>1, <2>2, <2>3, <2>4, <2>5 DEF Alike
<1>3. ASSUME UpdateStatus(Server), NEW i \in DOMAIN docs, Target(Job, i),
             docs' = [docs EXCEPT ![i].status = Job.new, ![i].active = Active(Job.new)]
      PROVE  Alike(d)
  <2>1. docs[i].dep # d
    BY <1>3 DEF Target, DocsOf
  <2>2. /\ DOMAIN docs' = DOMAIN docs
        /\ \A k \in DOMAIN docs : k # i => docs'[k] = docs[k]
    BY <1>3
  <2>3. docs'[i].dep = docs[i].dep
    BY <1>0, <1>3, DocTyped DEF IInv, DocType
  <2> QED BY <2>1, <2>2, <2>3 DEF Alike
<1>4. CASE AbortDocs(Server)
  <2>1. docs' = [i \in DOMAIN docs |->
                   IF docs[i].dep = Job.dep /\ docs[i].active /\ ~docs[i].deleted
                   THEN [docs[i] EXCEPT !.status = "aborted", !.active = FALSE]
                   ELSE docs[i]]
    BY <1>0, <1>4 DEF AbortDocs
  <2>2. d # Job.dep /\ DOMAIN docs' = DOMAIN docs
    BY <1>4, <2>1
  <2>3. \A i \in DOMAIN docs : docs[i].dep = d => docs'[i] = docs[i]
    BY <2>1, <2>2
  <2>4. \A i \in DOMAIN docs : docs'[i].dep = docs[i].dep
    <3> SUFFICES ASSUME NEW i \in DOMAIN docs PROVE docs'[i].dep = docs[i].dep
      OBVIOUS
    <3>1. docs[i] \in DocType
      BY <1>0, DocTyped DEF IInv
    <3>2. [docs[i] EXCEPT !.status = "aborted", !.active = FALSE].dep = docs[i].dep
      BY <3>1 DEF DocType
    <3> QED BY <2>1, <3>2
  <2> QED BY <2>2, <2>3, <2>4 DEF Alike
<1>5. ASSUME SaveRequest(Server), Job.kind = "poll", Job.cur_req = NoRequest,
             docs' = [docs EXCEPT ![Job.doc].request = Job.req]
      PROVE  Alike(d)
  <2>1. Job.pc = "save_request"
    BY <1>0, <1>5 DEF SaveRequest, At
  <2>2. Job.doc \in DOMAIN docs /\ docs[Job.doc].dep = Job.dep
    BY <1>5, <2>1, HeldIs DEF DocsOf
  <2>3. docs[Job.doc].dep # d
    BY <1>5, <2>2
  <2>4. /\ DOMAIN docs' = DOMAIN docs
        /\ \A k \in DOMAIN docs : k # Job.doc => docs'[k] = docs[k]
    BY <1>5
  <2>5. docs'[Job.doc].dep = docs[Job.doc].dep
    BY <1>0, <1>5, <2>2, DocTyped DEF IInv, DocType
  <2> QED BY <2>2, <2>3, <2>4, <2>5 DEF Alike
<1>6. ASSUME NEW i \in DOMAIN docs, docs' = [docs EXCEPT ![i].image = TRUE]
      PROVE  Alike(d)
  <2>1. /\ DOMAIN docs' = DOMAIN docs
        /\ \A k \in DOMAIN docs : k # i => docs'[k] = docs[k]
    BY <1>6
  <2>2. /\ docs'[i].dep = docs[i].dep /\ docs'[i].status = docs[i].status
        /\ docs'[i].request = docs[i].request /\ docs'[i].active = docs[i].active
    BY <1>0, <1>6, DocTyped DEF IInv, DocType
  <2> QED BY <2>1, <2>2 DEF Alike
<1> QED BY <1>1, <1>2, <1>3, <1>4, <1>5, <1>6, DocsMove

\* The ledger of a deployment the request is not on.
LEMMA ElsewhereLedger ==
    ASSUME Serial, SerialInv, Step(Server), NEW next, Continue(Server, next),
           NEW d \in Deployments, d # Job.dep
    PROVE  Ledger(d)'
<1>0. /\ IInv /\ Server \in Workers /\ Job = workers[Server] /\ Ledger(d)
  BY SerialFacts DEF SerialInv
<1>1. Job' = next
  BY <1>0, JobAfter
<1>2. deployments'[d] = deployments[d]
  BY <1>0, DeploymentKept
<1>3. next.dep = d => next.pc \notin LedgerPCs
  BY LedgerLeads
<1> QED BY <1>0, <1>1, <1>2, <1>3, StepAlike, LedgerStays DEF DeploymentStays

\* That of the one it is on, when it neither gives it a device nor writes to its ledger.
LEMMA QuietLedger ==
    ASSUME Serial, SerialInv, Step(Server), NEW next, Continue(Server, next),
           NEW d \in Deployments, Job.dep = d, ~LedgerStep, ~InsertDeviceDeployment(Server),
           ~(SaveRequest(Server) /\ Job.cur_req = NoRequest)
    PROVE  Ledger(d)'
<1>0. /\ IInv /\ Server \in Workers /\ Job = workers[Server] /\ Ledger(d)
  BY SerialFacts DEF SerialInv
<1>1. Job' = next
  BY <1>0, JobAfter
<1>2. DeploymentStays(d) /\ deployments'[d].stats = deployments[d].stats
  BY <1>0, DeploymentKept DEF DeploymentStays, LedgerStep
<1>3. next.pc \notin LedgerPCs
  BY LedgerLeads
<1>4. Job.pc \notin LedgerPCs
  BY <1>0 DEF LedgerPCs, LedgerStep, Step, Respond, FindActive, FindInactive, FindNewer,
     FindExisting, InsertDeviceDeployment, IncrementDeviceCount, SaveRequest, Instructions,
     IncrementTotalSize, GetDeviceDeployment, SaveLastStatus, CheckFinished,
     GetHistory, MarkDeleted, DeleteLast, At
<1>5. Alike(d)
  BY StepAlike DEF LedgerStep
<1> QED BY <1>0, <1>1, <1>2, <1>3, <1>4, <1>5, LedgerStays

\* The ledger of an unfinished deployment on which no abort is at its writes: the request
\* has what its counters will come to, and is to finish it only when they are exact.
LEMMA OpenLedger ==
    ASSUME NEW d \in Deployments, NEW next, Job' = next,
           ~deployments'[d].finished,
           deployments'[d].stage # "none" => StatsToBe(d)' = Tally(d)',
           next.dep = d => next.pc \notin {"aggregate", "update_stats", "finish"},
           next.dep = d /\ next.pc = "set_status" /\ next.overall = "finished" =>
             Exact(d)' /\ AllOver(d)'
    PROVE  Ledger(d)'
BY DEF Ledger, Aborting

\* All the sets the counters are compared with are finite.
LEMMA TakenFinite ==
    ASSUME IInv, NEW d
    PROVE  /\ IsFiniteSet(InDeployment(d)) /\ Cardinality(InDeployment(d)) \in Nat
           /\ IsFiniteSet(Taken(d)) /\ Cardinality(Taken(d)) \in Nat
           /\ Cardinality(Taken(d)) <= Cardinality(InDeployment(d))
           /\ \A st : IsFiniteSet(TakenIn(d, st)) /\ Cardinality(TakenIn(d, st)) \in Nat
<1>1. InDeployment(d) \subseteq DOMAIN docs /\ Taken(d) \subseteq InDeployment(d)
  BY DEF InDeployment, Taken
<1>2. \A st : TakenIn(d, st) \subseteq DOMAIN docs
  BY <1>1 DEF TakenIn
<1> QED BY <1>1, <1>2, DocsFinite, FS_Subset DEF IInv

\* A device that is inserted into a deployment is not in its counters yet.
LEMMA InsertLedger ==
    ASSUME Serial, SerialInv, Step(Server), InsertDeviceDeployment(Server),
           NEW next, Continue(Server, next), NEW d \in Deployments, Job.dep = d
    PROVE  Ledger(d)'
<1>0. /\ IInv /\ Server \in Workers /\ Job = workers[Server] /\ Job \in WorkerType /\ Ledger(d)
      /\ Prepared(Job)
  BY SerialFacts DEF SerialInv
<1>1. Job' = next
  BY <1>0, JobAfter
<1>2. Job.pc = "insert"
  BY <1>0 DEF InsertDeviceDeployment, At
<1>3. deployments' = deployments /\ ~deployments[d].finished
  BY <1>0, <1>2 DEF InsertDeviceDeployment, Prepared, WorkPCs
<1>4. PICK doc \in DocType :
        /\ docs' = Append(docs, doc) /\ doc.request = NoRequest
        /\ next.pc \in {"inc_count", "save_request", "idle"}
  BY InsertedIs
<1>5. /\ DOMAIN docs = 1..Len(docs) /\ DOMAIN docs' = 1..(Len(docs) + 1) /\ Len(docs) \in Nat
      /\ docs'[Len(docs) + 1] = doc /\ \A i \in DOMAIN docs : docs'[i] = docs[i]
  BY <1>0, <1>4, DocAppended
<1>6. Taken(d)' = Taken(d)
  <2>1. \A i \in DOMAIN docs' \ DOMAIN docs : docs'[i].request = NoRequest
    BY <1>4, <1>5
  <2>2. DOMAIN docs \subseteq DOMAIN docs'
    BY <1>5
  <2> QED BY <1>5, <2>1, <2>2 DEF Taken, InDeployment
<1>7. \A st : TakenIn(d, st)' = TakenIn(d, st)
  BY <1>5, <1>6 DEF TakenIn, Taken, InDeployment
<1>8. Tally(d)' = Tally(d)
  BY <1>3, <1>6, <1>7, TallySame
<1>9. StatsToBe(d)' = deployments[d].stats /\ StatsToBe(d) = deployments[d].stats /\ ~Aborting(d)
  BY <1>1, <1>2, <1>3, <1>4 DEF StatsToBe, Aborting
<1>10. deployments'[d].stage # "none" => StatsToBe(d)' = Tally(d)'
  BY <1>0, <1>3, <1>8, <1>9 DEF Ledger
<1> QED BY <1>1, <1>3, <1>4, <1>10, OpenLedger

\* When its device has asked for it, it counts as pending, as it did before.
LEMMA SaveLedger ==
    ASSUME Serial, SerialInv, Step(Server), SaveRequest(Server), Job.cur_req = NoRequest,
           NEW next, Continue(Server, next), NEW d \in Deployments, Job.dep = d
    PROVE  Ledger(d)'
<1>0. /\ IInv /\ Server \in Workers /\ Job = workers[Server] /\ Job \in WorkerType /\ Ledger(d)
      /\ Prepared(Job) /\ Proper(Job)
  BY SerialFacts DEF SerialInv, Prepared
<1>1. Job' = next
  BY <1>0, JobAfter
<1>2. Job.pc = "save_request"
  BY <1>0 DEF SaveRequest, At
<1>3. Job.kind = "poll"
  BY <1>0, <1>2 DEF Proper, Routine, WidePCs, AfterPCs, ReportPCs, AbortPCs
<1>4. deployments' = deployments /\ ~deployments[d].finished
  BY <1>0, <1>2 DEF SaveRequest, Prepared, WorkPCs
<1>5. /\ docs' = [docs EXCEPT ![Job.doc].request = Job.req]
      /\ Continue(Server, [Job EXCEPT !.pc = "instructions"])
  BY <1>0 DEF SaveRequest
<1>6. next.pc = "instructions"
  <2>1. next = [Job EXCEPT !.pc = "instructions"]
    BY <1>0, <1>5, OneNext
  <2> QED BY <1>0, <2>1 DEF WorkerType
<1> DEFINE i == Job.doc
<1>7. /\ i \in DOMAIN docs /\ docs[i].dep = d /\ docs[i].active /\ docs[i].request = NoRequest
      /\ Job.req # NoRequest
  BY <1>2, <1>3, HeldIs DEF DocsOf
<1>8. docs[i].status = "pending"
  BY <1>7 DEF SerialInv, Store, ActiveLast
<1> HIDE DEF i
<1>9. /\ DOMAIN docs' = DOMAIN docs /\ \A k \in DOMAIN docs : k # i => docs'[k] = docs[k]
      /\ docs'[i].dep = d /\ docs'[i].status = "pending" /\ docs'[i].request # NoRequest
  <2>1. docs[i] \in DocType
    BY <1>0, <1>7, DocTyped DEF IInv
  <2>2. docs' = [docs EXCEPT ![i] = [docs[i] EXCEPT !.request = Job.req]]
    BY <1>5, <1>7 DEF i
  <2>3. /\ [docs[i] EXCEPT !.request = Job.req].dep = docs[i].dep
        /\ [docs[i] EXCEPT !.request = Job.req].status = docs[i].status
        /\ [docs[i] EXCEPT !.request = Job.req].request = Job.req
    BY <2>1 DEF DocType
  <2> QED BY <1>7, <1>8, <2>2, <2>3
<1>10. Taken(d)' = Taken(d) \union {i} /\ i \notin Taken(d)
  BY <1>7, <1>9 DEF Taken, InDeployment
<1>11. TakenIn(d, "pending")' = TakenIn(d, "pending") \union {i} /\ i \notin TakenIn(d, "pending")
  BY <1>7, <1>9, <1>10 DEF TakenIn, Taken, InDeployment
<1>12. \A st : st # "pending" => TakenIn(d, st)' = TakenIn(d, st)
  BY <1>7, <1>8, <1>9, <1>10 DEF TakenIn, Taken, InDeployment
<1>13. /\ Cardinality(Taken(d)') = Cardinality(Taken(d)) + 1
       /\ Cardinality(TakenIn(d, "pending")') = Cardinality(TakenIn(d, "pending")) + 1
       /\ Cardinality(Taken(d)) \in Nat /\ Cardinality(TakenIn(d, "pending")) \in Nat
  BY <1>0, <1>10, <1>11, TakenFinite, OneMore
<1>14. MaxDevices(d)' = MaxDevices(d) /\ MaxDevices(d) \in Nat
  BY <1>0, <1>4, ListedBound DEF MaxDevices
<1>15. Tally(d)' = Tally(d)
  <2> DEFINE at(st) == Cardinality(TakenIn(d, st))
                         + (IF st = "pending" THEN MaxDevices(d) - Cardinality(Taken(d)) ELSE 0)
             next_at(st) == Cardinality(TakenIn(d, st)')
                         + (IF st = "pending" THEN MaxDevices(d)' - Cardinality(Taken(d)') ELSE 0)
  <2>1. \A st \in Statuses : next_at(st) = at(st)
    <3> SUFFICES ASSUME NEW st \in Statuses PROVE next_at(st) = at(st)
      OBVIOUS
    <3>1. CASE st = "pending"
      BY <1>13, <1>14, <3>1
    <3>2. CASE st # "pending"
      BY <1>12, <3>2
    <3> QED BY <3>1, <3>2
  <2>2. Tally(d) = [st \in Statuses |-> at(st)] /\ Tally(d)' = [st \in Statuses |-> next_at(st)]
    BY DEF Tally
  <2> HIDE DEF at, next_at
  <2> QED BY <2>1, <2>2
<1>16. StatsToBe(d)' = deployments[d].stats /\ StatsToBe(d) = deployments[d].stats /\ ~Aborting(d)
  BY <1>1, <1>2, <1>4, <1>6 DEF StatsToBe, Aborting
<1>17. deployments'[d].stage # "none" => StatsToBe(d)' = Tally(d)'
  BY <1>0, <1>4, <1>15, <1>16 DEF Ledger
<1> QED BY <1>1, <1>4, <1>6, <1>17, OpenLedger

\* The write of a status: the counters will be right once the request has moved them.
LEMMA UpdateLedger ==
    ASSUME Serial, SerialInv, Step(Server), UpdateStatus(Server),
           NEW next, Continue(Server, next), NEW d \in Deployments, Job.dep = d
    PROVE  Ledger(d)'
<1>0. /\ IInv /\ Server \in Workers /\ Job = workers[Server] /\ Job \in WorkerType /\ Ledger(d)
      /\ Prepared(Job) /\ JobOK(Job)
  BY SerialFacts DEF SerialInv
<1>1. Job' = next
  BY <1>0, JobAfter
<1>2. Job.pc = "update_status"
  BY <1>0 DEF UpdateStatus, At
<1>3. deployments' = deployments /\ ~deployments[d].finished
  BY <1>0, <1>2 DEF UpdateStatus, Prepared, WorkPCs
<1>4. next.dep = d /\ next.pc = "find_deployment" /\ next.new = Job.new
  BY UpdateWorked DEF Keeps
<1>5. PICK i \in DOMAIN docs :
        /\ Target(Job, i) /\ next.old = docs[i].status
        /\ docs' = [docs EXCEPT ![i].status = Job.new, ![i].active = Active(Job.new)]
  BY UpdateWorked
<1>a. PICK old, new : old = docs[i].status /\ new = Job.new
  OBVIOUS
<1>6. /\ docs[i].dep = d /\ docs[i].request # NoRequest /\ old # new
      /\ old \in Statuses /\ new \in Statuses /\ docs[i].status = old /\ Job.new = new
  BY <1>a, <1>0, <1>2, <1>5, DocTyped DEF Target, DocsOf, IInv, JobOK
<1>7. /\ DOMAIN docs' = DOMAIN docs /\ \A k \in DOMAIN docs : k # i => docs'[k] = docs[k]
      /\ docs'[i].dep = d /\ docs'[i].status = new /\ docs'[i].request # NoRequest
  <2>1. docs[i] \in DocType
    BY <1>0, <1>5, DocTyped DEF IInv
  <2>2. docs' = [docs EXCEPT ![i] = [docs[i] EXCEPT !.status = Job.new, !.active = Active(Job.new)]]
    BY <1>5
  <2>3. /\ [docs[i] EXCEPT !.status = Job.new, !.active = Active(Job.new)].dep = docs[i].dep
        /\ [docs[i] EXCEPT !.status = Job.new, !.active = Active(Job.new)].status = Job.new
        /\ [docs[i] EXCEPT !.status = Job.new, !.active = Active(Job.new)].request = docs[i].request
    BY <2>1 DEF DocType
  <2> QED BY <1>6, <2>2, <2>3
<1>8. Taken(d)' = Taken(d)
  BY <1>6, <1>7 DEF Taken, InDeployment
<1>9. TakenIn(d, old)' = TakenIn(d, old) \ {i} /\ i \in TakenIn(d, old)
  BY <1>6, <1>7, <1>8 DEF TakenIn, Taken, InDeployment
<1>10. TakenIn(d, new)' = TakenIn(d, new) \union {i} /\ i \notin TakenIn(d, new)
  BY <1>6, <1>7, <1>8 DEF TakenIn, Taken, InDeployment
<1>11. \A st : st # old /\ st # new => TakenIn(d, st)' = TakenIn(d, st)
  BY <1>6, <1>7, <1>8 DEF TakenIn, Taken, InDeployment
<1> DEFINE size(st) == Cardinality(TakenIn(d, st))
           size_next(st) == Cardinality(TakenIn(d, st)')
<1>12. /\ size_next(old) = size(old) - 1 /\ size_next(new) = size(new) + 1
       /\ \A st : st # old /\ st # new => size_next(st) = size(st)
       /\ \A st : size(st) \in Nat
  BY <1>0, <1>9, <1>10, <1>11, TakenFinite, OneMore, OneLess
<1> DEFINE rest == MaxDevices(d) - Cardinality(Taken(d))
<1>13. rest' = rest /\ rest \in Int
  BY <1>0, <1>3, <1>8, TakenFinite, ListedBound DEF MaxDevices
<1>14. /\ Tally(d) = [st \in Statuses |-> size(st) + (IF st = "pending" THEN rest ELSE 0)]
       /\ Tally(d)' = [st \in Statuses |-> size_next(st) + (IF st = "pending" THEN rest' ELSE 0)]
  BY DEF Tally
<1>15. Tally(d)' = StatsInc(Tally(d), old, new)
  <2> DEFINE moved == StatsInc(Tally(d), old, new)
  <2>1. /\ DOMAIN moved = Statuses /\ moved[old] = Tally(d)[old] - 1 /\ moved[new] = Tally(d)[new] + 1
        /\ \A st \in Statuses : st # old /\ st # new => moved[st] = Tally(d)[st]
    BY <1>6, <1>14 DEF StatsInc
  <2> HIDE DEF moved, size, size_next, rest
  <2>2. ASSUME NEW st \in Statuses PROVE Tally(d)'[st] = moved[st]
    <3>1. /\ Tally(d)[st] = size(st) + (IF st = "pending" THEN rest ELSE 0)
          /\ Tally(d)'[st] = size_next(st) + (IF st = "pending" THEN rest ELSE 0)
      BY <1>13, <1>14
    <3>2. CASE st = old
      BY <1>12, <1>13, <2>1, <3>1, <3>2
    <3>3. CASE st = new
      BY <1>12, <1>13, <2>1, <3>1, <3>3
    <3>4. CASE st # old /\ st # new
      BY <1>12, <2>1, <3>1, <3>4
    <3> QED BY <3>2, <3>3, <3>4
  <2>3. moved = [st \in Statuses |-> moved[st]]
    BY <2>1 DEF moved, StatsInc
  <2>4. Tally(d)' = [st \in Statuses |-> Tally(d)'[st]]
    BY <1>14
  <2>5. Tally(d)' = moved
    BY <2>2, <2>3, <2>4
  <2> QED BY <2>5 DEF moved
<1>16. StatsToBe(d)' = StatsInc(deployments[d].stats, old, new)
  BY <1>1, <1>3, <1>4, <1>5, <1>6 DEF StatsToBe, StatsAfter
<1>17. StatsToBe(d) = deployments[d].stats /\ ~Aborting(d)
  BY <1>2 DEF StatsToBe, Aborting
<1>18. deployments'[d].stage # "none" => StatsToBe(d)' = Tally(d)'
  BY <1>0, <1>3, <1>15, <1>16, <1>17 DEF Ledger
<1> QED BY <1>1, <1>3, <1>4, <1>18, OpenLedger

\* The copy of the deployment changes nothing.
LEMMA FindDeploymentLedger ==
    ASSUME Serial, SerialInv, Step(Server), FindDeployment(Server),
           NEW next, Continue(Server, next), NEW d \in Deployments, Job.dep = d
    PROVE  Ledger(d)'
<1>0. /\ IInv /\ Server \in Workers /\ Job = workers[Server] /\ Ledger(d) /\ Prepared(Job)
  BY SerialFacts DEF SerialInv
<1>1. Job' = next
  BY <1>0, JobAfter
<1>2. Job.pc = "find_deployment"
  BY <1>0 DEF FindDeployment, At
<1>3. UNCHANGED <<deployments, docs>> /\ ~deployments[d].finished
  BY <1>0, <1>2 DEF FindDeployment, ReadOnly, Prepared, WorkPCs
<1>4. FindDeploymentWay(Job, next)
  BY <1>0, OneNext, FindDeploymentIs
<1>5. next.dep = d /\ next.pc = "inc_stats" /\ next.new = Job.new /\ next.old = Job.old
  BY <1>4 DEF FindDeploymentWay, Keeps
<1>6. Alike(d)
  BY <1>3 DEF Alike
<1>7. Tally(d)' = Tally(d)
  BY <1>3, <1>6, AlikeSame, TallySame
<1>8. StatsToBe(d)' = StatsToBe(d) /\ ~Aborting(d)
  BY <1>1, <1>2, <1>3, <1>5 DEF StatsToBe, StatsAfter, Aborting
<1>9. deployments'[d].stage # "none" => StatsToBe(d)' = Tally(d)'
  BY <1>0, <1>3, <1>7, <1>8 DEF Ledger
<1> QED BY <1>1, <1>3, <1>5, <1>9, OpenLedger

\* The device deployments the counters are about that have an outcome, by outcome.
LEMMA TakenOutcomes ==
    ASSUME IInv, NEW d \in Deployments, NEW stats, stats = Tally(d)
    PROVE  CountedOutcomes(stats) = Cardinality({i \in Taken(d) : docs[i].status \in FinishedStatuses})
<1> DEFINE S == {i \in Taken(d) : docs[i].status \in FinishedStatuses}
           S1 == TakenIn(d, "already-installed")
           S2 == TakenIn(d, "success")
           S3 == TakenIn(d, "failure")
           S4 == TakenIn(d, "noartifact")
           S5 == TakenIn(d, "decommissioned")
           S6 == TakenIn(d, "aborted")
<1>1. \A st : IsFiniteSet(TakenIn(d, st)) /\ Cardinality(TakenIn(d, st)) \in Nat
  BY TakenFinite
<1>2. \A st, other : st # other => TakenIn(d, st) \cap TakenIn(d, other) = {}
  BY DEF TakenIn
<1>3. /\ S1 \cap S2 = {} /\ (S1 \union S2) \cap S3 = {} /\ (S1 \union S2 \union S3) \cap S4 = {}
      /\ (S1 \union S2 \union S3 \union S4) \cap S5 = {}
      /\ (S1 \union S2 \union S3 \union S4 \union S5) \cap S6 = {}
  BY <1>2
<1>4. S = S1 \union S2 \union S3 \union S4 \union S5 \union S6
  BY DEF TakenIn, FinishedStatuses
<1>a. /\ IsFiniteSet(S1) /\ IsFiniteSet(S2) /\ IsFiniteSet(S3) /\ IsFiniteSet(S4)
      /\ IsFiniteSet(S5) /\ IsFiniteSet(S6)
      /\ Cardinality(S1) \in Nat /\ Cardinality(S2) \in Nat /\ Cardinality(S3) \in Nat
      /\ Cardinality(S4) \in Nat /\ Cardinality(S5) \in Nat /\ Cardinality(S6) \in Nat
  BY <1>1
<1>b. /\ stats["already-installed"] = Cardinality(S1) /\ stats["success"] = Cardinality(S2)
      /\ stats["failure"] = Cardinality(S3) /\ stats["noartifact"] = Cardinality(S4)
      /\ stats["decommissioned"] = Cardinality(S5) /\ stats["aborted"] = Cardinality(S6)
  <2>1. \A st \in FinishedStatuses : st \in Statuses /\ st # "pending"
    BY DEF FinishedStatuses, Statuses, ActiveStatuses
  <2>2. \A st \in FinishedStatuses : stats[st] = Cardinality(TakenIn(d, st))
    BY <1>1, <2>1 DEF Tally
  <2> QED BY <2>2 DEF FinishedStatuses
<1> HIDE DEF S, S1, S2, S3, S4, S5, S6
<1>5. IsFiniteSet(S1 \union S2) /\ Cardinality(S1 \union S2) = Cardinality(S1) + Cardinality(S2)
  BY <1>a, <1>3, Disjoint
<1>6. /\ IsFiniteSet(S1 \union S2 \union S3)
      /\ Cardinality(S1 \union S2 \union S3) = Cardinality(S1 \union S2) + Cardinality(S3)
  BY <1>a, <1>3, <1>5, Disjoint
<1>7. /\ IsFiniteSet(S1 \union S2 \union S3 \union S4)
      /\ Cardinality(S1 \union S2 \union S3 \union S4)
           = Cardinality(S1 \union S2 \union S3) + Cardinality(S4)
  BY <1>a, <1>3, <1>6, Disjoint
<1>8. /\ IsFiniteSet(S1 \union S2 \union S3 \union S4 \union S5)
      /\ Cardinality(S1 \union S2 \union S3 \union S4 \union S5)
           = Cardinality(S1 \union S2 \union S3 \union S4) + Cardinality(S5)
  BY <1>a, <1>3, <1>7, Disjoint
<1>9. /\ IsFiniteSet(S1 \union S2 \union S3 \union S4 \union S5 \union S6)
      /\ Cardinality(S1 \union S2 \union S3 \union S4 \union S5 \union S6)
           = Cardinality(S1 \union S2 \union S3 \union S4 \union S5) + Cardinality(S6)
  BY <1>a, <1>3, <1>8, Disjoint
<1>10. CountedOutcomes(stats) =
         Cardinality(S1) + Cardinality(S2) + Cardinality(S3) + Cardinality(S4)
           + Cardinality(S5) + Cardinality(S6)
  BY <1>b, <1>a DEF CountedOutcomes
<1>11. CountedOutcomes(stats) = Cardinality(S)
  BY <1>4, <1>a, <1>5, <1>6, <1>7, <1>8, <1>9, <1>10
<1> QED BY <1>11 DEF S

\* A deployment has no more device deployments than devices it was created for.
LEMMA DocsBound ==
    ASSUME IInv, AllListed, DeliveredInOrder, NEW d \in Deployments
    PROVE  Cardinality(InDeployment(d)) <= MaxDevices(d)
<1> DEFINE S == InDeployment(d)
           T == Listed(d)
           f == [i \in S |-> docs[i].dev]
<1>1. \A i \in S : i \in DOMAIN docs /\ docs[i].dep = d /\ docs[i].dev \in T
  BY DEF AllListed, InDeployment
<1>2. \A i, j \in S : docs[i].dev = docs[j].dev => i = j
  <2> SUFFICES ASSUME NEW i \in S, NEW j \in S, docs[i].dev = docs[j].dev PROVE i = j
    OBVIOUS
  <2>1. PICK dev : dev = docs[i].dev
    OBVIOUS
  <2>2. i \in DocsOf(dev, d) /\ j \in DocsOf(dev, d)
    BY <1>1, <2>1 DEF DocsOf
  <2> QED BY <2>2, OneDoc
<1>3. f \in Injection(S, T)
  BY <1>1, <1>2 DEF Injection, IsInjective
<1>4. /\ IsFiniteSet(T) /\ Cardinality(T) \in Nat
      /\ MaxDevices(d) \in Nat /\ Cardinality(T) <= MaxDevices(d)
  BY ListedBound
<1>5. Cardinality(S) \in Nat
  BY TakenFinite
<1> HIDE DEF S, T, f
<1>6. Cardinality(S) <= Cardinality(T)
  BY <1>3, <1>4, FS_Injection
<1>7. Cardinality(S) <= MaxDevices(d)
  BY <1>4, <1>5, <1>6
<1> QED BY <1>7 DEF S

\* Counters that have all its outcomes leave no device out: they are exact.
LEMMA TallyComplete ==
    ASSUME AInv, AllListed, DeliveredInOrder, NEW d \in Deployments,
           NEW stats, stats = Tally(d), CountedOutcomes(stats) >= MaxDevices(d)
    PROVE  /\ \A st \in Statuses : stats[st] = Cardinality(InStatus(d, st))
           /\ AllOver(d)
<1> DEFINE S == {i \in Taken(d) : docs[i].status \in FinishedStatuses}
           T == InDeployment(d)
<1>0. IInv /\ \A i \in DOMAIN docs : Consistent(docs[i])
  BY DEF AInv
<1>1. CountedOutcomes(stats) = Cardinality(S) /\ MaxDevices(d) \in Nat
  BY <1>0, TakenOutcomes, ListedBound
<1>2. S \subseteq T /\ IsFiniteSet(T) /\ Cardinality(T) \in Nat /\ Cardinality(T) <= MaxDevices(d)
  BY <1>0, TakenFinite, DocsBound DEF Taken
<1>3. Cardinality(S) \in Nat /\ Cardinality(S) <= Cardinality(T)
  BY <1>2, FS_Subset, FS_CardinalityType
<1>4. Cardinality(S) = Cardinality(T) /\ Cardinality(T) = MaxDevices(d)
  <2> HIDE DEF S, T
  <2> QED BY <1>1, <1>2, <1>3
<1>5. S = T
  <2> HIDE DEF S, T
  <2> QED BY <1>2, <1>4, FS_Subset
<1>6. Taken(d) = InDeployment(d)
  BY <1>5 DEF Taken
<1>7. Cardinality(Taken(d)) = MaxDevices(d)
  BY <1>4, <1>6
<1>8. ASSUME NEW st \in Statuses
      PROVE  stats[st] = Cardinality(InStatus(d, st))
  <2>1. TakenIn(d, st) = InStatus(d, st)
    BY <1>6 DEF TakenIn, InStatus
  <2>2. Cardinality(TakenIn(d, st)) \in Nat
    BY <1>0, TakenFinite
  <2>3. stats[st] = Cardinality(TakenIn(d, st))
                      + (IF st = "pending" THEN MaxDevices(d) - Cardinality(Taken(d)) ELSE 0)
    BY <1>8 DEF Tally
  <2>4. stats[st] = Cardinality(TakenIn(d, st)) + 0
    BY <1>1, <1>7, <2>3
  <2> QED BY <2>1, <2>2, <2>4
<1>9. AllOver(d)
  <2>1. \A i \in InDeployment(d) : i \in DOMAIN docs /\ docs[i].status \in FinishedStatuses
    BY <1>5 DEF InDeployment
  <2>2. \A st \in FinishedStatuses : ~Active(st)
    BY DEF FinishedStatuses, Active, ActiveStatuses
  <2> QED BY <1>0, <2>1, <2>2 DEF AllOver, Consistent
<1> QED BY <1>8, <1>9

\* What the move of the counters makes of an update, of whichever kind of request.
LEMMA IncLeads ==
    ASSUME Serial, SerialInv, UpdateStatsInc(Server), NEW next, Continue(Server, next)
    PROVE  /\ deployments' = [deployments EXCEPT ![Job.dep].stats = StatsAfter(Job)]
           /\ next.pc \in {"respond", "save_last", "set_status"}
           /\ next.dep = Job.dep
           /\ next.pc = "set_status" => next.overall = OverallAfter(Job)
<1>0. /\ IInv /\ Server \in Workers /\ Job = workers[Server] /\ Job \in WorkerType /\ Prepared(Job)
  BY SerialFacts DEF SerialInv
<1>a. \A other : Continue(Server, other) => next = other
  BY <1>0, OneNext
<1>1. Job.pc = "inc_stats"
  BY <1>0 DEF UpdateStatsInc, At
<1>2. Job.kind \in DeviceKinds \/ Job.kind \in DeviceWideKinds
  BY <1>0, <1>1 DEF Prepared, Proper, Routine, AbortPCs, DeviceKinds
<1>3. CASE Job.kind \in DeviceKinds
  <2>1. /\ IncWay(Job, next)
        /\ deployments' = [deployments EXCEPT ![Job.dep].stats = StatsAfter(Job)]
    BY <1>0, <1>3, <1>a, IncIs
  <2> QED BY <2>1 DEF IncWay, Passed, Over, Answered, Keeps
<1>4. CASE Job.kind \in DeviceWideKinds
  <2>1. Job.new \in {"aborted", "decommissioned"}
    BY <1>0, <1>1, <1>4 DEF Prepared, AfterPCs
  <2>2. /\ IncWide(Job, next)
        /\ deployments' = [deployments EXCEPT ![Job.dep].stats = StatsAfter(Job)]
    BY <1>0, <1>a, <2>1, IncWideIs
  <2> QED BY <2>2 DEF IncWide, Keeps
<1> QED BY <1>2, <1>3, <1>4

\* The counters are right after the move; a request that is to finish the deployment has
\* found all its outcomes in them.
LEMMA IncLedger ==
    ASSUME Serial, SerialInv, Step(Server), UpdateStatsInc(Server),
           NEW next, Continue(Server, next), NEW d \in Deployments, Job.dep = d
    PROVE  Ledger(d)'
<1>0. /\ AInv /\ IInv /\ Server \in Workers /\ Job = workers[Server] /\ Ledger(d) /\ Prepared(Job)
      /\ AllListed /\ DeliveredInOrder
  BY SerialFacts DEF SerialInv, Store
<1>1. Job' = next
  BY <1>0, JobAfter
<1>2. Job.pc = "inc_stats"
  BY <1>0 DEF UpdateStatsInc, At
<1>3. ~deployments[d].finished /\ ~Job.was_finished /\ UNCHANGED docs
  BY <1>0, <1>2 DEF UpdateStatsInc, Prepared, WorkPCs
<1>4. deployments[d].stage = "stored"
  BY <1>0 DEF Prepared, Refers, Stored
<1>5. PICK stats : stats = StatsAfter(Job)
  OBVIOUS
<1>6. /\ deployments' = [deployments EXCEPT ![d].stats = stats]
      /\ next.pc \in {"respond", "save_last", "set_status"} /\ next.dep = d
      /\ next.pc = "set_status" => next.overall = OverallAfter(Job)
  BY <1>5, IncLeads
<1>7. stats = Tally(d)
  BY <1>0, <1>2, <1>3, <1>4, <1>5 DEF Ledger, StatsToBe, Aborting
<1>8. deployments'[d].stats = stats /\ DeploymentStays(d)
  BY <1>0, <1>6 DEF DeploymentStays, IInv, TypeOK, DeploymentType
<1>9. Alike(d)
  BY <1>3 DEF Alike
<1>10. Tally(d)' = Tally(d)
  BY <1>8, <1>9, AlikeSame, TallySame DEF DeploymentStays
<1>11. StatsToBe(d)' = Tally(d)'
  BY <1>1, <1>6, <1>7, <1>8, <1>10 DEF StatsToBe
<1>12. ASSUME next.pc = "set_status", next.overall = "finished"
       PROVE  Exact(d)' /\ AllOver(d)'
  <2>1. GetStatus(FALSE, MaxDevices(d), stats) = "finished"
    <3>1. Job.was_finished \in BOOLEAN
      BY <1>0, SerialFacts DEF WorkerType
    <3>2. Job.was_finished = FALSE
      BY <1>3, <3>1
    <3> QED BY <1>5, <1>6, <1>12, <3>2 DEF OverallAfter
  <2>2. CountedOutcomes(stats) >= MaxDevices(d)
    BY <2>1 DEF GetStatus, IsFinished
  <2>3. (\A st \in Statuses : stats[st] = Cardinality(InStatus(d, st))) /\ AllOver(d)
    BY <1>0, <1>7, <2>2, TallyComplete
  <2>4. AllOver(d)' /\ \A st : InStatus(d, st)' = InStatus(d, st)
    BY <1>9, <2>3, AlikeSame
  <2> QED BY <1>8, <2>3, <2>4 DEF Exact
<1> QED BY <1>1, <1>3, <1>6, <1>8, <1>11, <1>12, OpenLedger DEF DeploymentStays

\* What the status of a deployment becomes.
LEMMA WithStatusIs ==
    ASSUME IInv, NEW d \in Deployments, NEW status, deployments' = WithStatus(d, status)
    PROVE  /\ deployments'[d].stage = deployments[d].stage
           /\ deployments'[d].list = deployments[d].list
           /\ deployments'[d].stats = deployments[d].stats
           /\ deployments'[d].active = (status # "finished")
           /\ deployments'[d].finished = (deployments[d].finished \/ status = "finished")
<1>1. deployments[d] \in DeploymentType /\ d \in DOMAIN deployments
  BY DEF IInv, TypeOK
<1>2. deployments'[d] = [deployments[d] EXCEPT !.status = status, !.active = status # "finished",
                            !.finished = deployments[d].finished \/ status = "finished"]
  BY <1>1 DEF WithStatus
<1> QED BY <1>1, <1>2 DEF DeploymentType

\* The end of a deployment is set by a request that has found it, or is another status.
LEMMA SetStatusLedger ==
    ASSUME Serial, SerialInv, Step(Server), SetStatus(Server),
           NEW next, Continue(Server, next), NEW d \in Deployments, Job.dep = d
    PROVE  Ledger(d)'
<1>0. /\ IInv /\ Server \in Workers /\ Job = workers[Server] /\ Ledger(d) /\ Prepared(Job)
  BY SerialFacts DEF SerialInv
<1>1. Job' = next
  BY <1>0, JobAfter
<1>2. Job.pc = "set_status"
  BY <1>0 DEF SetStatus, At
<1>3. /\ ~deployments[d].finished /\ UNCHANGED docs
      /\ deployments' = WithStatus(d, Job.overall)
  BY <1>0, <1>2 DEF SetStatus, Prepared, WorkPCs
<1>4. deployments[d].stage = "stored"
  BY <1>0 DEF Prepared, Refers, Stored
<1>5. next.pc \in {"respond", "save_last"}
  BY SetStatusLeads
<1>6. /\ deployments'[d].stage = "stored" /\ deployments'[d].stats = deployments[d].stats
      /\ deployments'[d].list = deployments[d].list
      /\ deployments'[d].active = (Job.overall # "finished")
      /\ deployments'[d].finished = (deployments[d].finished \/ Job.overall = "finished")
  BY <1>0, <1>3, <1>4, WithStatusIs
<1>7. Alike(d)
  BY <1>3 DEF Alike
<1>8. /\ Tally(d)' = Tally(d) /\ (AllOver(d) => AllOver(d)')
      /\ Exact(d) => Exact(d)'
  BY <1>6, <1>7, AlikeSame, TallySame DEF Exact
<1>9. CASE Job.overall = "finished"
  <2>1. Exact(d) /\ AllOver(d)
    BY <1>0, <1>2, <1>9 DEF Ledger
  <2>2. (deployments[d].finished /\ Stored(d) /\ Exact(d) /\ AllOver(d) /\ ~deployments[d].active)'
    BY <1>6, <1>8, <1>9, <2>1 DEF Stored
  <2> QED BY <1>1, <1>5, <2>2 DEF Ledger, Aborting
<1>10. CASE Job.overall # "finished"
  <2>1. ~deployments'[d].finished
    BY <1>3, <1>6, <1>10
  <2>2. StatsToBe(d) = Tally(d)
    BY <1>0, <1>2, <1>3, <1>4 DEF Ledger, Aborting
  <2>3. StatsToBe(d)' = Tally(d)'
    BY <1>1, <1>2, <1>5, <1>6, <1>8, <2>2 DEF StatsToBe
  <2> QED BY <1>1, <1>5, <2>1, <2>3, OpenLedger
<1> QED BY <1>9, <1>10

\* The abort of the device deployments leaves none active, and changes none of a finished
\* deployment.
LEMMA AbortDocsLedger ==
    ASSUME Serial, SerialInv, Step(Server), AbortDocs(Server),
           NEW next, Continue(Server, next), NEW d \in Deployments, Job.dep = d
    PROVE  Ledger(d)'
<1>0. /\ IInv /\ Server \in Workers /\ Job = workers[Server] /\ Job \in WorkerType /\ Ledger(d)
      /\ AllListed
  BY SerialFacts DEF SerialInv, Store
<1>1. Job' = next
  BY <1>0, JobAfter
<1>2. next.pc = "aggregate" /\ deployments' = deployments
  <2>1. Continue(Server, [Job EXCEPT !.pc = "aggregate"])
    BY <1>0 DEF AbortDocs
  <2>2. next = [Job EXCEPT !.pc = "aggregate"]
    BY <1>0, <2>1, OneNext
  <2> QED BY <1>0, <2>2 DEF WorkerType, AbortDocs
<1>3. docs' = [i \in DOMAIN docs |->
                 IF docs[i].dep = d /\ docs[i].active /\ ~docs[i].deleted
                 THEN [docs[i] EXCEPT !.status = "aborted", !.active = FALSE]
                 ELSE docs[i]]
  BY <1>0 DEF AbortDocs
<1>4. ASSUME NEW i \in DOMAIN docs
      PROVE  /\ docs'[i].dep = docs[i].dep
             /\ docs[i].dep = d => ~docs'[i].active
             /\ docs[i].dep = d /\ ~docs[i].active => docs'[i] = docs[i]
  <2>1. docs[i] \in DocType /\ ~docs[i].deleted
    BY <1>0, DocTyped DEF IInv, AllListed
  <2>2. /\ [docs[i] EXCEPT !.status = "aborted", !.active = FALSE].dep = docs[i].dep
        /\ [docs[i] EXCEPT !.status = "aborted", !.active = FALSE].active = FALSE
    BY <2>1 DEF DocType
  <2> QED BY <1>3, <2>1, <2>2
<1>5. AllOver(d)'
  BY <1>3, <1>4 DEF AllOver, InDeployment
<1>6. Aborting(d)' \/ next.dep # d
  BY <1>1, <1>2 DEF Aborting
<1>7. next.dep = d
  BY <1>2, LedgerLeads DEF LedgerPCs
<1>8. ASSUME deployments[d].finished
      PROVE  (Stored(d) /\ Exact(d) /\ AllOver(d) /\ ~deployments[d].active)'
  <2>1. Stored(d) /\ Exact(d) /\ AllOver(d) /\ ~deployments[d].active
    BY <1>0, <1>8 DEF Ledger
  <2>2. \A i \in DOMAIN docs : docs[i].dep = d => docs'[i] = docs[i]
    BY <1>4, <2>1 DEF AllOver, InDeployment
  <2>3. Alike(d)
    BY <1>3, <1>4, <2>2 DEF Alike
  <2>4. Exact(d)'
    BY <1>2, <2>1, <2>3, AlikeSame DEF Exact
  <2> QED BY <1>2, <1>5, <2>1, <2>4 DEF Stored
<1>9. deployments'[d].finished => deployments[d].finished
  BY <1>2
<1> QED BY <1>1, <1>2, <1>5, <1>6, <1>7, <1>8, <1>9 DEF Ledger

\* What the aggregation counts, as nothing is deleted.
LEMMA AggregateLedger ==
    ASSUME Serial, SerialInv, Step(Server), Aggregate(Server),
           NEW next, Continue(Server, next), NEW d \in Deployments, Job.dep = d
    PROVE  Ledger(d)'
<1>0. /\ IInv /\ Server \in Workers /\ Job = workers[Server] /\ Job \in WorkerType /\ Ledger(d)
      /\ AllListed
  BY SerialFacts DEF SerialInv, Store
<1>1. Job' = next
  BY <1>0, JobAfter
<1>2. Job.pc = "aggregate" /\ UNCHANGED <<deployments, docs>>
  BY <1>0 DEF Aggregate, At, ReadOnly
<1>3. next.pc = "update_stats" /\ next.stats = AggregateByStatus(d)
  <2>1. Continue(Server, [Job EXCEPT !.pc = "update_stats", !.stats = AggregateByStatus(d)])
    BY <1>0 DEF Aggregate
  <2>2. next = [Job EXCEPT !.pc = "update_stats", !.stats = AggregateByStatus(d)]
    BY <1>0, <2>1, OneNext
  <2> QED BY <1>0, <2>2 DEF WorkerType
<1>4. next.dep = d
  BY <1>3, LedgerLeads DEF LedgerPCs
<1>5. \A st \in Statuses : next.stats[st] = Cardinality(InStatus(d, st))
  <2>1. ASSUME NEW st \in Statuses
        PROVE  InStatus(d, st) = {i \in DOMAIN docs : /\ docs[i].dep = d
                                                      /\ docs[i].status = st
                                                      /\ ~docs[i].deleted}
    BY <1>0 DEF InStatus, InDeployment, AllListed
  <2> QED BY <1>3, <2>1 DEF AggregateByStatus
<1>6. Alike(d)
  BY <1>2 DEF Alike
<1>7. /\ AllOver(d) => AllOver(d)'
      /\ Exact(d) => Exact(d)'
      /\ \A st : InStatus(d, st)' = InStatus(d, st)
  BY <1>2, <1>6, AlikeSame DEF Exact
<1>8. AllOver(d)
  BY <1>0, <1>2 DEF Ledger, Aborting
<1>9. (deployments[d].finished => Stored(d) /\ Exact(d) /\ AllOver(d) /\ ~deployments[d].active)'
  BY <1>0, <1>2, <1>7 DEF Ledger, Stored
<1>10. Aborting(d)' /\ AllOver(d)'
  BY <1>1, <1>3, <1>4, <1>7, <1>8 DEF Aborting
<1>11. (Job.dep = d /\ Job.pc = "update_stats" =>
          \A st \in Statuses : Job.stats[st] = Cardinality(InStatus(d, st)))'
  BY <1>1, <1>5, <1>7
<1>12. (Job.pc = "update_stats")'
  BY <1>1, <1>3
<1> QED BY <1>9, <1>10, <1>11, <1>12 DEF Ledger

\* The counters are replaced by what was counted.
LEMMA UpdateStatsLedger ==
    ASSUME Serial, SerialInv, Step(Server), UpdateStats(Server),
           NEW next, Continue(Server, next), NEW d \in Deployments, Job.dep = d
    PROVE  Ledger(d)'
<1>0. /\ IInv /\ Server \in Workers /\ Job = workers[Server] /\ Job \in WorkerType /\ Ledger(d)
  BY SerialFacts DEF SerialInv
<1>1. Job' = next
  BY <1>0, JobAfter
<1>2. /\ Job.pc = "update_stats" /\ UNCHANGED docs
      /\ deployments' = [deployments EXCEPT ![d].stats = Job.stats]
  BY <1>0 DEF UpdateStats, At
<1>3. next.pc = "finish"
  <2>1. Continue(Server, [Params(Job) EXCEPT !.pc = "finish"])
    BY <1>0 DEF UpdateStats
  <2>2. next = [Params(Job) EXCEPT !.pc = "finish"]
    BY <1>0, <2>1, OneNext
  <2>3. Params(Job) \in WorkerType
    BY <1>0, ParamsTyped
  <2> QED BY <2>2, <2>3 DEF WorkerType
<1>4. next.dep = d
  BY <1>3, LedgerLeads DEF LedgerPCs
<1>5. DeploymentStays(d) /\ deployments'[d].stats = Job.stats
  BY <1>0, <1>2 DEF DeploymentStays, IInv, TypeOK, DeploymentType
<1>6. Alike(d)
  BY <1>2 DEF Alike
<1>7. AllOver(d) /\ \A st \in Statuses : Job.stats[st] = Cardinality(InStatus(d, st))
  BY <1>0, <1>2 DEF Ledger, Aborting
<1>8. AllOver(d)' /\ Exact(d)'
  BY <1>5, <1>6, <1>7, AlikeSame DEF Exact
<1>9. (deployments[d].finished => Stored(d) /\ Exact(d) /\ AllOver(d) /\ ~deployments[d].active)'
  BY <1>0, <1>5, <1>8 DEF Ledger, Stored, DeploymentStays
<1>10. Aborting(d)' /\ (Job.pc = "finish")'
  BY <1>1, <1>3, <1>4 DEF Aborting
<1> QED BY <1>8, <1>9, <1>10 DEF Ledger

\* An abort finishes the deployment last.
LEMMA FinishLedger ==
    ASSUME Serial, SerialInv, Step(Server), Finish(Server),
           NEW next, Continue(Server, next), NEW d \in Deployments, Job.dep = d
    PROVE  Ledger(d)'
<1>0. /\ IInv /\ Server \in Workers /\ Job = workers[Server] /\ Ledger(d) /\ Prepared(Job)
  BY SerialFacts DEF SerialInv
<1>1. Job' = next
  BY <1>0, JobAfter
<1>2. /\ Job.pc = "finish" /\ UNCHANGED docs
      /\ deployments' = WithStatus(d, "finished")
  BY <1>0 DEF Finish, At
<1>3. next = Idle
  <2>1. Continue(Server, Idle)
    BY DEF Finish
  <2> QED BY <1>0, <2>1, OneNext
<1>4. deployments[d].stage = "stored"
  BY <1>0 DEF Prepared, Refers, Stored
<1>5. /\ deployments'[d].stage = "stored" /\ deployments'[d].stats = deployments[d].stats
      /\ deployments'[d].active = FALSE /\ deployments'[d].finished = TRUE
  BY <1>0, <1>2, <1>4, WithStatusIs
<1>6. Alike(d)
  BY <1>2 DEF Alike
<1>7. Exact(d) /\ AllOver(d)
  BY <1>0, <1>2 DEF Ledger
<1>8. (deployments[d].finished /\ Stored(d) /\ Exact(d) /\ AllOver(d) /\ ~deployments[d].active)'
  BY <1>5, <1>6, <1>7, AlikeSame DEF Stored, Exact
<1>9. (Job.pc)' = "idle"
  BY <1>1, <1>3 DEF Idle
<1> QED BY <1>8, <1>9 DEF Ledger, Aborting

\* Every step keeps the ledgers.
LEMMA StepLedger ==
    ASSUME Serial, SerialInv, Step(Server), NEW next, Continue(Server, next)
    PROVE  \A d \in Deployments : Ledger(d)'
<1> SUFFICES ASSUME NEW d \in Deployments PROVE Ledger(d)'
  OBVIOUS
<1>1. CASE d # Job.dep
  BY <1>1, ElsewhereLedger
<1>2. CASE Job.dep = d /\ ~LedgerStep
  BY <1>2, InsertLedger, SaveLedger, QuietLedger
<1>3. CASE Job.dep = d /\ LedgerStep
  BY <1>3, UpdateLedger, FindDeploymentLedger, IncLedger, SetStatusLedger, AbortDocsLedger,
     AggregateLedger, UpdateStatsLedger, FinishLedger DEF LedgerStep
<1> QED BY <1>1, <1>2, <1>3

---------------------------------------------------------------------------
(* One request at a time: arrivals, and the creation of deployments.        *)

\* A request for a whole device arrives.
WideArrives(next) ==
    \E kind \in DeviceWideKinds, dev \in Devices :
        /\ next = [Idle EXCEPT !.pc = "find_active", !.kind = kind, !.dev = dev]
        /\ UNCHANGED devices

\* The local variables of one.
LEMMA WideArrivesIs ==
    ASSUME NEW next, WideArrives(next)
    PROVE  /\ next.pc = "find_active" /\ next.kind \in DeviceWideKinds /\ next.dep = 0
           /\ UNCHANGED devices /\ Proper(next)
<1>1. PICK kind \in DeviceWideKinds, dev \in Devices :
        /\ next = [Idle EXCEPT !.pc = "find_active", !.kind = kind, !.dev = dev]
        /\ UNCHANGED devices
  BY DEF WideArrives
<1>2. next.pc = "find_active" /\ next.kind = kind /\ next.dep = 0
  BY <1>1 DEF Idle
<1> QED BY <1>1, <1>2 DEF Proper, WidePCs

\* The four ways a request arrives, where no history is reset.
LEMMA ArrivalIs ==
    ASSUME Serial, Request(Server)
    PROVE  /\ Job.pc = "idle"
           /\ UNCHANGED <<deployments, docs, lastStatus, failures>>
           /\ \E next : /\ Continue(Server, next)
                        /\ \/ PollArrives(next) \/ ReportArrives(next)
                           \/ AbortArrives(next) \/ WideArrives(next)
<1>1. Job.pc = "idle" /\ UNCHANGED <<deployments, docs, lastStatus, failures>>
  BY DEF Job, Request, StartPoll, StartReport, StartDeviceWide, StartDeleteHistory, StartAbort,
     StartAdmin, Arrive
<1>2. ASSUME NEW dev \in Devices
      PROVE  ~StartDeleteHistory(Server, dev)
  <2>1. [Idle EXCEPT !.pc = "get_history", !.kind = "delete_history", !.dev = dev].kind
          = "delete_history"
    BY DEF Idle
  <2> QED BY <2>1 DEF StartDeleteHistory, StartAdmin, Arrive, Serial
<1>3. ASSUME NEW dev \in Devices, NEW req \in Requests, StartPoll(Server, dev, req)
      PROVE  \E next : Continue(Server, next) /\ PollArrives(next)
  BY <1>3 DEF StartPoll, Arrive, PollArrives, Continue
<1>4. ASSUME NEW dev \in Devices, NEW d \in Deployments, NEW st \in Reports,
             StartReport(Server, dev, d, st)
      PROVE  \E next : Continue(Server, next) /\ ReportArrives(next)
  BY <1>4 DEF StartReport, Arrive, ReportArrives, Continue
<1>5. ASSUME NEW d \in Deployments, StartAbort(Server, d)
      PROVE  \E next : Continue(Server, next) /\ AbortArrives(next)
  BY <1>5 DEF StartAbort, StartAdmin, Arrive, AbortArrives, Continue
<1>6. ASSUME NEW kind \in DeviceWideKinds, NEW dev \in Devices, StartDeviceWide(Server, kind, dev)
      PROVE  \E next : Continue(Server, next) /\ WideArrives(next)
  BY <1>6 DEF StartDeviceWide, StartAdmin, Arrive, WideArrives, Continue
<1> QED BY <1>1, <1>2, <1>3, <1>4, <1>5, <1>6 DEF Request

\* A request that arrives has not made sure of anything yet.
LEMMA ArrivedIs ==
    ASSUME Serial, IInv, NEW next,
           \/ PollArrives(next) \/ ReportArrives(next)
           \/ AbortArrives(next) \/ WideArrives(next)
    PROVE  /\ next.pc \in {"find_active", "get_dd", "check_finished"}
           /\ Proper(next) /\ Refers(next)
           /\ next.kind \in DeviceKinds => Sure(next)'
           /\ \A dev \in Devices : devices'[dev].dep = devices[dev].dep
<1>1. CASE PollArrives(next)
  <2>1. /\ next.pc = "find_active" /\ next.kind = "poll" /\ next.dev \in Devices
        /\ next.req \in Requests /\ UNCHANGED devices /\ next.dep = 0 /\ Routine(next)
    BY <1>1, PollArrivesIs
  <2> QED BY <2>1 DEF Sure, AfterPCs, Proper, Refers, Deployments
<1>2. CASE ReportArrives(next)
  <2>1. /\ next.pc = "get_dd" /\ next.kind = "report" /\ next.dev \in Devices
        /\ next.new \in Reports /\ MayReport(next.dev, next.dep, next.new)
        /\ Stored(next.dep) /\ Routine(next)
        /\ devices' = IF devices[next.dev].dep = next.dep
                      THEN [devices EXCEPT ![next.dev].said = next.new] ELSE devices
    BY <1>2, ReportArrivesIs
  <2>2. devices[next.dev].dep = next.dep
    BY <2>1 DEF MayReport, Serial
  <2>3. devices \in [Devices -> DeviceType]
    BY DEF IInv, TypeOK
  <2>4. \A dev \in Devices : devices'[dev].dep = devices[dev].dep
    BY <2>1, <2>2, <2>3 DEF DeviceType
  <2>5. next.new \in ReportStatuses
    BY <2>1, ReportsAssumption
  <2> QED BY <2>1, <2>2, <2>4, <2>5 DEF Sure, AfterPCs, ReadPCs, Proper, Refers
<1>3. CASE AbortArrives(next)
  BY <1>3, AbortArrivesIs DEF DeviceKinds, Proper, Refers
<1>4. CASE WideArrives(next)
  <2>1. next.kind \notin DeviceKinds
    BY <1>4, WideArrivesIs DEF DeviceWideKinds, DeviceKinds
  <2> QED BY <1>4, <2>1, WideArrivesIs DEF Refers, Deployments
<1> QED BY <1>1, <1>2, <1>3, <1>4

\* The invariant after the arrival of a request.
LEMMA RequestSerial ==
    ASSUME Serial, SerialInv, [Next]_vars, Request(Server)
    PROVE  Store' /\ Prepared(Job)' /\ Honest' /\ \A d \in Deployments : Ledger(d)'
<1>0. /\ IInv /\ Server \in Workers /\ Job = workers[Server] /\ Prepared(Job)
  BY SerialFacts DEF SerialInv
<1>1. Job.pc = "idle" /\ UNCHANGED <<deployments, docs>>
  BY ArrivalIs
<1>2. PICK next : /\ Continue(Server, next)
                  /\ \/ PollArrives(next) \/ ReportArrives(next)
                     \/ AbortArrives(next) \/ WideArrives(next)
  BY ArrivalIs
<1>3. /\ next.pc \in {"find_active", "get_dd", "check_finished"}
      /\ Proper(next) /\ Refers(next)
      /\ next.kind \in DeviceKinds => Sure(next)'
      /\ \A dev \in Devices : devices'[dev].dep = devices[dev].dep
  BY <1>0, <1>2, ArrivedIs
<1>4. Job.kind \notin DeviceKinds
  BY <1>0, <1>1 DEF Prepared, Proper, Routine, DeviceKinds, PollPCs, ReportPCs, DevicePCs,
     AfterPCs, WidePCs
<1>5. Steady
  BY <1>1 DEF Steady
<1>6. Store'
  <2>1. KeepsHold(next)
    BY <1>1, <1>4 DEF KeepsHold, SerialInv, Store, ActiveLast, Held, DeviceKinds
  <2>2. HoldsActive(next)
    BY <1>3 DEF HoldsActive
  <2> QED BY <1>2, <1>5, <2>1, <2>2, StoreStays
<1>7. Prepared(Job)'
  <2>1. Searching(next) /\ Worked(next)
    BY <1>3 DEF Searching, Worked, WorkPCs
  <2>2. next.pc \notin WorkPCs \union AfterPCs \union {"update_status"}
    BY <1>3 DEF WorkPCs, AfterPCs
  <2> QED BY <1>2, <1>3, <1>5, <2>1, <2>2, PreparedStays
<1>8. Honest'
  BY <1>1, <1>2, <1>3, <1>4, ElseHonest
<1>9. ASSUME NEW d \in Deployments
      PROVE  Ledger(d)'
  <2>1. Ledger(d) /\ Alike(d) /\ DeploymentStays(d) /\ deployments'[d].stats = deployments[d].stats
    BY <1>1 DEF SerialInv, Alike, DeploymentStays
  <2>2. Job' = next /\ Job.pc \notin LedgerPCs /\ next.pc \notin LedgerPCs
    BY <1>0, <1>1, <1>2, <1>3, JobAfter DEF LedgerPCs
  <2> QED BY <2>1, <2>2, LedgerStays
<1> QED BY <1>6, <1>7, <1>8, <1>9

\* The ledger of a deployment between requests and their steps, if it is stored at most.
LEMMA LedgerStill ==
    ASSUME NEW d \in Deployments, Ledger(d), UNCHANGED docs, Job' = Job,
           deployments'[d].list = deployments[d].list,
           deployments'[d].stats = deployments[d].stats,
           deployments'[d].finished = deployments[d].finished,
           deployments[d].stage # "none",
           deployments[d].finished => deployments'[d] = deployments[d]
    PROVE  Ledger(d)'
<1>1. Alike(d)
  BY DEF Alike
<1>2. /\ Tally(d)' = Tally(d) /\ (AllOver(d) => AllOver(d)')
      /\ Exact(d) => Exact(d)'
      /\ \A st : InStatus(d, st)' = InStatus(d, st)
  BY <1>1, AlikeSame, TallySame DEF Exact
<1>3. StatsToBe(d)' = StatsToBe(d) /\ Aborting(d)' = Aborting(d)
  BY DEF StatsToBe, StatsAfter, Aborting
<1>4. (deployments[d].finished => Stored(d) /\ Exact(d) /\ AllOver(d) /\ ~deployments[d].active)'
  BY <1>2 DEF Ledger, Stored
<1>5. (deployments[d].stage # "none" /\ ~deployments[d].finished /\ ~Aborting(d) =>
         StatsToBe(d) = Tally(d))'
  BY <1>2, <1>3 DEF Ledger
<1>6. (Aborting(d) => AllOver(d))'
  BY <1>2, <1>3 DEF Ledger
<1>7. (Job.dep = d /\ Job.pc = "update_stats" =>
         \A st \in Statuses : Job.stats[st] = Cardinality(InStatus(d, st)))'
  BY <1>2 DEF Ledger
<1>8. (\/ Job.dep = d /\ Job.pc = "finish"
       \/ Job.dep = d /\ Job.pc = "set_status" /\ Job.overall = "finished"
       => Exact(d) /\ AllOver(d))'
  BY <1>2 DEF Ledger
<1> QED BY <1>4, <1>5, <1>6, <1>7, <1>8 DEF Ledger

\* A deployment is built with all its devices pending, and nothing refers to it yet.
LEMMA BuiltLedger ==
    ASSUME Serial, SerialInv, NEW d \in Deployments, deployments[d].stage = "none",
           UNCHANGED <<docs, workers>>, NEW list \in DeviceLists,
           deployments'[d] = [deployments[d] EXCEPT !.stage = "built", !.list = list,
                                                    !.stats = InitialStats(Len(list))]
    PROVE  Ledger(d)'
<1>0. IInv /\ Job' = Job /\ Prepared(Job) /\ Ledger(d)
  BY SerialFacts DEF SerialInv, Job
<1>1. /\ deployments'[d].list = list /\ deployments'[d].stats = InitialStats(Len(list))
      /\ deployments'[d].finished = deployments[d].finished
  <2>1. deployments[d] \in DeploymentType
    BY <1>0 DEF IInv, TypeOK
  <2> QED BY <2>1 DEF DeploymentType
<1>2. ~deployments[d].finished
  BY <1>0 DEF Ledger, Stored
<1>3. InDeployment(d) = {}
  BY DEF InDeployment, SerialInv, Store, Stored
<1>4. Job.dep # d
  BY <1>0 DEF Prepared, Refers, Stored
<1>5. Taken(d)' = {} /\ \A st : TakenIn(d, st)' = {}
  BY <1>3 DEF Taken, TakenIn, InDeployment
<1>6. MaxDevices(d)' = Len(list) /\ Len(list) \in Nat
  <2>1. list \in Seq(Devices)
    BY ListsAssumption
  <2> QED BY <1>1, <2>1 DEF MaxDevices
<1>7. Tally(d)' = InitialStats(Len(list))
  <2>1. Tally(d)' = [st \in Statuses |->
                       0 + (IF st = "pending" THEN Len(list) - 0 ELSE 0)]
    BY <1>5, <1>6, FS_EmptySet DEF Tally
  <2>2. \A st \in Statuses : 0 + (IF st = "pending" THEN Len(list) - 0 ELSE 0)
                                = InitialStats(Len(list))[st]
    BY <1>6 DEF InitialStats, NewStats
  <2>3. InitialStats(Len(list)) = [st \in Statuses |-> InitialStats(Len(list))[st]]
    BY DEF InitialStats, NewStats
  <2> QED BY <2>1, <2>2, <2>3
<1>8. StatsToBe(d)' = InitialStats(Len(list))
  BY <1>0, <1>1, <1>4 DEF StatsToBe
<1> QED BY <1>0, <1>1, <1>2, <1>4, <1>7, <1>8, OpenLedger

\* The invariant where no request takes a step.
LEMMA StillSerial ==
    ASSUME Serial, SerialInv, [Next]_vars, Create \/ UNCHANGED vars
    PROVE  Store' /\ Prepared(Job)' /\ Honest' /\ \A d \in Deployments : Ledger(d)'
<1>0. IInv /\ Server \in Workers /\ Job = workers[Server] /\ Prepared(Job)
  BY SerialFacts DEF SerialInv
<1>1. UNCHANGED <<docs, devices, workers>>
  BY DEF vars, Create, BuildDeployment, InsertDeployment
<1>2. Continue(Server, Job) /\ Job' = Job
  BY <1>0, <1>1 DEF Continue, IInv, TypeOK, Job
<1>3. PICK job : job = Job
  OBVIOUS
<1>4. Steady
  BY <1>1 DEF Steady
<1>5. ASSUME NEW d \in Deployments
      PROVE  deployments'[d].finished = deployments[d].finished
  <2>1. CASE UNCHANGED vars
    BY <2>1 DEF vars
  <2>2. CASE Create
    BY <1>0, <2>2, CreateKeepsDeployments DEF IInv, TypeOK, DeploymentType
  <2> QED BY <2>1, <2>2
<1>6. Store'
  <2>1. KeepsHold(job)
    BY <1>1, <1>3 DEF KeepsHold, SerialInv, Store, ActiveLast, Held
  <2>2. HoldsActive(job)
    BY <1>1, <1>3 DEF HoldsActive, SerialInv, Store
  <2> QED BY <1>2, <1>3, <1>4, <2>1, <2>2, StoreStays
<1>7. Prepared(Job)'
  <2>1. Proper(job) /\ Refers(job) /\ Searching(job) /\ Worked(job)
    BY <1>0, <1>3 DEF Prepared, Worked
  <2>2. job.pc \in WorkPCs => deployments'[job.dep].finished = deployments[job.dep].finished
    BY <1>5, <2>1 DEF Worked
  <2>3. job.kind \in DeviceWideKinds /\ job.pc \in AfterPCs => OverUpTo(job.dev, job.dep)'
    BY <1>0, <1>1, <1>3 DEF Prepared, OverUpTo
  <2>4. job.kind \in DeviceWideKinds /\ job.pc \in AfterPCs \union {"update_status"} =>
          job.new \in {"aborted", "decommissioned"}
    BY <1>0, <1>3 DEF Prepared
  <2> QED BY <1>1, <1>2, <1>3, <1>4, <2>1, <2>2, <2>3, <2>4, PreparedStays
<1>8. Honest'
  BY <1>1, StillHonest DEF SerialInv
<1>9. ASSUME NEW d \in Deployments
      PROVE  Ledger(d)'
  <2>0. Ledger(d) /\ deployments[d] \in DeploymentType
    BY <1>0 DEF SerialInv, IInv, TypeOK
  <2>1. CASE deployments'[d] = deployments[d]
    <3>1. CASE deployments[d].stage # "none"
      BY <1>1, <1>2, <2>0, <2>1, <3>1, LedgerStill
    <3>2. CASE deployments[d].stage = "none"
      <4>1. Job.dep # d /\ ~deployments[d].finished
        BY <1>0, <2>0, <3>2 DEF Prepared, Refers, Ledger, Stored
      <4> QED BY <1>2, <2>1, <3>2, <4>1, OpenLedger
    <3> QED BY <3>1, <3>2
  <2>2. ASSUME deployments[d].stage = "none", NEW list \in DeviceLists,
               deployments'[d] = [deployments[d] EXCEPT !.stage = "built", !.list = list,
                                                        !.stats = InitialStats(Len(list))]
        PROVE  Ledger(d)'
    BY <1>1, <2>2, BuiltLedger
  <2>3. ASSUME deployments[d].stage = "built",
               deployments'[d] = [deployments[d] EXCEPT !.stage = "stored", !.active = TRUE]
        PROVE  Ledger(d)'
    <3>1. /\ deployments'[d].list = deployments[d].list
          /\ deployments'[d].stats = deployments[d].stats
          /\ deployments'[d].finished = deployments[d].finished
      BY <2>0, <2>3 DEF DeploymentType
    <3>2. ~deployments[d].finished
      BY <2>0, <2>3 DEF Ledger, Stored
    <3> QED BY <1>1, <1>2, <2>0, <2>3, <3>1, <3>2, LedgerStill
  <2>4. CASE UNCHANGED vars
    BY <2>1, <2>4 DEF vars
  <2>5. CASE Create
    BY <1>0, <2>1, <2>2, <2>3, <2>5, CreateKeepsDeployments
  <2> QED BY <2>4, <2>5
<1> QED BY <1>6, <1>7, <1>8, <1>9

---------------------------------------------------------------------------
(* One request at a time: the theorems.                                     *)

\* Every step of a request leaves one request.
LEMMA StepContinues ==
    ASSUME NEW w \in Workers, Step(w)
    PROVE  \E next : Continue(w, next)
BY DEF Step, Respond, FindActive, FindInactive, FindNewer, FindExisting,
   InsertDeviceDeployment, IncrementDeviceCount, SaveRequest, Instructions,
   IncrementTotalSize, GetDeviceDeployment, UpdateStatus, FindDeployment, UpdateStatsInc,
   SetStatus, SaveLastStatus, CheckFinished, AbortDocs, Aggregate, UpdateStats, Finish,
   GetHistory, MarkDeleted, DeleteLast

\* Every step keeps the invariant.
LEMMA NextSerialInv == ASSUME Serial PROVE SerialInv /\ [Next]_vars => SerialInv'
<1> SUFFICES ASSUME SerialInv, [Next]_vars PROVE SerialInv'
  OBVIOUS
<1>0. IInv /\ Server \in Workers /\ \A w \in Workers : w = Server
  BY SerialFacts, JobAfter
<1>1. AInv'
  BY NextAInv DEF SerialInv
<1>2. Alone'
  BY <1>0 DEF Alone
<1>3. Store' /\ Prepared(Job)' /\ Honest' /\ \A d \in Deployments : Ledger(d)'
  <2>1. CASE Create \/ UNCHANGED vars
    BY <2>1, StillSerial
  <2>2. CASE Request(Server)
    BY <2>2, RequestSerial
  <2>3. CASE Step(Server)
    <3>1. PICK next : Continue(Server, next)
      BY <1>0, <2>3, StepContinues
    <3> QED BY <2>3, <3>1, StepStore, StepHonest, StepLedger
  <2>4. ~Fail(Server)
    BY <1>0 DEF Fail, Serial, IInv, TypeOK
  <2> QED BY <1>0, <2>1, <2>2, <2>3, <2>4 DEF Next
<1> QED BY <1>1, <1>2, <1>3 DEF SerialInv

\* The initial states satisfy it.
LEMMA InitSerialInv == ASSUME Serial PROVE Init => SerialInv
<1> SUFFICES ASSUME Init PROVE SerialInv
  OBVIOUS
<1>0. AInv /\ IInv /\ Server \in Workers /\ \A w \in Workers : w = Server
  BY InitAInv, InitIInv, JobAfter
<1>1. Job = Idle /\ \A w \in Workers : workers[w] = Idle
  BY <1>0 DEF Init, Job
<1>2. /\ docs = <<>> /\ DOMAIN docs = {}
      /\ \A d \in Deployments : deployments[d].stage = "none" /\ ~deployments[d].finished
      /\ \A dev \in Devices : devices[dev].dep = 0
  BY DEF Init
<1>3. /\ Idle.pc = "idle" /\ Idle.kind = "none" /\ Idle.dep = 0
  BY DEF Idle
<1>4. Honest /\ Alone
  <2>1. \A w \in Workers : workers[w].kind \notin DeviceKinds
    BY <1>1, <1>3 DEF DeviceKinds
  <2>2. \A dev \in Devices : Carrying(dev)
    BY <1>2 DEF Carrying
  <2> QED BY <2>1, <2>2 DEF Honest, Alone
<1>5. Prepared(Job)
  BY <1>1, <1>3 DEF Prepared, Proper, Routine, Refers, Searching, WorkPCs, DeviceWideKinds,
     Deployments
<1>6. Store
  BY <1>1, <1>2, <1>3 DEF Store, AllListed, DeliveredInOrder
<1>7. \A d \in Deployments : Ledger(d)
  <2> SUFFICES ASSUME NEW d \in Deployments PROVE Ledger(d)
    OBVIOUS
  <2>1. Job.pc = "idle"
    BY <1>1, <1>3
  <2> QED BY <1>2, <2>1 DEF Ledger, Aborting
<1> QED BY <1>0, <1>4, <1>5, <1>6, <1>7 DEF SerialInv

\* What a finished deployment's counters say.
LEMMA SerialExact == ASSUME SerialInv PROVE FinishedStatsExact
BY DEF SerialInv, Ledger, Exact, FinishedStatsExact

\* With requests one after the other, of devices that report on what they were given and of
\* operators that abort deployments, abort those of one device or decommission it, the
\* counters of a finished deployment are exactly the numbers of devices per outcome
\* (FinishedStatsExact), for any number of devices, deployments and requests: what
\* updateDeviceDeploymentsStatus inserts for a device without counting it is counted by the
\* aggregation of an abort, or keeps the deployment from being finished by its counters.
THEOREM FinishedExactly ==
    ASSUME Serial
    PROVE  Spec => []FinishedStatsExact
<1>1. Init => SerialInv
  BY InitSerialInv
<1>2. SerialInv /\ [Next]_vars => SerialInv'
  BY NextSerialInv
<1>3. SerialInv => FinishedStatsExact
  BY SerialExact
<1> QED BY <1>1, <1>2, <1>3, PTL DEF Spec

---------------------------------------------------------------------------
(* One request at a time: the handlers as the lifecycle of deployments.     *)

\* Lists as submitted, and no update that sets a device back to "pending".
LifeInv == SerialInv /\ Submitted /\ NoneSetBack

\* What LifeInv says of outcomes, before a step and after it.
LEMMA LifeRead == LifeInv => OutcomesRead
BY OutcomeIs DEF LifeInv, SerialInv, AInv, Store

\* And after it.
LEMMA LifeReadNext == (LifeInv => OutcomesRead)'
BY LifeRead, PTL

\* A step that leaves statuses, lists and finish times moves nothing of the lifecycle.
LEMMA LifeStutters ==
    ASSUME OutcomesRead, OutcomesRead', StatusesStay,
           \A i \in DOMAIN docs : docs'[i].dev = docs[i].dev,
           \A d \in Deployments :
             /\ deployments'[d].list = deployments[d].list
             /\ Stored(d)' <=> Stored(d)
             /\ deployments'[d].finished = deployments[d].finished
    PROVE  UNCHANGED Lifecycle!vars
<1>1. \A d \in Deployments, dev \in Devices : OutcomeOf(dev, d)' = OutcomeOf(dev, d)
  BY OutcomeStays
<1>2. \A d \in Deployments : ListedIn(d)' = ListedIn(d)
  BY DEF ListedIn, Listed
<1> QED BY <1>1, <1>2, LifecycleStutters

\* The insertion of a device deployment starts the device in a deployment.
LEMMA LifeStarts ==
    ASSUME Serial, SerialInv, OutcomesRead, OutcomesRead', Step(Server),
           InsertDeviceDeployment(Server), NEW next, Continue(Server, next)
    PROVE  Lifecycle!Next
<1>0. /\ IInv /\ Server \in Workers /\ Job = workers[Server] /\ Prepared(Job) /\ JobOK(Job)
      /\ \A i \in DOMAIN docs : Consistent(docs[i])
  BY SerialFacts DEF SerialInv, AInv
<1>1. Job.pc = "insert" /\ UNCHANGED deployments
  BY <1>0 DEF InsertDeviceDeployment, At
<1>2. PICK dev \in Devices, d \in Deployments : dev = Job.dev /\ d = Job.dep
  BY <1>0, <1>1 DEF JobOK, DevicePCs
<1>3. PICK doc : /\ docs' = Append(docs, doc) /\ doc.dev = dev /\ doc.dep = d
                 /\ doc.status \in {"pending", "aborted", "decommissioned"}
  <2>1. PICK doc \in DocType :
          /\ docs' = Append(docs, doc) /\ doc.dev = Job.dev /\ doc.dep = Job.dep
          /\ doc.active => doc.status = "pending"
          /\ doc.active \/ doc.status \in {"aborted", "decommissioned"}
    BY InsertedIs
  <2>2. doc.status \in {"pending", "aborted", "decommissioned"}
    BY <2>1
  <2> QED BY <1>2, <2>1, <2>2
<1>s. PICK st \in {"pending", "aborted", "decommissioned"} : st = doc.status
  BY <1>3
<1>4. /\ OverUpTo(dev, d - 1) /\ dev \in Listed(d) /\ Stored(d)
      /\ ~deployments[d].finished
  BY <1>0, <1>1, <1>2 DEF Prepared, Searching, Refers, WorkPCs
<1>5. \A e \in Deployments : e \in Nat
  BY NumDeploymentsAssumption DEF Deployments
<1>6. \A e \in Deployments : e >= d => DocsOf(dev, e) = {}
  BY <1>4, <1>5 DEF OverUpTo, DocsOf
<1>7. ASSUME NEW e \in Deployments
      PROVE  OutcomeOf(dev, e) \notin ActiveStatuses
  <2>1. CASE DocsOf(dev, e) = {}
    <3>1. OutcomeOf(dev, e) = "none"
      BY <2>1 DEF OutcomesRead
    <3> QED BY <3>1 DEF ActiveStatuses
  <2>2. ASSUME NEW i \in DocsOf(dev, e)
        PROVE  OutcomeOf(dev, e) \notin ActiveStatuses
    <3>1. i \in DOMAIN docs /\ ~docs[i].active
      BY <1>4 DEF OverUpTo, DocsOf
    <3>2. OutcomeOf(dev, e) = docs[i].status
      BY DEF OutcomesRead
    <3> QED BY <1>0, <3>1, <3>2 DEF Consistent, Active
  <2> QED BY <2>1, <2>2
<1>8. \A e \in Deployments : e >= d => OutcomeOf(dev, e) = "none"
  BY <1>6 DEF OutcomesRead
<1>9. \A e \in Deployments, b \in Devices :
        OutcomeOf(b, e)' = IF dev = b /\ d = e THEN st ELSE OutcomeOf(b, e)
  BY <1>0, <1>3, <1>s, OutcomeComesIn
<1>10. OutcomeView' = [OutcomeView EXCEPT ![d][dev] = st]
  BY <1>9 DEF OutcomeView
<1>11. ListedView' = ListedView /\ ClosedView' = ClosedView
  BY <1>1 DEF ListedView, ListedIn, Listed, Stored, ClosedView
<1>12. dev \in ListedView[d] /\ ~ClosedView[d]
  BY <1>4 DEF ListedView, ListedIn, ClosedView
<1>13. \A e \in Deployments : dev \notin Lifecycle!ActiveIn(e)
  BY <1>7 DEF Lifecycle!ActiveIn, ActiveStatuses, Lifecycle!ActiveStatuses
<1>14. \A e \in Deployments : e >= d => OutcomeView[e][dev] = "none"
  BY <1>8 DEF OutcomeView
<1>15. Lifecycle!Start(dev, d, st)
  BY <1>10, <1>11, <1>12, <1>13, <1>14 DEF Lifecycle!Start, Lifecycle!Deployments, Deployments,
     Lifecycle!NotStarted, ListedView, ListedIn, ClosedView, OutcomeView
<1> QED BY <1>15 DEF Lifecycle!Next, Lifecycle!Deployments, Deployments

\* The write of a status changes that of a device active in an open deployment.
LEMMA LifeChanges ==
    ASSUME Serial, LifeInv, OutcomesRead, OutcomesRead', UpdateStatus(Server),
           NEW next, Continue(Server, next)
    PROVE  Lifecycle!Next
<1>0. /\ SerialInv /\ IInv /\ Server \in Workers /\ Job = workers[Server] /\ JobOK(Job)
      /\ NoneSetBack
  BY SerialFacts DEF LifeInv
<1>1. Job.pc = "update_status" /\ UNCHANGED deployments
  BY <1>0 DEF UpdateStatus, At
<1>2. PICK dev \in Devices, st \in Statuses : dev = Job.dev /\ st = Job.new
  BY <1>0, <1>1 DEF JobOK, DevicePCs
<1>3. PICK i \in DOMAIN docs :
        Target(Job, i) /\ docs' = [docs EXCEPT ![i].status = st, ![i].active = Active(st)]
  BY <1>0, <1>2, UpdateWorked
<1>4. PICK d \in Deployments : d = docs[i].dep
  BY <1>0, ActiveOpen, <1>3 DEF Target
<1>5. /\ i \in DocsOf(dev, d) /\ docs[i].dev = dev /\ docs[i].dep = d
      /\ docs[i].status \in ActiveStatuses /\ ~deployments[d].finished
  BY <1>0, <1>2, <1>3, <1>4, ActiveOpen DEF Target, DocsOf
<1>6. st # "pending"
  BY <1>0, <1>1, <1>2 DEF NoneSetBack
<1>7. \A e \in Deployments, b \in Devices :
        OutcomeOf(b, e)' = IF dev = b /\ d = e THEN st ELSE OutcomeOf(b, e)
  <2>1. \A b, e : OutcomeOf(b, e)' = IF docs[i].dev = b /\ docs[i].dep = e THEN st
                                     ELSE OutcomeOf(b, e)
    <3>1. docs' = [docs EXCEPT ![i].status = st, ![i].active = Active(st)]
      BY <1>3
    <3> QED BY <1>0, <3>1, OutcomeWritten
  <2> QED BY <1>5, <2>1
<1>8. OutcomeView' = [OutcomeView EXCEPT ![d][dev] = st]
  BY <1>7 DEF OutcomeView
<1>9. ListedView' = ListedView /\ ClosedView' = ClosedView /\ ~ClosedView[d]
  BY <1>1, <1>5 DEF ListedView, ListedIn, Listed, Stored, ClosedView
<1>10. dev \in Lifecycle!ActiveIn(d)
  <2>1. OutcomeOf(dev, d) \in ActiveStatuses
    BY <1>5 DEF OutcomesRead
  <2> QED BY <2>1 DEF Lifecycle!ActiveIn, ActiveStatuses, Lifecycle!ActiveStatuses
<1>11. Lifecycle!Change(dev, d, st)
  BY <1>8, <1>9, <1>10 DEF Lifecycle!Change, ListedView, ListedIn, ClosedView, OutcomeView
<1>12. Lifecycle!Statuses = Statuses
  BY DEF Lifecycle!Statuses, Statuses, Lifecycle!ActiveStatuses, ActiveStatuses,
     Lifecycle!FinishedStatuses, FinishedStatuses
<1> QED BY <1>6, <1>11, <1>12 DEF Lifecycle!Next, Lifecycle!Deployments, Deployments

\* No device is active in a deployment that is over.
LEMMA NobodyActive ==
    ASSUME AInv, OutcomesRead, NEW d, AllOver(d)
    PROVE  \A dev : OutcomeOf(dev, d) \notin ActiveStatuses
<1> SUFFICES ASSUME NEW dev PROVE OutcomeOf(dev, d) \notin ActiveStatuses
  OBVIOUS
<1>1. CASE DocsOf(dev, d) = {}
  <2>1. OutcomeOf(dev, d) = "none"
    BY <1>1 DEF OutcomesRead
  <2> QED BY <2>1 DEF ActiveStatuses
<1>2. ASSUME NEW i \in DocsOf(dev, d)
      PROVE  OutcomeOf(dev, d) \notin ActiveStatuses
  <2>1. i \in DOMAIN docs /\ ~docs[i].active /\ docs[i].status \notin ActiveStatuses
    BY DEF AllOver, InDeployment, DocsOf, AInv, Consistent, Active
  <2> QED BY <2>1 DEF OutcomesRead
<1> QED BY <1>1, <1>2

\* The status of a deployment closes it when it is set to finished, and nothing else does.
LEMMA LifeCloses ==
    ASSUME Serial, LifeInv, OutcomesRead, OutcomesRead', Step(Server),
           SetStatus(Server) \/ Finish(Server)
    PROVE  [Lifecycle!Next]_Lifecycle!vars
<1>0. /\ SerialInv /\ AInv /\ IInv /\ Server \in Workers /\ Job = workers[Server]
      /\ Prepared(Job) /\ Submitted
  BY SerialFacts DEF LifeInv, SerialInv
<1>1. PICK d, st : /\ d = Job.dep /\ deployments' = WithStatus(d, st)
                   /\ st = (IF Job.pc = "set_status" THEN Job.overall ELSE "finished")
                   /\ Job.pc \in {"set_status", "finish"}
  BY <1>0 DEF SetStatus, Finish, At
<1>2. UNCHANGED docs
  BY DEF SetStatus, Finish
<1>3. \A i \in DOMAIN docs : docs'[i].dev = docs[i].dev
  BY <1>2
<1>4. StatusesStay
  BY <1>2 DEF StatusesStay
<1>5. \A e \in Deployments \ {d} : deployments'[e] = deployments[e]
  BY <1>0, <1>1 DEF WithStatus, IInv, TypeOK
<1>6. d \in Deployments =>
        /\ deployments'[d].stage = deployments[d].stage
        /\ deployments'[d].list = deployments[d].list
        /\ deployments'[d].finished = (deployments[d].finished \/ st = "finished")
  BY <1>0, <1>1, WithStatusIs
<1>7. \A e \in Deployments : deployments'[e].list = deployments[e].list /\ (Stored(e)' <=> Stored(e))
  BY <1>5, <1>6 DEF Stored
<1>8. CASE \A e \in Deployments : deployments'[e].finished = deployments[e].finished
  BY <1>3, <1>4, <1>7, <1>8, LifeStutters
<1>9. CASE ~(\A e \in Deployments : deployments'[e].finished = deployments[e].finished)
  <2>1. d \in Deployments /\ st = "finished" /\ deployments'[d].finished = TRUE
    BY <1>0, <1>5, <1>6, <1>9 DEF IInv, TypeOK, DeploymentType
  <2>2. Stored(d)
    BY <1>0, <1>1, <2>1 DEF Prepared, Refers
  <2>3. AllOver(d)
    BY <1>0, <1>1, <2>1 DEF SerialInv, Ledger
  <2>4. Lifecycle!ActiveIn(d) = {}
    <3>1. \A dev \in Devices : OutcomeOf(dev, d) \notin ActiveStatuses
      BY <1>0, <2>3, NobodyActive
    <3> QED BY <2>1, <3>1 DEF Lifecycle!ActiveIn, ActiveStatuses, Lifecycle!ActiveStatuses
  <2>5. ListedView[d] # {}
    <3>1. deployments[d].list \in DeviceLists
      BY <1>0, <2>1, <2>2 DEF Submitted, Stored
    <3>2. PICK list \in Seq(Devices) : list = deployments[d].list /\ list # <<>>
      BY <3>1, ListsAssumption
    <3>3. 1 \in DOMAIN list
      BY <3>2
    <3> QED BY <2>1, <2>2, <3>2, <3>3 DEF ListedView, ListedIn, Listed
  <2>6. ListedView' = ListedView
    BY <1>7 DEF ListedView, ListedIn, Listed
  <2>7. OutcomeView' = OutcomeView
    <3>1. \A e \in Deployments, dev \in Devices : OutcomeOf(dev, e)' = OutcomeOf(dev, e)
      BY <1>3, <1>4, OutcomeStays
    <3> QED BY <3>1 DEF OutcomeView
  <2>8. ClosedView' = [ClosedView EXCEPT ![d] = TRUE]
    BY <1>5, <2>1 DEF ClosedView
  <2>9. Lifecycle!Close(d)
    BY <2>4, <2>5, <2>6, <2>7, <2>8
       DEF Lifecycle!Close, ListedView, ListedIn, ClosedView, OutcomeView
  <2> QED BY <2>1, <2>9 DEF Lifecycle!Next, Lifecycle!Deployments, Deployments
<1> QED BY <1>8, <1>9


\* The abort of all device deployments of a deployment ends what was active there.
LEMMA LifeAborts ==
    ASSUME Serial, LifeInv, OutcomesRead, OutcomesRead', AbortDocs(Server)
    PROVE  [Lifecycle!Next]_Lifecycle!vars
<1>0. /\ SerialInv /\ AInv /\ IInv /\ Job = workers[Server] /\ AllListed
      /\ \A i \in DOMAIN docs : docs[i] \in DocType
  BY SerialFacts, DocTyped DEF LifeInv, SerialInv, Store, IInv, TypeOK
<1>1. PICK d : d = Job.dep
  OBVIOUS
<1>2. /\ UNCHANGED deployments
      /\ docs' = [i \in DOMAIN docs |->
                    IF docs[i].dep = d /\ docs[i].active /\ ~docs[i].deleted
                    THEN [docs[i] EXCEPT !.status = "aborted", !.active = FALSE]
                    ELSE docs[i]]
  BY <1>0, <1>1 DEF AbortDocs
<1>3. ASSUME NEW i \in DOMAIN docs
      PROVE  /\ docs'[i].dev = docs[i].dev /\ docs'[i].dep = docs[i].dep
             /\ docs'[i].status = IF docs[i].dep = d /\ docs[i].status \in ActiveStatuses
                                  THEN "aborted" ELSE docs[i].status
  <2>1. docs[i] \in DocType /\ ~docs[i].deleted
    BY <1>0 DEF AllListed
  <2>2. /\ [docs[i] EXCEPT !.status = "aborted", !.active = FALSE].dep = docs[i].dep
        /\ [docs[i] EXCEPT !.status = "aborted", !.active = FALSE].dev = docs[i].dev
        /\ [docs[i] EXCEPT !.status = "aborted", !.active = FALSE].status = "aborted"
    BY <2>1 DEF DocType
  <2>3. docs[i].active <=> docs[i].status \in ActiveStatuses
    BY <1>0, <2>1 DEF AInv, Consistent, Active, DocType
  <2> QED BY <1>2, <2>1, <2>2, <2>3
<1>4. DOMAIN docs' = DOMAIN docs
  BY <1>2
<1>5. CASE \A i \in DOMAIN docs : docs'[i].status = docs[i].status
  <2>1. StatusesStay
    BY <1>3, <1>4, <1>5 DEF StatusesStay
  <2> QED BY <1>2, <1>3, <2>1, LifeStutters DEF Stored
<1>6. ASSUME NEW i \in DOMAIN docs, docs'[i].status # docs[i].status
      PROVE  Lifecycle!Next
  <2>1. docs[i].dep = d /\ docs[i].active
    BY <1>0, <1>3, <1>6 DEF AInv, Consistent, Active
  <2>2. d \in Deployments /\ ~deployments[d].finished
    BY <1>0, <2>1, ActiveOpen
  <2>3. ASSUME NEW e \in Deployments, NEW dev \in Devices
        PROVE  OutcomeOf(dev, e)' = IF e = d /\ OutcomeOf(dev, e) \in ActiveStatuses
                                    THEN "aborted" ELSE OutcomeOf(dev, e)
    <3>1. DocsOf(dev, e)' = DocsOf(dev, e)
      BY <1>3, <1>4 DEF DocsOf
    <3>2. CASE DocsOf(dev, e) = {}
      <4>1. OutcomeOf(dev, e) = "none" /\ OutcomeOf(dev, e)' = "none"
        BY <3>1, <3>2 DEF OutcomesRead
      <4> QED BY <4>1 DEF ActiveStatuses
    <3>3. ASSUME NEW k \in DocsOf(dev, e)
          PROVE  OutcomeOf(dev, e)' = IF e = d /\ OutcomeOf(dev, e) \in ActiveStatuses
                                      THEN "aborted" ELSE OutcomeOf(dev, e)
      <4>1. k \in DOMAIN docs /\ docs[k].dep = e /\ k \in DocsOf(dev, e)'
        BY <3>1 DEF DocsOf
      <4>2. OutcomeOf(dev, e) = docs[k].status
        BY DEF OutcomesRead
      <4>3. OutcomeOf(dev, e)' = docs'[k].status
        BY <4>1 DEF OutcomesRead
      <4> QED BY <1>3, <4>1, <4>2, <4>3
    <3> QED BY <3>2, <3>3
  <2>4. \A dev \in Devices : dev \in Lifecycle!ActiveIn(d) <=> OutcomeOf(dev, d) \in ActiveStatuses
    BY <2>2 DEF Lifecycle!ActiveIn, ActiveStatuses, Lifecycle!ActiveStatuses
  <2>5. OutcomeView' = [OutcomeView EXCEPT ![d] =
                          [dev \in Devices |-> IF dev \in Lifecycle!ActiveIn(d) THEN "aborted"
                                               ELSE @[dev]]]
    BY <2>2, <2>3, <2>4 DEF OutcomeView
  <2>6. ListedView' = ListedView /\ ClosedView' = ClosedView /\ ~ClosedView[d]
    BY <1>2, <2>2 DEF ListedView, ListedIn, Listed, Stored, ClosedView
  <2>7. Lifecycle!AbortAll(d)
    BY <2>5, <2>6 DEF Lifecycle!AbortAll, ListedView, ListedIn, ClosedView, OutcomeView
  <2> QED BY <2>2, <2>7 DEF Lifecycle!Next, Lifecycle!Deployments, Deployments
<1> QED BY <1>5, <1>6

\* No step makes a request set a device back.
LEMMA StepLeadsOn ==
    ASSUME Serial, LifeInv, Step(Server), NEW next, Continue(Server, next)
    PROVE  next.pc = "update_status" => next.new # "pending"
<1>0. /\ SerialInv /\ IInv /\ Honest /\ Server \in Workers /\ Job = workers[Server]
      /\ Proper(Job) /\ (Job.kind \in DeviceKinds => Ready)
  BY SerialFacts DEF LifeInv, SerialInv, Prepared
<1>1. CASE Job.kind \in DeviceKinds
  <2>1. PICK other : /\ Continue(Server, other)
                     /\ other.pc = "update_status" => other.new # "pending"
    BY <1>0, <1>1, StepSetsNoneBack
  <2>2. next = other
    BY <1>0, <2>1, OneNext
  <2> QED BY <2>1, <2>2
<1>2. CASE Job.kind \in DeviceWideKinds
  BY <1>0, <1>2, WideAhead
<1>3. CASE Job.kind = "abort"
  BY <1>0, <1>3, AbortAhead
<1>4. Job.kind \in DeviceKinds \union DeviceWideKinds \union {"abort"}
  <2>1. Job.kind # "none"
    BY <1>0, StepAt DEF Proper, Routine, DeviceWideKinds
  <2> QED BY <1>0, <2>1 DEF Proper, Routine, DeviceKinds, DeviceWideKinds
<1> QED BY <1>1, <1>2, <1>3, <1>4

\* Every step keeps the invariant.
LEMMA NextLifeInv == ASSUME Serial PROVE LifeInv /\ [Next]_vars => LifeInv'
<1> SUFFICES ASSUME LifeInv, [Next]_vars PROVE LifeInv'
  OBVIOUS
<1>0. SerialInv /\ IInv /\ Submitted /\ \A w \in Workers : w = Server
  BY SerialFacts, JobAfter DEF LifeInv
<1>1. SerialInv' /\ Submitted'
  BY <1>0, NextSerialInv, NextSubmitted
<1>2. CASE Create \/ UNCHANGED vars
  <2>1. UNCHANGED workers
    BY <1>2 DEF vars, Create, BuildDeployment, InsertDeployment
  <2>2. NoneSetBack'
    BY <2>1 DEF LifeInv, NoneSetBack
  <2> QED BY <1>1, <2>2 DEF LifeInv
<1>3. ASSUME NEW next, Continue(Server, next), next.pc = "update_status" => next.new # "pending"
      PROVE  LifeInv'
  <2>1. \A w \in Workers : workers'[w] = next
    BY <1>0, <1>3, JobAfter
  <2>2. NoneSetBack'
    BY <1>3, <2>1 DEF NoneSetBack
  <2> QED BY <1>1, <2>2 DEF LifeInv
<1>4. CASE Request(Server)
  <2>1. PICK next : /\ Continue(Server, next)
                    /\ \/ PollArrives(next) \/ ReportArrives(next)
                       \/ AbortArrives(next) \/ WideArrives(next)
    BY <1>4, ArrivalIs
  <2>2. next.pc \in {"find_active", "get_dd", "check_finished"}
    BY <1>0, <2>1, ArrivedIs
  <2> QED BY <1>3, <2>1, <2>2
<1>5. CASE Step(Server)
  <2>1. PICK next : Continue(Server, next)
    BY <1>5, SerialFacts, <1>0, StepContinues
  <2> QED BY <1>3, <1>5, <2>1, StepLeadsOn
<1>6. ~Fail(Server)
  BY <1>0 DEF Fail, Serial, IInv, TypeOK
<1> QED BY <1>0, <1>2, <1>4, <1>5, <1>6 DEF Next

\* The initial states satisfy it.
LEMMA InitLifeInv == ASSUME Serial PROVE Init => LifeInv
<1>1. Init => Submitted /\ NoneSetBack
  BY DEF Init, Submitted, NoneSetBack, Idle
<1> QED BY <1>1, InitSerialInv DEF LifeInv

\* The storing of deployments opens them.
LEMMA LifeCreates ==
    ASSUME Serial, LifeInv, OutcomesRead, OutcomesRead', Create
    PROVE  [Lifecycle!Next]_Lifecycle!vars
<1>0. IInv /\ Submitted /\ deployments \in [Deployments -> DeploymentType]
  BY SerialFacts DEF LifeInv, IInv, TypeOK
<1>1. ASSUME NEW d \in Deployments, InsertDeployment(d)
      PROVE  Lifecycle!Next
  BY <1>0, <1>1, InsertOpens
<1>2. ASSUME NEW list \in DeviceLists, BuildDeployment(list)
      PROVE  UNCHANGED Lifecycle!vars
  <2> DEFINE stats == InitialStats(Len(list))
  <2>1. PICK e \in Deployments :
          /\ deployments[e].stage = "none"
          /\ deployments' = [deployments EXCEPT ![e].stage = "built", ![e].list = list,
                                             ![e].stats = stats]
    BY <1>2 DEF BuildDeployment
  <2> HIDE DEF stats
  <2>2. ASSUME NEW d \in Deployments
        PROVE  /\ ListedIn(d)' = ListedIn(d)
               /\ deployments'[d].finished = deployments[d].finished
    <3>1. \/ deployments'[d] = deployments[d]
          \/ /\ deployments[d].stage = "none"
             /\ deployments'[d].stage = "built"
             /\ deployments'[d].finished = deployments[d].finished
      BY <1>0, <2>1 DEF DeploymentType
    <3> QED BY <3>1 DEF ListedIn, Listed, Stored
  <2>3. StatusesStay /\ \A i \in DOMAIN docs : docs'[i].dev = docs[i].dev
    BY <1>2 DEF BuildDeployment, StatusesStay
  <2>4. \A d \in Deployments, dev \in Devices : OutcomeOf(dev, d)' = OutcomeOf(dev, d)
    BY <2>3, OutcomeStays
  <2> QED BY <2>2, <2>4, LifecycleStutters
<1> QED BY <1>1, <1>2 DEF Create

\* Every step is one of the lifecycle, or none.
LEMMA LifeStep ==
    ASSUME Serial, LifeInv, LifeInv', [Next]_vars
    PROVE  [Lifecycle!Next]_Lifecycle!vars
<1>0. /\ SerialInv /\ IInv /\ Server \in Workers /\ \A w \in Workers : w = Server
      /\ OutcomesRead /\ OutcomesRead'
  BY SerialFacts, JobAfter, LifeRead, LifeReadNext DEF LifeInv
<1>1. ASSUME UNCHANGED <<deployments, docs>>
      PROVE  UNCHANGED Lifecycle!vars
  BY <1>0, <1>1, LifeStutters DEF StatusesStay, Stored
<1>2. CASE UNCHANGED vars
  BY <1>1, <1>2 DEF vars
<1>3. CASE Create
  BY <1>0, <1>3, LifeCreates
<1>4. CASE Request(Server)
  BY <1>1, <1>4, ArrivalIs
<1>5. CASE Step(Server)
  <2>1. PICK next : Continue(Server, next)
    BY <1>0, <1>5, StepContinues
  <2>2. CASE InsertDeviceDeployment(Server)
    BY <1>0, <1>5, <2>1, <2>2, LifeStarts
  <2>3. CASE UpdateStatus(Server)
    BY <1>0, <2>1, <2>3, LifeChanges
  <2>4. CASE AbortDocs(Server)
    BY <1>0, <2>4, LifeAborts
  <2>5. CASE SetStatus(Server) \/ Finish(Server)
    BY <1>0, <1>5, <2>5, LifeCloses
  <2>6. CASE /\ ~InsertDeviceDeployment(Server) /\ ~UpdateStatus(Server) /\ ~AbortDocs(Server)
             /\ ~SetStatus(Server) /\ ~Finish(Server)
    <3>1. StatusesStay /\ \A i \in DOMAIN docs : docs'[i].dev = docs[i].dev
      BY <1>0, <1>5, <2>6, DocsSteady DEF Steady, StatusesStay
    <3>2. ASSUME NEW d \in Deployments
          PROVE  /\ deployments'[d].list = deployments[d].list
                 /\ Stored(d)' <=> Stored(d)
                 /\ deployments'[d].finished = deployments[d].finished
      BY <1>0, <1>5, <2>6, DeploymentKept DEF Stored
    <3> QED BY <1>0, <3>1, <3>2, LifeStutters
  <2> QED BY <2>2, <2>3, <2>4, <2>5, <2>6
<1>6. ~Fail(Server)
  BY <1>0 DEF Fail, Serial, IInv, TypeOK
<1> QED BY <1>0, <1>2, <1>3, <1>4, <1>5, <1>6 DEF Next

\* The handlers implement the lifecycle of device deployments (ImplementsLifecycle) with the
\* requests of operators too, when requests come one after the other: the abort of a
\* deployment or of the deployments of a device, and decommissioning, which inserts device
\* deployments with an outcome.  Each device goes through the deployments that list it in
\* order and one at a time, an outcome is final, and a deployment is closed only when no
\* device is active in it and takes in no device after that.
THEOREM LifecycleImplementedSerially ==
    ASSUME Serial
    PROVE  Spec => ImplementsLifecycle
<1>1. Init => LifeInv
  BY InitLifeInv
<1>2. LifeInv /\ [Next]_vars => LifeInv'
  BY NextLifeInv
<1>3. LifeInv /\ LifeInv' /\ [Next]_vars => [Lifecycle!Next]_Lifecycle!vars
  BY LifeStep
<1> QED BY <1>1, <1>2, <1>3, LifecycleInit, PTL DEF Spec, ImplementsLifecycle, Lifecycle!Spec
=============================================================================
