------------------- MODULE DeviceDeployments_traffic -------------------
(***************************************************************************)
(* Theorems about device deployments that follow a request over several of *)
(* its steps: what a worker holds in its local variables while the others  *)
(* run.  The counters are accounted for step by step (CountersAccountedFor)*)
(* until an operator acts or a request is cut short; the order of delivery *)
(* and the device limit are shown for devices that wait for the answer to  *)
(* one request before they send the next (PerDevice = 1); the finish of a  *)
(* deployment, that it is final once nothing in flight holds it, and that  *)
(* the handlers implement DeploymentLifecycle, for devices that report on  *)
(* what they were given as well (Obedient): any number of devices and of   *)
(* requests at once.                                                       *)
(***************************************************************************)
EXTENDS DeviceDeployments_proofs

---------------------------------------------------------------------------
(* Where the requests of devices and the aborts of deployments go.          *)

\* Where an update of a status is, past the write of the device deployment.
AfterPCs == {"find_deployment", "inc_stats", "set_status", "save_last"}

PollPCs == (DevicePCs \ {"get_dd"}) \union {"respond"}
ReportPCs == {"get_dd", "update_status", "respond"} \union AfterPCs

\* A request of a device or an abort, at an operation such a request has.
Routine(job) ==
    \/ job.kind = "none" /\ job.pc = "idle"
    \/ job.kind = "poll" /\ job.pc \in PollPCs
    \/ job.kind = "report" /\ job.pc \in ReportPCs
    \/ job.kind = "abort" /\ job.pc \in AbortPCs

\* The request stays on the same device and deployment.
Keeps(job, next) == next.kind = job.kind /\ next.dev = job.dev /\ next.dep = job.dep

\* The request gets an answer.
Answered(job, next, st, answer) ==
    Keeps(job, next) /\ next.pc = "respond" /\ next.new = st /\ next.answer = answer

\* How an update of a status to st begins, or ends at once.
Begun(job, st, next) ==
    \/ Answered(job, next, job.new, "refused")
    \/ job.cur = st /\ \E answer \in {"ok", "none", "conflict"} : Answered(job, next, st, answer)
    \/ /\ job.cur # st /\ job.cur \notin {"aborted", "decommissioned"}
       /\ Keeps(job, next) /\ next.pc = "update_status" /\ next.new = st /\ next.cur = job.cur

\* How it ends.
Over(job, next) ==
    \/ job.kind = "report" /\ Answered(job, next, job.new, "ok")
    \/ job.kind = "poll" /\ job.new = "failure" /\ Answered(job, next, job.new, "conflict")
    \/ job.kind = "poll" /\ job.new # "failure" /\ Answered(job, next, job.new, "none")

\* How it goes on past the counters.
Passed(job, next) ==
    \/ Active(job.new) /\ Over(job, next)
    \/ ~Active(job.new) /\ Keeps(job, next) /\ next.pc = "save_last" /\ next.new = job.new

\* An answered request keeps its parameters.
LEMMA ReplyIs ==
    ASSUME NEW job \in WorkerType, NEW answer \in Answers
    PROVE  Answered(job, Reply(job, answer), job.new, answer) /\ Reply(job, answer) \in WorkerType
<1>1. /\ Params(job) \in WorkerType
      /\ Params(job).kind = job.kind /\ Params(job).dev = job.dev
      /\ Params(job).dep = job.dep /\ Params(job).new = job.new
  BY ParamsTyped
<1> DEFINE params == Params(job)
<1> HIDE DEF params
<1>2. Reply(job, answer) = [params EXCEPT !.pc = "respond", !.answer = answer]
  BY DEF Reply, params
<1>3. params \in WorkerType
  BY <1>1 DEF params
<1>4. [params EXCEPT !.pc = "respond", !.answer = answer] \in WorkerType
  BY <1>3, FieldsTyped, "respond" \in PCs DEF PCs
<1>5. Answered(params, [params EXCEPT !.pc = "respond", !.answer = answer], params.new, answer)
  BY <1>3 DEF Answered, Keeps, WorkerType
<1> QED BY <1>1, <1>2, <1>4, <1>5 DEF Answered, Keeps, params

\* What follows an update of a device is its answer.
LEMMA AfterUpdateIs ==
    ASSUME NEW job \in WorkerType, job.kind \in DeviceKinds
    PROVE  Over(job, AfterUpdate(job))
<1>1. \A answer \in {"ok", "none", "conflict"} : Answered(job, Reply(job, answer), job.new, answer)
  BY ReplyIs DEF Answers
<1>2. CASE job.kind = "report"
  BY <1>1, <1>2 DEF AfterUpdate, Over, DeviceWideKinds
<1>3. CASE job.kind = "poll"
  BY <1>1, <1>3 DEF AfterUpdate, Over, DeviceWideKinds
<1> QED BY <1>2, <1>3 DEF DeviceKinds

\* An update of a device's request begins as Begun says.
LEMMA BeginUpdateIs ==
    ASSUME NEW job \in WorkerType, job.kind \in DeviceKinds, NEW st \in Statuses
    PROVE  Begun(job, st, BeginUpdate(job, st))
<1> DEFINE same == [job EXCEPT !.new = st]
           params == Params(job)
           next == [params EXCEPT !.pc = "update_status", !.new = st, !.cur = job.cur]
<1>0. st \in SomeStatus
  BY DEF SomeStatus
<1>1. CASE job.cur \in {"aborted", "decommissioned"}
  <2>1. Answered(job, Reply(job, "refused"), job.new, "refused")
    BY ReplyIs DEF Answers
  <2> QED BY <1>1, <2>1 DEF BeginUpdate, Ended, Begun
<1>2. CASE job.cur \notin {"aborted", "decommissioned"} /\ job.cur = st
  <2>1. same \in WorkerType
    BY <1>0, FieldsTyped
  <2>2. Keeps(job, same) /\ same.new = st
    BY DEF Keeps, WorkerType
  <2> HIDE DEF same
  <2>3. Over(same, AfterUpdate(same))
    BY <2>1, <2>2, AfterUpdateIs DEF Keeps
  <2>4. \E answer \in {"ok", "none", "conflict"} : Answered(job, AfterUpdate(same), st, answer)
    BY <2>2, <2>3 DEF Over, Answered, Keeps
  <2>5. BeginUpdate(job, st) = AfterUpdate(same)
    BY <1>2 DEF BeginUpdate, same
  <2> QED BY <1>2, <2>4, <2>5 DEF Begun
<1>3. CASE job.cur \notin {"aborted", "decommissioned"} /\ job.cur # st
  <2>1. params \in WorkerType /\ Keeps(job, params)
    BY ParamsTyped DEF Keeps
  <2>2. BeginUpdate(job, st) = next
    BY <1>3 DEF BeginUpdate
  <2> HIDE DEF params
  <2>3. next.pc = "update_status" /\ next.new = st /\ next.cur = job.cur /\ Keeps(params, next)
    BY <2>1 DEF Keeps, WorkerType
  <2> QED BY <1>3, <2>1, <2>2, <2>3 DEF Begun, Keeps
<1> QED BY <1>1, <1>2, <1>3

\* Past the counters a request of a device goes on as Passed says.
LEMMA PastCountersIs ==
    ASSUME NEW job \in WorkerType, job.kind \in DeviceKinds
    PROVE  Passed(job, PastCounters(job))
<1> DEFINE params == Params(job)
           next == [params EXCEPT !.pc = "save_last"]
<1>1. CASE Active(job.new)
  BY <1>1, AfterUpdateIs DEF PastCounters, Passed
<1>2. CASE ~Active(job.new)
  <2>1. params \in WorkerType /\ Keeps(job, params) /\ params.new = job.new
    BY ParamsTyped DEF Keeps
  <2>2. PastCounters(job) = next
    BY <1>2 DEF PastCounters
  <2> HIDE DEF params
  <2>3. next.pc = "save_last" /\ next.new = params.new /\ Keeps(params, next)
    BY <2>1 DEF Keeps, WorkerType
  <2> QED BY <1>2, <2>1, <2>2, <2>3 DEF Passed, Keeps
<1> QED BY <1>1, <1>2

\* The instructions for a device end in an update, a count of what is handed out
\* or an offer.
InstructedBy(job, assigned, next) ==
    \/ /\ job.dep \notin Forced /\ <<job.dep, job.req>> \in Installed /\ job.cur = "pending"
       /\ Begun(job, "already-installed", next)
    \/ /\ ~(job.dep \notin Forced /\ <<job.dep, job.req>> \in Installed /\ job.cur = "pending")
       /\ \/ assigned /\ Keeps(job, next) /\ next.pc = "inc_size" /\ next.new = job.new
             /\ next.req = job.req
          \/ Answered(job, next, job.new, "offer")

\* Instruct returns what InstructedBy says.
LEMMA InstructIs ==
    ASSUME NEW job \in WorkerType, job.kind \in DeviceKinds, NEW assigned \in BOOLEAN
    PROVE  InstructedBy(job, assigned, Instruct(job, assigned))
<1> DEFINE next == [job EXCEPT !.pc = "inc_size"]
           fits == job.dep \notin Forced /\ <<job.dep, job.req>> \in Installed
                     /\ job.cur = "pending"
<1>1. CASE fits
  <2>1. Begun(job, "already-installed", BeginUpdate(job, "already-installed"))
    BY BeginUpdateIs DEF Statuses, FinishedStatuses
  <2> QED BY <1>1, <2>1 DEF Instruct, InstructedBy
<1>2. CASE ~fits /\ assigned
  <2>1. Keeps(job, next) /\ next.pc = "inc_size" /\ next.new = job.new /\ next.req = job.req
    BY DEF Keeps, WorkerType
  <2> QED BY <1>2, <2>1 DEF Instruct, InstructedBy
<1>3. CASE ~fits /\ ~assigned
  <2>1. Answered(job, Reply(job, "offer"), job.new, "offer")
    BY ReplyIs DEF Answers
  <2> QED BY <1>3, <2>1 DEF Instruct, InstructedBy
<1> QED BY <1>1, <1>2, <1>3
---------------------------------------------------------------------------
(* One lemma per operation: what a device's request becomes.                *)

\* The copy of a device deployment stays, and so does what the device asks for.
Copies(job, next) ==
    /\ next.doc = job.doc /\ next.cur = job.cur
    /\ next.cur_req = job.cur_req /\ next.image = job.image /\ next.req = job.req

\* The document a poll inserts.
NewDoc(job) ==
    [dev |-> job.dev, dep |-> job.dep, status |-> "pending", active |-> TRUE,
     deleted |-> FALSE, request |-> NoRequest, image |-> FALSE]

\* A poll finds an active device deployment or looks on.
FindActiveWay(job, next) ==
    /\ next.kind = job.kind /\ next.dev = job.dev /\ next.req = job.req
    /\ \/ OldestActive(job.dev) = {} /\ next.pc = "find_inactive" /\ next.dep = job.dep
       \/ \E i \in OldestActive(job.dev) :
            /\ next.pc = "save_request" /\ next.dep = docs[i].dep /\ next.doc = i
            /\ next.cur = docs[i].status /\ next.cur_req = docs[i].request
            /\ next.image = docs[i].image

\* FindActive moves a poll as FindActiveWay says.
LEMMA FindActiveIs ==
    ASSUME IInv, NEW w \in Workers, workers[w].kind = "poll", FindActive(w)
    PROVE  \E next : Continue(w, next) /\ FindActiveWay(workers[w], next)
<1> DEFINE job == workers[w]
           none == [job EXCEPT !.pc = "find_inactive"]
<1>1. job \in WorkerType
  BY JobFacts
<1>2. CASE OldestActive(job.dev) = {} /\ Continue(w, none)
  <2>1. /\ none.pc = "find_inactive" /\ none.dep = job.dep /\ none.kind = job.kind
        /\ none.dev = job.dev /\ none.req = job.req
    BY <1>1 DEF WorkerType
  <2> QED BY <1>2, <2>1 DEF FindActiveWay
<1>3. ASSUME NEW i \in OldestActive(job.dev),
             Continue(w, [WithDoc(job, i) EXCEPT !.pc = "save_request"])
      PROVE  \E next : Continue(w, next) /\ FindActiveWay(job, next)
  <2> DEFINE next == [WithDoc(job, i) EXCEPT !.pc = "save_request"]
  <2>1. /\ next.pc = "save_request" /\ next.dep = docs[i].dep /\ next.doc = i
        /\ next.cur = docs[i].status /\ next.cur_req = docs[i].request
        /\ next.image = docs[i].image /\ next.kind = job.kind
        /\ next.dev = job.dev /\ next.req = job.req
    BY <1>1 DEF WithDoc, WorkerType
  <2> HIDE DEF next
  <2>2. FindActiveWay(job, next)
    BY <2>1 DEF FindActiveWay
  <2> QED BY <1>3, <2>2 DEF next
<1> QED BY <1>2, <1>3 DEF FindActive

\* A poll searches from its last deployment, if it has one.
FindInactiveWay(job, next) ==
    /\ Keeps(job, next) /\ next.req = job.req /\ next.pc = "find_newer"
    /\ \/ LatestInactive(job.dev) = {} /\ next.after = job.after
       \/ \E i \in LatestInactive(job.dev) : next.after = docs[i].dep

\* FindInactive moves a request as FindInactiveWay says.
LEMMA FindInactiveIs ==
    ASSUME IInv, NEW w \in Workers, FindInactive(w)
    PROVE  \E next : Continue(w, next) /\ FindInactiveWay(workers[w], next)
<1> DEFINE job == workers[w]
           on == [job EXCEPT !.pc = "find_newer"]
<1>1. job \in WorkerType
  BY JobFacts
<1>2. /\ Keeps(job, on) /\ on.req = job.req /\ on.pc = "find_newer"
      /\ on.after = job.after /\ on.dev = job.dev
  BY <1>1 DEF WorkerType, Keeps
<1>3. on \in WorkerType
  BY <1>1, FieldsTyped, "find_newer" \in PCs DEF PCs
<1>4. \/ LatestInactive(job.dev) = {} /\ Continue(w, on)
      \/ \E i \in LatestInactive(job.dev) : Continue(w, [on EXCEPT !.after = docs[i].dep])
  BY <1>2 DEF FindInactive
<1> HIDE DEF on
<1>5. \A i : /\ Keeps(job, [on EXCEPT !.after = docs[i].dep])
             /\ [on EXCEPT !.after = docs[i].dep].req = job.req
             /\ [on EXCEPT !.after = docs[i].dep].pc = "find_newer"
             /\ [on EXCEPT !.after = docs[i].dep].after = docs[i].dep
  BY <1>2, <1>3 DEF WorkerType, Keeps
<1>6. LatestInactive(job.dev) = {} => FindInactiveWay(job, on)
  BY <1>2 DEF FindInactiveWay
<1>7. \A i \in LatestInactive(job.dev) : FindInactiveWay(job, [on EXCEPT !.after = docs[i].dep])
  BY <1>5 DEF FindInactiveWay
<1> QED BY <1>4, <1>6, <1>7

\* A poll finds nothing, passes over a full deployment or takes one.
FindNewerWay(job, next) ==
    \/ NewerActive(job.dev, job.after) = {} /\ Answered(job, next, job.new, "none")
    \/ \E d \in NewerActive(job.dev, job.after) :
         /\ next.kind = job.kind /\ next.dev = job.dev /\ next.req = job.req
         /\ \/ next.pc = "find_newer" /\ next.after = d /\ next.dep = job.dep
            \/ next.pc = "find_existing" /\ next.dep = d

\* FindNewer moves a poll as FindNewerWay says.
LEMMA FindNewerIs ==
    ASSUME IInv, NEW w \in Workers, workers[w].kind = "poll", FindNewer(w)
    PROVE  \E next : Continue(w, next) /\ FindNewerWay(workers[w], next)
<1> DEFINE job == workers[w]
<1>1. job \in WorkerType /\ job.pc = "find_newer"
  BY JobFacts DEF FindNewer, At
<1>2. CASE NewerActive(job.dev, job.after) = {} /\ Continue(w, Ended(job, "none"))
  <2>1. Answered(job, Reply(job, "none"), job.new, "none")
    BY <1>1, ReplyIs DEF Answers
  <2>2. Ended(job, "none") = Reply(job, "none")
    BY DEF Ended, DeviceKinds
  <2> QED BY <1>2, <2>1, <2>2 DEF FindNewerWay
<1>3. ASSUME NEW d \in NewerActive(job.dev, job.after),
             \/ Continue(w, [job EXCEPT !.after = d])
             \/ Continue(w, [job EXCEPT !.pc = "find_existing", !.dep = d])
      PROVE  \E next : Continue(w, next) /\ FindNewerWay(job, next)
  <2> DEFINE past == [job EXCEPT !.after = d]
             next == [job EXCEPT !.pc = "find_existing", !.dep = d]
  <2>1. /\ past.kind = job.kind /\ past.dev = job.dev /\ past.req = job.req
        /\ past.pc = "find_newer" /\ past.after = d /\ past.dep = job.dep
    BY <1>1 DEF WorkerType
  <2>2. /\ next.kind = job.kind /\ next.dev = job.dev /\ next.req = job.req
        /\ next.pc = "find_existing" /\ next.dep = d
    BY <1>1 DEF WorkerType
  <2> HIDE DEF past, next
  <2>3. FindNewerWay(job, past) /\ FindNewerWay(job, next)
    BY <2>1, <2>2 DEF FindNewerWay
  <2> QED BY <1>3, <2>3 DEF past, next
<1> QED BY <1>2, <1>3 DEF FindNewer

\* A poll learns whether its device is new to the deployment.
FindExistingWay(job, next) ==
    /\ Keeps(job, next) /\ next.req = job.req /\ next.pc = "insert"
    /\ next.first = (DocsOf(job.dev, job.dep) = {})

\* FindExisting moves a request as FindExistingWay says.
LEMMA FindExistingIs ==
    ASSUME IInv, NEW w \in Workers, FindExisting(w)
    PROVE  \E next : Continue(w, next) /\ FindExistingWay(workers[w], next)
<1> DEFINE job == workers[w]
           b == DocsOf(job.dev, job.dep) = {}
           next == [job EXCEPT !.pc = "insert", !.first = b]
<1>1. job \in WorkerType
  BY JobFacts
<1>2. Continue(w, next)
  BY DEF FindExisting
<1> HIDE DEF b
<1>3. Keeps(job, next) /\ next.req = job.req /\ next.pc = "insert" /\ next.first = b
  BY <1>1 DEF WorkerType, Keeps
<1> QED BY <1>2, <1>3 DEF FindExistingWay, b

\* A poll inserts a device deployment.
InsertWay(job, next) ==
    /\ Keeps(job, next) /\ next.req = job.req
    /\ next.doc = Len(docs) + 1 /\ next.cur = "pending"
    /\ next.cur_req = NoRequest /\ next.image = FALSE
    /\ next.pc = IF job.first THEN "inc_count" ELSE "save_request"

\* InsertDeviceDeployment moves a poll as InsertWay says.
LEMMA InsertIs ==
    ASSUME IInv, NEW w \in Workers, workers[w].kind = "poll", InsertDeviceDeployment(w)
    PROVE  /\ \E next : Continue(w, next) /\ InsertWay(workers[w], next)
           /\ docs' = Append(docs, NewDoc(workers[w]))
<1> DEFINE job == workers[w]
           filled == [job EXCEPT !.doc = Len(docs) + 1, !.cur = "pending",
                                 !.cur_req = NoRequest, !.image = FALSE]
<1>1. job \in WorkerType
  BY JobFacts
<1>2. /\ Continue(w, IF job.first THEN [filled EXCEPT !.pc = "inc_count"] ELSE Created(filled))
      /\ docs' = Append(docs, NewDoc(job))
  BY DEF InsertDeviceDeployment, NewDoc, Active, ActiveStatuses
<1>3. /\ Keeps(job, filled) /\ filled.req = job.req /\ filled.kind = "poll"
      /\ filled.doc = Len(docs) + 1 /\ filled.cur = "pending"
      /\ filled.cur_req = NoRequest /\ filled.image = FALSE
  BY <1>1 DEF WorkerType, Keeps
<1>4. filled \in WorkerType
  <2>1. Len(docs) + 1 \in Nat /\ "pending" \in SomeStatus
    BY DEF IInv, TypeOK, SomeStatus, Statuses, ActiveStatuses
  <2> QED BY <1>1, <2>1, FieldsTyped
<1> HIDE DEF filled
<1>5. Created(filled) = [filled EXCEPT !.pc = "save_request"]
  BY <1>3 DEF Created
<1>6. \A p : /\ Keeps(job, [filled EXCEPT !.pc = p]) /\ [filled EXCEPT !.pc = p].req = job.req
             /\ [filled EXCEPT !.pc = p].doc = Len(docs) + 1
             /\ [filled EXCEPT !.pc = p].cur = "pending"
             /\ [filled EXCEPT !.pc = p].cur_req = NoRequest
             /\ [filled EXCEPT !.pc = p].image = FALSE
             /\ [filled EXCEPT !.pc = p].pc = p
  BY <1>3, <1>4 DEF WorkerType, Keeps
<1>7. CASE job.first
  <2>1. InsertWay(job, [filled EXCEPT !.pc = "inc_count"])
    BY <1>6, <1>7 DEF InsertWay
  <2> QED BY <1>2, <1>7, <2>1
<1>8. CASE ~job.first
  <2>1. InsertWay(job, [filled EXCEPT !.pc = "save_request"])
    BY <1>6, <1>8 DEF InsertWay
  <2> QED BY <1>2, <1>5, <1>8, <2>1
<1> QED BY <1>2, <1>7, <1>8

\* IncrementDeviceCount moves a poll to the next operation.
LEMMA CountIs ==
    ASSUME IInv, NEW w \in Workers, workers[w].kind = "poll", IncrementDeviceCount(w)
    PROVE  \E next : /\ Continue(w, next) /\ Keeps(workers[w], next)
                     /\ Copies(workers[w], next) /\ next.pc = "save_request"
<1> DEFINE job == workers[w]
           next == [job EXCEPT !.pc = "save_request"]
<1>1. job \in WorkerType
  BY JobFacts
<1>2. Continue(w, next)
  BY DEF IncrementDeviceCount, Created
<1>3. Keeps(job, next) /\ Copies(job, next) /\ next.pc = "save_request"
  BY <1>1 DEF WorkerType, Keeps, Copies
<1> QED BY <1>2, <1>3

\* The request of a device is stored, is the one stored, or fails the device deployment.
SaveRequestWay(job, next) ==
    \/ /\ job.cur_req \in {NoRequest, job.req}
       /\ Keeps(job, next) /\ Copies(job, next) /\ next.pc = "instructions"
    \/ job.cur_req # NoRequest /\ Begun(job, "failure", next)

\* SaveRequest moves a request as SaveRequestWay says.
LEMMA SaveRequestIs ==
    ASSUME IInv, NEW w \in Workers, workers[w].kind \in DeviceKinds, SaveRequest(w)
    PROVE  /\ \E next : Continue(w, next) /\ SaveRequestWay(workers[w], next)
           /\ docs' = IF workers[w].cur_req = NoRequest
                      THEN [docs EXCEPT ![workers[w].doc].request = workers[w].req] ELSE docs
<1> DEFINE job == workers[w]
           on == [job EXCEPT !.pc = "instructions"]
<1>1. job \in WorkerType
  BY JobFacts
<1>2. Keeps(job, on) /\ Copies(job, on) /\ on.pc = "instructions"
  BY <1>1 DEF WorkerType, Keeps, Copies
<1>3. Begun(job, "failure", BeginUpdate(job, "failure"))
  BY <1>1, BeginUpdateIs DEF Statuses, FinishedStatuses
<1> QED BY <1>2, <1>3 DEF SaveRequest, SaveRequestWay

\* The instructions for a device: an offer, an outcome or a refusal.
InstructionsWay(job, next) ==
    \/ job.dep \in Configuration /\ Answered(job, next, job.new, "offer")
    \/ job.dep \notin Configuration /\ job.image /\ InstructedBy(job, FALSE, next)
    \/ job.dep \notin Configuration /\ ~job.image /\ Begun(job, "noartifact", next)
    \/ Answered(job, next, job.new, "refused")

\* An artifact is assigned to a device deployment of the device.
Assigning(job, next) ==
    /\ job.dep \notin Configuration
    /\ InstructedBy(job, TRUE, next)
    /\ \E i \in NotDeleted(DocsOf(job.dev, job.dep)) : docs' = [docs EXCEPT ![i].image = TRUE]

\* Instructions moves a request as InstructionsWay or Assigning says.
LEMMA InstructionsIs ==
    ASSUME IInv, NEW w \in Workers, workers[w].kind \in DeviceKinds, Instructions(w)
    PROVE  \E next : /\ Continue(w, next)
                     /\ \/ UNCHANGED docs /\ InstructionsWay(workers[w], next)
                        \/ Assigning(workers[w], next)
<1> DEFINE job == workers[w]
           with == [job EXCEPT !.image = TRUE]
           targets == NotDeleted(DocsOf(job.dev, job.dep))
           fits == <<job.dep, job.req>> \in Matching
<1>1. job \in WorkerType
  BY JobFacts
<1>2. /\ Answered(job, Reply(job, "offer"), job.new, "offer")
      /\ Answered(job, Reply(job, "refused"), job.new, "refused")
  BY <1>1, ReplyIs DEF Answers
<1>3. Begun(job, "noartifact", BeginUpdate(job, "noartifact"))
  BY <1>1, BeginUpdateIs DEF Statuses, FinishedStatuses
<1>4. InstructedBy(job, FALSE, Instruct(job, FALSE))
  BY <1>1, InstructIs
<1>5. InstructedBy(job, TRUE, Instruct(with, TRUE))
  <2>1. with \in WorkerType
    BY <1>1, FieldsTyped
  <2>2. Keeps(job, with) /\ with.req = job.req /\ with.cur = job.cur /\ with.new = job.new
    BY <1>1 DEF WorkerType, Keeps
  <2> HIDE DEF with
  <2>3. with.kind \in DeviceKinds
    BY <2>2 DEF Keeps
  <2>4. InstructedBy(with, TRUE, Instruct(with, TRUE))
    BY <2>1, <2>3, InstructIs
  <2> QED BY <2>2, <2>4 DEF InstructedBy, Begun, Answered, Keeps
<1> HIDE DEF with
<1>6. CASE job.dep \in Configuration
  BY <1>2, <1>6 DEF Instructions, InstructionsWay
<1>7. CASE job.dep \notin Configuration /\ job.image
  BY <1>4, <1>7 DEF Instructions, InstructionsWay
<1>8. CASE job.dep \notin Configuration /\ ~job.image /\ ~fits
  BY <1>3, <1>8 DEF Instructions, InstructionsWay
<1>9. CASE job.dep \notin Configuration /\ ~job.image /\ fits /\ targets = {}
  BY <1>2, <1>9 DEF Instructions, InstructionsWay
<1>10. CASE job.dep \notin Configuration /\ ~job.image /\ fits /\ targets # {}
  BY <1>5, <1>10 DEF Instructions, Assigning, with
<1> QED BY <1>6, <1>7, <1>8, <1>9, <1>10

\* IncrementTotalSize answers the device.
LEMMA TotalSizeIs ==
    ASSUME IInv, NEW w \in Workers, IncrementTotalSize(w)
    PROVE  \E next : /\ Continue(w, next)
                     /\ Answered(workers[w], next, workers[w].new, "offer")
BY JobFacts, ReplyIs DEF IncrementTotalSize, Answers

\* A report finds no device deployment, or begins the update of one.
GetWay(job, next) ==
    \/ Answered(job, next, job.new, "refused")
    \/ \E i \in NotDeleted(DocsOf(job.dev, job.dep)), with \in WorkerType :
         /\ Keeps(job, with) /\ with.new = job.new /\ with.cur = docs[i].status
         /\ Begun(with, job.new, next)

\* GetDeviceDeployment moves a report as GetWay says.
LEMMA GetIs ==
    ASSUME IInv, NEW w \in Workers, workers[w].kind = "report", GetDeviceDeployment(w)
    PROVE  \E next : Continue(w, next) /\ GetWay(workers[w], next)
<1> DEFINE job == workers[w]
           found == NotDeleted(DocsOf(job.dev, job.dep))
<1>1. job \in WorkerType /\ job.new \in Statuses /\ DeviceJob(job)
  BY JobFacts DEF GetDeviceDeployment, At, JobOK, DevicePCs
<1>2. Answered(job, Reply(job, "refused"), job.new, "refused")
  BY <1>1, ReplyIs DEF Answers
<1>3. ASSUME NEW i \in found
      PROVE  GetWay(job, BeginUpdate(WithDoc(job, i), job.new))
  <2> DEFINE with == WithDoc(job, i)
  <2>1. i \in DOMAIN docs /\ docs[i].dep = job.dep
    BY <1>3 DEF NotDeleted, DocsOf
  <2>2. with \in WorkerType
    BY <1>1, <2>1, WithDocOK DEF DeviceJob, IInv
  <2>3. Keeps(job, with) /\ with.new = job.new /\ with.cur = docs[i].status
    BY <1>1, <2>1 DEF WithDoc, WorkerType, Keeps
  <2> HIDE DEF with
  <2>4. with.kind \in DeviceKinds
    BY <2>3 DEF Keeps, DeviceKinds
  <2>5. Begun(with, job.new, BeginUpdate(with, job.new))
    BY <1>1, <2>2, <2>4, BeginUpdateIs
  <2> QED BY <2>2, <2>3, <2>5 DEF GetWay, with
<1> QED BY <1>2, <1>3 DEF GetDeviceDeployment, GetWay

\* The device deployment whose status an update writes.
Writes(job, i) ==
    /\ i \in NotDeleted(DocsOf(job.dev, job.dep))
    /\ docs' = [docs EXCEPT ![i].status = job.new, ![i].active = Active(job.new)]

\* An update finds nothing to write, or writes the status and goes on.
UpdateWay(job, next) ==
    \/ UNCHANGED docs /\ Answered(job, next, job.new, "refused")
    \/ \E i : /\ Writes(job, i)
              /\ \/ docs[i].status = job.new /\ Passed(job, next)
                 \/ /\ docs[i].status # job.new /\ next.old = docs[i].status
                    /\ Keeps(job, next) /\ next.new = job.new /\ next.pc = "find_deployment"

\* UpdateStatus moves a request as UpdateWay says.
LEMMA UpdateIs ==
    ASSUME IInv, NEW w \in Workers, workers[w].kind \in DeviceKinds, UpdateStatus(w)
    PROVE  \E next : Continue(w, next) /\ UpdateWay(workers[w], next)
<1> DEFINE job == workers[w]
           params == Params(job)
           found == NotDeleted(DocsOf(job.dev, job.dep))
           next(i) == [params EXCEPT !.pc = "find_deployment", !.old = docs[i].status]
<1>1. job \in WorkerType
  BY JobFacts
<1>2. Answered(job, Ended(job, "refused"), job.new, "refused")
  BY <1>1, ReplyIs DEF Answers, Ended
<1>3. Passed(job, PastCounters(job))
  BY <1>1, PastCountersIs
<1>4. params \in WorkerType /\ Keeps(job, params) /\ params.new = job.new
  BY <1>1, ParamsTyped DEF Keeps
<1>5. \/ docs' = docs /\ Continue(w, Ended(job, "refused"))
      \/ \E i \in found :
           /\ Writes(job, i)
           /\ Continue(w, IF docs[i].status = job.new THEN PastCounters(job) ELSE next(i))
  BY DEF UpdateStatus, Writes
<1> HIDE DEF params
<1>6. \A i : /\ next(i).old = docs[i].status /\ Keeps(job, next(i))
             /\ next(i).new = job.new /\ next(i).pc = "find_deployment"
  BY <1>4 DEF Keeps, WorkerType
<1>7. CASE docs' = docs /\ Continue(w, Ended(job, "refused"))
  BY <1>2, <1>7 DEF UpdateWay
<1>8. ASSUME NEW i \in found, Writes(job, i),
             Continue(w, IF docs[i].status = job.new THEN PastCounters(job) ELSE next(i))
      PROVE  \E n : Continue(w, n) /\ UpdateWay(job, n)
  <2>1. CASE docs[i].status = job.new
    BY <1>3, <1>8, <2>1 DEF UpdateWay
  <2>2. CASE docs[i].status # job.new
    <3>1. UpdateWay(job, next(i))
      BY <1>6, <1>8, <2>2 DEF UpdateWay
    <3> QED BY <1>8, <2>2, <3>1
  <2> QED BY <2>1, <2>2
<1> QED BY <1>5, <1>7, <1>8

\* The copy of the deployment an update makes before it moves the counters.
FindDeploymentWay(job, next) ==
    /\ Keeps(job, next) /\ next.new = job.new /\ next.old = job.old /\ next.pc = "inc_stats"
    /\ next.was_finished = deployments[job.dep].finished
    /\ next.overall = OverallStatus(job.dep)

\* FindDeployment moves a request as FindDeploymentWay says.
LEMMA FindDeploymentIs ==
    ASSUME IInv, NEW w \in Workers, FindDeployment(w)
    PROVE  \E next : Continue(w, next) /\ FindDeploymentWay(workers[w], next)
<1> DEFINE job == workers[w]
           finished == deployments[job.dep].finished
           stats == deployments[job.dep].stats
           overall == OverallStatus(job.dep)
           next == [job EXCEPT !.pc = "inc_stats", !.was_finished = finished,
                               !.stats = stats, !.overall = overall]
<1>1. job \in WorkerType
  BY JobFacts
<1>2. Continue(w, next)
  BY DEF FindDeployment
<1> HIDE DEF finished, stats, overall
<1>3. /\ Keeps(job, next) /\ next.new = job.new /\ next.old = job.old /\ next.pc = "inc_stats"
      /\ next.was_finished = finished /\ next.overall = overall
  BY <1>1 DEF WorkerType, Keeps
<1> QED BY <1>2, <1>3 DEF FindDeploymentWay, finished, overall

\* The counters after an update has moved its device.
StatsAfter(job) == StatsInc(deployments[job.dep].stats, job.old, job.new)
OverallAfter(job) == GetStatus(job.was_finished, MaxDevices(job.dep), StatsAfter(job))

\* An update sets the status of the deployment if that is another one than before.
IncWay(job, next) ==
    \/ OverallAfter(job) = job.overall /\ Passed(job, next)
    \/ /\ OverallAfter(job) # job.overall /\ next.overall = OverallAfter(job)
       /\ Keeps(job, next) /\ next.new = job.new /\ next.pc = "set_status"

\* UpdateStatsInc moves a request as IncWay says.
LEMMA IncIs ==
    ASSUME IInv, NEW w \in Workers, workers[w].kind \in DeviceKinds, UpdateStatsInc(w)
    PROVE  /\ \E next : Continue(w, next) /\ IncWay(workers[w], next)
           /\ deployments' = [deployments EXCEPT ![workers[w].dep].stats = StatsAfter(workers[w])]
<1> DEFINE job == workers[w]
           params == Params(job)
           overall == OverallAfter(job)
           next == [params EXCEPT !.pc = "set_status", !.overall = overall]
<1>1. job \in WorkerType
  BY JobFacts
<1>2. Passed(job, PastCounters(job))
  BY <1>1, PastCountersIs
<1>3. params \in WorkerType /\ Keeps(job, params) /\ params.new = job.new
  BY <1>1, ParamsTyped DEF Keeps
<1>4. /\ Continue(w, IF overall = job.overall THEN PastCounters(job) ELSE next)
      /\ deployments' = [deployments EXCEPT ![job.dep].stats = StatsAfter(job)]
  BY DEF UpdateStatsInc, OverallAfter, StatsAfter
<1> HIDE DEF params, overall
<1>5. next.overall = overall /\ Keeps(job, next) /\ next.new = job.new /\ next.pc = "set_status"
  BY <1>3 DEF Keeps, WorkerType
<1>6. CASE overall = job.overall
  BY <1>2, <1>4, <1>6 DEF IncWay, overall
<1>7. CASE overall # job.overall
  <2>1. IncWay(job, next)
    BY <1>5, <1>7 DEF IncWay, overall
  <2> QED BY <1>4, <1>7, <2>1
<1> QED BY <1>4, <1>6, <1>7

\* SetStatus goes on past the counters.
LEMMA SetStatusIs ==
    ASSUME IInv, NEW w \in Workers, workers[w].kind \in DeviceKinds, SetStatus(w)
    PROVE  \E next : Continue(w, next) /\ Passed(workers[w], next)
BY JobFacts, PastCountersIs DEF SetStatus

\* SaveLastStatus ends the update.
LEMMA SaveLastIs ==
    ASSUME IInv, NEW w \in Workers, workers[w].kind \in DeviceKinds, SaveLastStatus(w)
    PROVE  \E next : Continue(w, next) /\ Over(workers[w], next)
BY JobFacts, AfterUpdateIs DEF SaveLastStatus

\* An abort goes through its operations and ends.
AbortWay(job, next) ==
    \/ next = Idle
    \/ next.kind = "abort" /\ next.dep = job.dep /\ next.pc \in AbortPCs \ {"check_finished"}

\* The steps of an abort move it as AbortWay says.
LEMMA AbortIs ==
    ASSUME IInv, NEW w \in Workers, workers[w].pc \in AbortPCs, Step(w)
    PROVE  \E next : Continue(w, next) /\ AbortWay(workers[w], next)
<1> DEFINE job == workers[w]
           params == Params(job)
           last == [params EXCEPT !.pc = "finish"]
<1>1. job \in WorkerType /\ job.kind = "abort"
  BY JobFacts DEF JobOK
<1>2. params \in WorkerType /\ Keeps(job, params)
  BY <1>1, ParamsTyped DEF Keeps
<1>3. \/ CheckFinished(w) \/ AbortDocs(w) \/ Aggregate(w) \/ UpdateStats(w) \/ Finish(w)
  BY DEF Step, Respond, FindActive, FindInactive, FindNewer, FindExisting,
     InsertDeviceDeployment, IncrementDeviceCount, SaveRequest, Instructions,
     IncrementTotalSize, GetDeviceDeployment, UpdateStatus, FindDeployment, UpdateStatsInc,
     SetStatus, SaveLastStatus, GetHistory, MarkDeleted, DeleteLast, At, AbortPCs
<1>4. \A p \in {"abort_docs", "aggregate"} : AbortWay(job, [job EXCEPT !.pc = p])
  BY <1>1 DEF WorkerType, AbortWay, AbortPCs
<1>5. \A stats : AbortWay(job, [job EXCEPT !.pc = "update_stats", !.stats = stats])
  BY <1>1 DEF WorkerType, AbortWay, AbortPCs
<1>6. UpdateStats(w) => Continue(w, last)
  BY DEF UpdateStats
<1> HIDE DEF params
<1>7. AbortWay(job, last)
  BY <1>1, <1>2 DEF WorkerType, AbortWay, AbortPCs, Keeps
<1>8. AbortWay(job, Idle)
  BY DEF AbortWay
<1> QED BY <1>3, <1>4, <1>5, <1>6, <1>7, <1>8
  DEF CheckFinished, AbortDocs, Aggregate, Finish

---------------------------------------------------------------------------
(* Only polls, reports and aborts of deployments.                           *)

\* No operator has dealt with a single device so far.
Plain == admin = 0 \/ Kinds \subseteq DeviceKinds \union {"abort"}

\* A request on a deployment is on one in the store.
Refers(job) == job.dep \in Deployments => Stored(job.dep)

Busy == {w \in Workers : workers[w].pc # "idle"}

\* Finitely many requests are in flight, each at an operation of its kind.
Ready ==
    /\ IsFiniteSet(Busy)
    /\ \A i \in DOMAIN docs : Stored(docs[i].dep)
    /\ \A w \in Workers : Routine(workers[w]) /\ Refers(workers[w])
    /\ admin = 0 => \A w \in Workers : workers[w].kind # "abort"

RInv == AInv /\ (Plain => Ready)

\* The steps that lead to some of the operations.
Came(w, p) ==
    /\ p # "find_active" /\ p # "get_dd"
    /\ p = "find_inactive" => FindActive(w)
    /\ p = "find_newer" => FindInactive(w) \/ FindNewer(w)
    /\ p = "find_existing" => FindNewer(w)
    /\ p = "insert" => FindExisting(w)
    /\ p = "inc_count" => InsertDeviceDeployment(w)
    /\ p = "find_deployment" => UpdateStatus(w)
    /\ p = "inc_stats" => FindDeployment(w)
    /\ p = "set_status" => UpdateStatsInc(w)

\* The step a device's request takes is that of its operation.
LEMMA DeviceStep ==
    ASSUME IInv, NEW w \in Workers, Routine(workers[w]),
           workers[w].kind \in DeviceKinds, Step(w)
    PROVE  \/ Respond(w)
           \/ /\ workers[w].kind = "poll"
              /\ \/ FindActive(w) \/ FindInactive(w) \/ FindNewer(w) \/ FindExisting(w)
                 \/ InsertDeviceDeployment(w) \/ IncrementDeviceCount(w)
                 \/ SaveRequest(w) \/ Instructions(w) \/ IncrementTotalSize(w)
           \/ workers[w].kind = "report" /\ GetDeviceDeployment(w)
           \/ UpdateStatus(w) \/ FindDeployment(w) \/ UpdateStatsInc(w)
           \/ SetStatus(w) \/ SaveLastStatus(w)
<1>1. workers[w].pc \notin AbortPCs
  BY DEF Routine, DeviceKinds, PollPCs, ReportPCs, AfterPCs, DevicePCs, AbortPCs
<1>2. workers[w].pc \notin {"get_history", "mark_deleted", "delete_last"}
  BY DEF Routine, DeviceKinds, PollPCs, ReportPCs, AfterPCs, DevicePCs
<1>3. workers[w].kind = "report" =>
        workers[w].pc \in {"get_dd", "update_status", "respond"} \union AfterPCs
  BY DEF Routine, ReportPCs
<1>4. workers[w].kind = "poll" => workers[w].pc # "get_dd"
  BY DEF Routine, PollPCs
<1>5. ~(CheckFinished(w) \/ AbortDocs(w) \/ Aggregate(w) \/ UpdateStats(w) \/ Finish(w))
  BY <1>1 DEF CheckFinished, AbortDocs, Aggregate, UpdateStats, Finish, At, AbortPCs
<1>6. ~(GetHistory(w) \/ MarkDeleted(w) \/ DeleteLast(w))
  BY <1>2 DEF GetHistory, MarkDeleted, DeleteLast, At
<1>7. workers[w].kind = "report" =>
        ~(\/ FindActive(w) \/ FindInactive(w) \/ FindNewer(w) \/ FindExisting(w)
          \/ InsertDeviceDeployment(w) \/ IncrementDeviceCount(w)
          \/ SaveRequest(w) \/ Instructions(w) \/ IncrementTotalSize(w))
  BY <1>3 DEF AfterPCs, FindActive, FindInactive, FindNewer, FindExisting, At,
     InsertDeviceDeployment, IncrementDeviceCount, SaveRequest, Instructions,
     IncrementTotalSize
<1>8. workers[w].kind = "poll" => ~GetDeviceDeployment(w)
  BY <1>4 DEF GetDeviceDeployment, At
<1> QED BY <1>5, <1>6, <1>7, <1>8 DEF Step, DeviceKinds

\* An update that has begun is at an operation of its kind.
LEMMA BegunRoutine ==
    ASSUME NEW job, NEW st, NEW next, job.kind \in DeviceKinds, Begun(job, st, next)
    PROVE  /\ Routine(next) /\ Keeps(job, next)
           /\ next.pc \in {"update_status", "respond"} /\ \A w : Came(w, next.pc)
BY DEF Came, Begun, Answered, Keeps, Routine, DeviceKinds, PollPCs, ReportPCs, DevicePCs

\* So is an update past the counters, and one that is over.
LEMMA PassedRoutine ==
    ASSUME NEW job, NEW next, job.kind \in DeviceKinds, Passed(job, next) \/ Over(job, next)
    PROVE  /\ Routine(next) /\ Keeps(job, next)
           /\ next.pc \in {"save_last", "respond"} /\ \A w : Came(w, next.pc)
BY DEF Came, Passed, Over, Answered, Keeps, Routine, DeviceKinds, PollPCs, ReportPCs, DevicePCs,
   AfterPCs

\* What a step makes of the request of a device, in outline: it ends, or goes on on
\* the same device, on the same deployment or one it found in the store.
LEMMA DeviceGoesOn ==
    ASSUME IInv, Ready, NEW w \in Workers, workers[w].kind \in DeviceKinds, Step(w)
    PROVE  \E next :
             /\ Continue(w, next) /\ Routine(next) /\ Came(w, next.pc)
             /\ \/ next = Idle
                \/ /\ next.kind = workers[w].kind /\ next.dev = workers[w].dev
                   /\ next.dep = workers[w].dep \/ Stored(next.dep)
<1> DEFINE job == workers[w]
           Goal == \E next :
                     /\ Continue(w, next) /\ Routine(next) /\ Came(w, next.pc)
                     /\ \/ next = Idle
                        \/ /\ next.kind = workers[w].kind /\ next.dev = workers[w].dev
                           /\ next.dep = workers[w].dep \/ Stored(next.dep)
<1>0. Routine(job)
  BY DEF Ready
<1>a. \A next : Keeps(job, next) => next.kind = workers[w].kind /\ next.dev = workers[w].dev
                                      /\ next.dep = workers[w].dep
  BY DEF Keeps
<1>1. CASE Respond(w)
  <2>1. Continue(w, Idle) /\ Routine(Idle) /\ Came(w, Idle.pc)
    BY <1>1 DEF Came, Respond, Routine, Idle
  <2> QED BY <2>1
<1>2. CASE job.kind = "poll" /\ FindActive(w)
  <2>1. PICK next : Continue(w, next) /\ FindActiveWay(job, next)
    BY <1>2, FindActiveIs
  <2>2. OldestActive(job.dev) \subseteq DOMAIN docs
    BY DEF OldestActive, DeviceDocs, NotDeleted
  <2>3. Routine(next) /\ Came(w, next.pc) /\ next.kind = job.kind /\ next.dev = job.dev
    BY <1>2, <2>1 DEF Came, FindActiveWay, Routine, PollPCs, DevicePCs
  <2>4. next.dep = job.dep \/ Stored(next.dep)
    BY <2>1, <2>2 DEF FindActiveWay, Ready
  <2> QED BY <2>1, <2>3, <2>4
<1>3. CASE job.kind = "poll" /\ FindInactive(w)
  <2>1. PICK next : Continue(w, next) /\ FindInactiveWay(job, next)
    BY <1>3, FindInactiveIs
  <2>2. Routine(next) /\ Came(w, next.pc) /\ Keeps(job, next)
    BY <1>3, <2>1 DEF Came, FindInactiveWay, Routine, PollPCs, DevicePCs, Keeps
  <2> QED BY <1>a, <2>1, <2>2
<1>4. CASE job.kind = "poll" /\ FindNewer(w)
  <2>1. PICK next : Continue(w, next) /\ FindNewerWay(job, next)
    BY <1>4, FindNewerIs
  <2>2. \A d \in NewerActive(job.dev, job.after) : Stored(d)
    BY DEF NewerActive
  <2>3. Routine(next) /\ Came(w, next.pc) /\ next.kind = job.kind /\ next.dev = job.dev
    BY <1>4, <2>1 DEF Came, FindNewerWay, Answered, Keeps, Routine, PollPCs, DevicePCs
  <2>4. next.dep = job.dep \/ Stored(next.dep)
    BY <2>1, <2>2 DEF FindNewerWay, Answered, Keeps
  <2> QED BY <2>1, <2>3, <2>4
<1>5. CASE job.kind = "poll" /\ FindExisting(w)
  <2>1. PICK next : Continue(w, next) /\ FindExistingWay(job, next)
    BY <1>5, FindExistingIs
  <2>2. Routine(next) /\ Came(w, next.pc) /\ Keeps(job, next)
    BY <1>5, <2>1 DEF Came, FindExistingWay, Routine, PollPCs, DevicePCs, Keeps
  <2> QED BY <1>a, <2>1, <2>2
<1>6. CASE job.kind = "poll" /\ InsertDeviceDeployment(w)
  <2>1. PICK next : Continue(w, next) /\ InsertWay(job, next)
    BY <1>6, InsertIs
  <2>2. Routine(next) /\ Came(w, next.pc) /\ Keeps(job, next)
    BY <1>6, <2>1 DEF Came, InsertWay, Routine, PollPCs, DevicePCs, Keeps
  <2> QED BY <1>a, <2>1, <2>2
<1>7. CASE job.kind = "poll" /\ IncrementDeviceCount(w)
  <2>1. PICK next : Continue(w, next) /\ Keeps(job, next) /\ next.pc = "save_request"
    BY <1>7, CountIs
  <2>2. Routine(next) /\ Came(w, next.pc)
    BY <1>7, <2>1 DEF Came, Routine, PollPCs, DevicePCs, Keeps
  <2> QED BY <1>a, <2>1, <2>2
<1>8. CASE job.kind = "poll" /\ SaveRequest(w)
  <2>1. PICK next : Continue(w, next) /\ SaveRequestWay(job, next)
    BY SaveRequestIs, <1>8
  <2>2. CASE Begun(job, "failure", next)
    BY <1>a, <2>1, <2>2, BegunRoutine
  <2>3. CASE Keeps(job, next) /\ next.pc = "instructions"
    <3>1. Routine(next) /\ Came(w, next.pc)
      BY <1>8, <2>3 DEF Came, Routine, PollPCs, DevicePCs, Keeps
    <3> QED BY <1>a, <2>1, <2>3, <3>1
  <2> QED BY <2>1, <2>2, <2>3 DEF SaveRequestWay
<1>9. CASE job.kind = "poll" /\ Instructions(w)
  <2>1. PICK next : Continue(w, next) /\ (InstructionsWay(job, next) \/ Assigning(job, next))
    BY InstructionsIs, <1>9
  <2>2. CASE \E st : Begun(job, st, next)
    BY <1>a, <2>1, <2>2, BegunRoutine
  <2>3. CASE Keeps(job, next) /\ next.pc \in {"inc_size", "respond"}
    <3>1. Routine(next) /\ Came(w, next.pc)
      BY <1>9, <2>3 DEF Came, Routine, PollPCs, DevicePCs, Keeps
    <3> QED BY <1>a, <2>1, <2>3, <3>1
  <2> QED BY <2>1, <2>2, <2>3 DEF InstructionsWay, Assigning, InstructedBy, Answered
<1>10. CASE job.kind = "poll" /\ IncrementTotalSize(w)
  <2>1. PICK next : Continue(w, next) /\ Answered(job, next, job.new, "offer")
    BY <1>10, TotalSizeIs
  <2>2. Routine(next) /\ Came(w, next.pc) /\ Keeps(job, next)
    BY <1>10, <2>1 DEF Came, Answered, Routine, PollPCs, DevicePCs, Keeps
  <2> QED BY <1>a, <2>1, <2>2
<1>11. CASE job.kind = "report" /\ GetDeviceDeployment(w)
  <2>1. PICK next : Continue(w, next) /\ GetWay(job, next)
    BY <1>11, GetIs
  <2>2. CASE Answered(job, next, job.new, "refused")
    <3>1. Routine(next) /\ Came(w, next.pc) /\ Keeps(job, next)
      BY <1>11, <2>2 DEF Came, Answered, Routine, ReportPCs, Keeps
    <3> QED BY <1>a, <2>1, <3>1
  <2>3. ASSUME NEW with, Keeps(job, with), Begun(with, job.new, next)
        PROVE  Goal
    <3>1. Routine(next) /\ Came(w, next.pc) /\ Keeps(with, next)
      BY <2>3, BegunRoutine DEF Came, Keeps
    <3> QED BY <2>1, <2>3, <3>1 DEF Keeps
  <2> QED BY <2>1, <2>2, <2>3 DEF GetWay
<1>12. CASE UpdateStatus(w)
  <2>1. PICK next : Continue(w, next) /\ UpdateWay(job, next)
    BY <1>12, UpdateIs
  <2>2. CASE Passed(job, next)
    BY <1>a, <2>1, <2>2, PassedRoutine
  <2>3. CASE Keeps(job, next) /\ next.pc \in {"respond", "find_deployment"}
    <3>1. Routine(next) /\ Came(w, next.pc)
      BY <1>12, <2>3 DEF Came, Routine, PollPCs, ReportPCs, AfterPCs, DevicePCs, Keeps, DeviceKinds
    <3> QED BY <1>a, <2>1, <2>3, <3>1
  <2> QED BY <2>1, <2>2, <2>3 DEF UpdateWay, Answered
<1>13. CASE FindDeployment(w)
  <2>1. PICK next : Continue(w, next) /\ FindDeploymentWay(job, next)
    BY <1>13, FindDeploymentIs
  <2>2. Routine(next) /\ Came(w, next.pc) /\ Keeps(job, next)
    BY <1>13, <2>1 DEF Came, FindDeploymentWay, Routine, PollPCs, ReportPCs, AfterPCs, DevicePCs, Keeps,
       DeviceKinds
  <2> QED BY <1>a, <2>1, <2>2
<1>14. CASE UpdateStatsInc(w)
  <2>1. PICK next : Continue(w, next) /\ IncWay(job, next)
    BY <1>14, IncIs
  <2>2. CASE Passed(job, next)
    BY <1>a, <2>1, <2>2, PassedRoutine
  <2>3. CASE Keeps(job, next) /\ next.pc = "set_status"
    <3>1. Routine(next) /\ Came(w, next.pc)
      BY <1>14, <2>3 DEF Came, Routine, PollPCs, ReportPCs, AfterPCs, DevicePCs, Keeps, DeviceKinds
    <3> QED BY <1>a, <2>1, <2>3, <3>1
  <2> QED BY <2>1, <2>2, <2>3 DEF IncWay
<1>15. CASE SetStatus(w)
  <2>1. PICK next : Continue(w, next) /\ Passed(job, next)
    BY <1>15, SetStatusIs
  <2> QED BY <1>a, <2>1, PassedRoutine
<1>16. CASE SaveLastStatus(w)
  <2>1. PICK next : Continue(w, next) /\ Over(job, next)
    BY <1>16, SaveLastIs
  <2> QED BY <1>a, <2>1, PassedRoutine
<1> QED
  BY <1>0, <1>1, <1>2, <1>3, <1>4, <1>5, <1>6, <1>7, <1>8, <1>9, <1>10, <1>11, <1>12,
     <1>13, <1>14, <1>15, <1>16, DeviceStep

\* The three ways a request arrives while nobody deals with a single device.
PollArrives(next) ==
    \E dev \in Devices, req \in Requests :
        /\ Cardinality(InFlight(dev)) < PerDevice
        /\ next = [Idle EXCEPT !.pc = "find_active", !.kind = "poll", !.dev = dev, !.req = req]
        /\ UNCHANGED <<devices, admin>>

ReportArrives(next) ==
    \E dev \in Devices, d \in Deployments, st \in Reports :
        /\ Stored(d) /\ MayReport(dev, d, st)
        /\ Cardinality(InFlight(dev)) < PerDevice
        /\ next = [Idle EXCEPT !.pc = "get_dd", !.kind = "report", !.dev = dev, !.dep = d,
                               !.new = st]
        /\ devices' = IF devices[dev].dep = d
                      THEN [devices EXCEPT ![dev].said = st] ELSE devices
        /\ UNCHANGED admin

AbortArrives(next) ==
    \E d \in Deployments :
        /\ Stored(d)
        /\ next = [Idle EXCEPT !.pc = "check_finished", !.kind = "abort", !.dep = d]
        /\ admin' = admin + 1
        /\ UNCHANGED devices

\* A request that arrives is one of these, or an operator's on a single device.
LEMMA RequestIs ==
    ASSUME IInv, NEW w \in Workers, Request(w), Plain'
    PROVE  /\ workers[w].pc = "idle"
           /\ UNCHANGED <<deployments, docs, lastStatus, failures>>
           /\ \E next : /\ Continue(w, next)
                        /\ PollArrives(next) \/ ReportArrives(next) \/ AbortArrives(next)
<1>1. workers[w].pc = "idle" /\ UNCHANGED <<deployments, docs, lastStatus, failures>>
  BY DEF Request, StartPoll, StartReport, StartDeviceWide, StartDeleteHistory, StartAbort,
     StartAdmin, Arrive
<1>2. ASSUME NEW job, StartAdmin(w, job)
      PROVE  job.kind \in DeviceKinds \union {"abort"}
  <2>1. admin' = admin + 1 /\ admin \in Nat /\ job.kind \in Kinds
    BY <1>2 DEF StartAdmin, Arrive, IInv, TypeOK
  <2>2. admin' # 0
    BY <2>1
  <2>3. Kinds \subseteq DeviceKinds \union {"abort"}
    BY <2>2 DEF Plain
  <2> QED BY <2>1, <2>3
<1>3. ASSUME NEW kind \in DeviceWideKinds, NEW dev \in Devices
      PROVE  ~StartDeviceWide(w, kind, dev)
  <2>1. [Idle EXCEPT !.pc = "find_active", !.kind = kind, !.dev = dev].kind = kind
    BY DEF Idle
  <2>2. kind \notin DeviceKinds \union {"abort"}
    BY DEF DeviceWideKinds, DeviceKinds
  <2> QED BY <1>2, <2>1, <2>2 DEF StartDeviceWide
<1>4. ASSUME NEW dev \in Devices
      PROVE  ~StartDeleteHistory(w, dev)
  <2>1. [Idle EXCEPT !.pc = "get_history", !.kind = "delete_history", !.dev = dev].kind
          = "delete_history"
    BY DEF Idle
  <2> QED BY <1>2, <2>1 DEF StartDeleteHistory, DeviceKinds
<1>5. ASSUME NEW dev \in Devices, NEW req \in Requests, StartPoll(w, dev, req)
      PROVE  \E next : Continue(w, next) /\ PollArrives(next)
  BY <1>5 DEF StartPoll, Arrive, PollArrives, Continue
<1>6. ASSUME NEW dev \in Devices, NEW d \in Deployments, NEW st \in Reports,
             StartReport(w, dev, d, st)
      PROVE  \E next : Continue(w, next) /\ ReportArrives(next)
  BY <1>6 DEF StartReport, Arrive, ReportArrives, Continue
<1>7. ASSUME NEW d \in Deployments, StartAbort(w, d)
      PROVE  \E next : Continue(w, next) /\ AbortArrives(next)
  BY <1>7 DEF StartAbort, StartAdmin, Arrive, AbortArrives, Continue
<1> QED BY <1>1, <1>3, <1>4, <1>5, <1>6, <1>7 DEF Request

\* The local variables of a poll that arrives.
LEMMA PollArrivesIs ==
    ASSUME NEW next, PollArrives(next)
    PROVE  /\ next.pc = "find_active" /\ next.kind = "poll" /\ next.dev \in Devices
           /\ next.req \in Requests /\ next.dep = 0 /\ next.after = 0
           /\ Cardinality(InFlight(next.dev)) < PerDevice
           /\ UNCHANGED <<devices, admin>>
           /\ Routine(next)
<1>1. PICK dev \in Devices, req \in Requests :
        /\ Cardinality(InFlight(dev)) < PerDevice
        /\ next = [Idle EXCEPT !.pc = "find_active", !.kind = "poll", !.dev = dev, !.req = req]
        /\ UNCHANGED <<devices, admin>>
  BY DEF PollArrives
<1>2. /\ next.pc = "find_active" /\ next.kind = "poll" /\ next.dev = dev
      /\ next.req = req /\ next.dep = 0 /\ next.after = 0
  BY <1>1 DEF Idle
<1>3. Routine(next)
  BY <1>2 DEF Routine, PollPCs, DevicePCs
<1> QED BY <1>1, <1>2, <1>3

\* The local variables of a report that arrives.
LEMMA ReportArrivesIs ==
    ASSUME NEW next, ReportArrives(next)
    PROVE  /\ next.pc = "get_dd" /\ next.kind = "report" /\ next.dev \in Devices
           /\ next.dep \in Deployments /\ next.new \in Reports /\ Stored(next.dep)
           /\ MayReport(next.dev, next.dep, next.new)
           /\ Cardinality(InFlight(next.dev)) < PerDevice
           /\ devices' = IF devices[next.dev].dep = next.dep
                         THEN [devices EXCEPT ![next.dev].said = next.new] ELSE devices
           /\ UNCHANGED admin
           /\ Routine(next)
<1>1. PICK dev \in Devices, d \in Deployments, st \in Reports :
        /\ Stored(d) /\ MayReport(dev, d, st)
        /\ Cardinality(InFlight(dev)) < PerDevice
        /\ next = [Idle EXCEPT !.pc = "get_dd", !.kind = "report", !.dev = dev, !.dep = d,
                               !.new = st]
        /\ devices' = IF devices[dev].dep = d
                      THEN [devices EXCEPT ![dev].said = st] ELSE devices
        /\ UNCHANGED admin
  BY DEF ReportArrives
<1>2. /\ next.pc = "get_dd" /\ next.kind = "report" /\ next.dev = dev
      /\ next.dep = d /\ next.new = st
  BY <1>1 DEF Idle
<1>3. Routine(next)
  BY <1>2 DEF Routine, ReportPCs
<1> QED BY <1>1, <1>2, <1>3

\* The local variables of an abort that arrives.
LEMMA AbortArrivesIs ==
    ASSUME NEW next, AbortArrives(next)
    PROVE  /\ next.pc = "check_finished" /\ next.kind = "abort"
           /\ next.dep \in Deployments /\ Stored(next.dep)
           /\ admin' = admin + 1 /\ UNCHANGED devices
           /\ Routine(next)
<1>1. PICK d \in Deployments :
        /\ Stored(d)
        /\ next = [Idle EXCEPT !.pc = "check_finished", !.kind = "abort", !.dep = d]
        /\ admin' = admin + 1 /\ UNCHANGED devices
  BY DEF AbortArrives
<1>2. next.pc = "check_finished" /\ next.kind = "abort" /\ next.dep = d
  BY <1>1 DEF Idle
<1>3. Routine(next)
  BY <1>2 DEF Routine, AbortPCs
<1> QED BY <1>1, <1>2, <1>3

\* A request cut short is forgotten, or the error is only logged.
LEMMA FailIs ==
    ASSUME IInv, NEW w \in Workers, Routine(workers[w]), Fail(w)
    PROVE  /\ UNCHANGED <<deployments, docs, lastStatus, devices, admin>>
           /\ failures' # 0
           /\ \E next :
                /\ Continue(w, next) /\ Routine(next)
                /\ \/ next = Idle
                   \/ /\ workers[w].pc = "inc_size" /\ workers[w].kind \in DeviceKinds
                      /\ Answered(workers[w], next, workers[w].new, "offer")
                   \/ /\ workers[w].pc = "save_last" /\ workers[w].kind \in DeviceKinds
                      /\ Over(workers[w], next)
<1> DEFINE job == workers[w]
<1>1. job \in WorkerType
  BY JobFacts
<1>2. failures' # 0
  <2>1. failures \in Nat /\ failures' = failures + 1
    BY DEF Fail, IInv, TypeOK
  <2> QED BY <2>1
<1>3. CASE Continue(w, Idle)
  <2>1. Routine(Idle)
    BY DEF Routine, Idle
  <2> QED BY <1>2, <1>3, <2>1 DEF Fail
<1>4. CASE job.pc = "inc_size" /\ Continue(w, Reply(job, "offer"))
  <2>1. job.kind \in DeviceKinds
    BY <1>4 DEF Routine, ReportPCs, AfterPCs, AbortPCs, DeviceKinds
  <2>2. Answered(job, Reply(job, "offer"), job.new, "offer")
    BY <1>1, ReplyIs DEF Answers
  <2>3. Routine(Reply(job, "offer"))
    BY <2>1, <2>2 DEF Answered, Keeps, Routine, DeviceKinds, PollPCs, ReportPCs
  <2> QED BY <1>2, <1>4, <2>1, <2>2, <2>3 DEF Fail
<1>5. CASE job.pc = "save_last" /\ Continue(w, AfterUpdate(job))
  <2>1. job.kind \in DeviceKinds
    BY <1>5 DEF Routine, AbortPCs, DeviceKinds
  <2>2. Over(job, AfterUpdate(job))
    BY <1>1, <2>1, AfterUpdateIs
  <2>3. Routine(AfterUpdate(job))
    BY <2>1, <2>2, PassedRoutine
  <2> QED BY <1>2, <1>5, <2>1, <2>2, <2>3 DEF Fail
<1> QED BY <1>3, <1>4, <1>5 DEF Fail

---------------------------------------------------------------------------
(* What a step leaves alone in the deployments.                             *)

\* A step of a request neither lists nor stores a deployment, and takes no finish
\* time away.
LEMMA StepKeepsDeployments ==
    ASSUME IInv, NEW w \in Workers, Step(w), NEW d \in Deployments
    PROVE  /\ deployments'[d].stage = deployments[d].stage
           /\ deployments'[d].list = deployments[d].list
           /\ deployments[d].finished => deployments'[d].finished
<1>1. deployments \in [Deployments -> DeploymentType]
  BY DEF IInv, TypeOK
<1>2. CASE UNCHANGED deployments
  BY <1>2
<1>3. CASE \/ IncrementDeviceCount(w) \/ IncrementTotalSize(w) \/ UpdateStatsInc(w)
           \/ UpdateStats(w)
  <2>1. CASE IncrementDeviceCount(w)
    BY <1>1, <2>1 DEF IncrementDeviceCount, DeploymentType
  <2>2. CASE IncrementTotalSize(w)
    BY <1>1, <2>2 DEF IncrementTotalSize, DeploymentType
  <2>3. CASE UpdateStatsInc(w) \/ UpdateStats(w)
    <3>1. PICK stats : deployments' = [deployments EXCEPT ![workers[w].dep].stats = stats]
      BY <2>3 DEF UpdateStatsInc, UpdateStats
    <3> QED BY <1>1, <3>1 DEF DeploymentType
  <2> QED BY <1>3, <2>1, <2>2, <2>3
<1>4. CASE SetStatus(w) \/ Finish(w)
  <2>1. PICK status : deployments' = WithStatus(workers[w].dep, status)
    BY <1>4 DEF SetStatus, Finish
  <2> QED BY <1>1, <2>1 DEF WithStatus, DeploymentType
<1>5. \/ UNCHANGED deployments
      \/ IncrementDeviceCount(w) \/ IncrementTotalSize(w) \/ UpdateStatsInc(w)
      \/ UpdateStats(w) \/ SetStatus(w) \/ Finish(w)
  BY DEF Step, Respond, FindActive, FindInactive, FindNewer, FindExisting,
     InsertDeviceDeployment, SaveRequest, Instructions, GetDeviceDeployment, UpdateStatus,
     FindDeployment, SaveLastStatus, CheckFinished, AbortDocs, Aggregate, GetHistory,
     MarkDeleted, DeleteLast, ReadOnly
<1> QED BY <1>2, <1>3, <1>4, <1>5

\* Creating one keeps the others and what is stored.
LEMMA CreateKeepsDeployments ==
    ASSUME IInv, Create, NEW d \in Deployments
    PROVE  /\ UNCHANGED <<docs, lastStatus, devices, workers, admin, failures>>
           /\ \/ deployments'[d] = deployments[d]
              \/ /\ deployments[d].stage = "none"
                 /\ \E list \in DeviceLists :
                      deployments'[d] = [deployments[d] EXCEPT !.stage = "built", !.list = list,
                                               !.stats = InitialStats(Len(list))]
              \/ /\ deployments[d].stage = "built"
                 /\ deployments'[d] = [deployments[d] EXCEPT !.stage = "stored", !.active = TRUE]
<1>1. deployments \in [Deployments -> DeploymentType]
  BY DEF IInv, TypeOK
<1>2. UNCHANGED <<docs, lastStatus, devices, workers, admin, failures>>
  BY DEF Create, BuildDeployment, InsertDeployment
<1>3. ASSUME NEW list \in DeviceLists, BuildDeployment(list)
      PROVE  \/ deployments'[d] = deployments[d]
             \/ /\ deployments[d].stage = "none"
                /\ deployments'[d] = [deployments[d] EXCEPT !.stage = "built", !.list = list,
                                            !.stats = InitialStats(Len(list))]
  <2> DEFINE stats == InitialStats(Len(list))
  <2>1. PICK e \in Deployments :
          /\ deployments[e].stage = "none"
          /\ deployments' = [deployments EXCEPT ![e].stage = "built", ![e].list = list,
                                             ![e].stats = stats]
    BY <1>3 DEF BuildDeployment
  <2> HIDE DEF stats
  <2>2. CASE d = e
    BY <1>1, <2>1, <2>2 DEF stats
  <2>3. CASE d # e
    BY <1>1, <2>1, <2>3
  <2> QED BY <2>2, <2>3
<1>4. ASSUME NEW e \in Deployments, InsertDeployment(e)
      PROVE  \/ deployments'[d] = deployments[d]
             \/ /\ deployments[d].stage = "built"
                /\ deployments'[d] = [deployments[d] EXCEPT !.stage = "stored", !.active = TRUE]
  <2>1. CASE d = e
    BY <1>1, <1>4, <2>1 DEF InsertDeployment
  <2>2. CASE d # e
    BY <1>1, <1>4, <2>2 DEF InsertDeployment
  <2> QED BY <2>1, <2>2
<1> QED BY <1>2, <1>3, <1>4 DEF Create

\* A deployment that is stored stays so, with its list and its finish time.
LEMMA StoredStays ==
    ASSUME IInv, [Next]_vars, NEW d \in Deployments
    PROVE  /\ Stored(d) => Stored(d)'
           /\ deployments[d].stage # "none" =>
                deployments'[d].stage # "none" /\ deployments'[d].list = deployments[d].list
           /\ deployments[d].finished => deployments'[d].finished
<1>1. deployments[d] \in DeploymentType
  BY DEF IInv, TypeOK
<1>2. CASE UNCHANGED deployments
  BY <1>2 DEF Stored
<1>3. CASE Create
  BY <1>1, <1>3, CreateKeepsDeployments DEF Stored, DeploymentType
<1>4. ASSUME NEW w \in Workers, Step(w)
      PROVE  /\ Stored(d) => Stored(d)'
             /\ deployments[d].stage # "none" =>
                  deployments'[d].stage # "none" /\ deployments'[d].list = deployments[d].list
             /\ deployments[d].finished => deployments'[d].finished
  BY <1>4, StepKeepsDeployments DEF Stored
<1>5. ASSUME NEW w \in Workers, Request(w) \/ Fail(w)
      PROVE  UNCHANGED deployments
  BY <1>5 DEF Request, StartPoll, StartReport, StartDeviceWide, StartDeleteHistory,
     StartAbort, StartAdmin, Arrive, Fail
<1> QED BY <1>2, <1>3, <1>4, <1>5 DEF Next, vars

---------------------------------------------------------------------------
(* Every step keeps requests in order.                                      *)

\* What has happened so far has not happened less before.
LEMMA Before ==
    ASSUME IInv, [Next]_vars
    PROVE  /\ Plain' => Plain
           /\ admin' = 0 => admin = 0
           /\ failures' = 0 => failures = 0
<1>1. /\ admin' = admin \/ admin' = admin + 1
      /\ failures' = failures \/ failures' = failures + 1
  <2>1. CASE UNCHANGED vars
    BY <2>1 DEF vars
  <2>2. CASE Create
    BY <2>2 DEF Create, BuildDeployment, InsertDeployment
  <2>3. ASSUME NEW w \in Workers, Request(w)
        PROVE  failures' = failures /\ (admin' = admin \/ admin' = admin + 1)
    BY <2>3 DEF Request, StartPoll, StartReport, StartDeviceWide, StartDeleteHistory,
       StartAbort, StartAdmin, Arrive
  <2>4. ASSUME NEW w \in Workers, Fail(w)
        PROVE  admin' = admin /\ failures' = failures + 1
    BY <2>4 DEF Fail
  <2>5. ASSUME NEW w \in Workers, Step(w)
        PROVE  UNCHANGED <<admin, failures>>
    BY <2>5 DEF Step, Respond, FindActive, FindInactive, FindNewer, FindExisting,
       InsertDeviceDeployment, IncrementDeviceCount, SaveRequest, Instructions,
       IncrementTotalSize, GetDeviceDeployment, UpdateStatus, FindDeployment, UpdateStatsInc,
       SetStatus, SaveLastStatus, CheckFinished, AbortDocs, Aggregate, UpdateStats, Finish,
       GetHistory, MarkDeleted, DeleteLast, ReadOnly, Unchanged
  <2> QED BY <2>1, <2>2, <2>3, <2>4, <2>5 DEF Next
<1>2. admin \in Nat /\ failures \in Nat
  BY DEF IInv, TypeOK
<1>3. (admin' = 0 => admin = 0) /\ (failures' = 0 => failures = 0)
  BY <1>1, <1>2
<1> QED BY <1>3 DEF Plain

\* The store of device deployments after a step: documents stay where they are, on the
\* same device and deployment; only the update of a status makes one active.
LEMMA DocsAfter ==
    ASSUME IInv, NEW w \in Workers, Routine(workers[w]), Step(w)
    PROVE  /\ \A i \in DOMAIN docs :
                /\ i \in DOMAIN docs'
                /\ docs'[i].dev = docs[i].dev /\ docs'[i].dep = docs[i].dep
                /\ docs'[i].deleted = docs[i].deleted
                /\ docs'[i].active =>
                     docs[i].active \/ (UpdateStatus(w) /\ docs[i].dev = workers[w].dev)
           /\ \/ DOMAIN docs' = DOMAIN docs
              \/ /\ InsertDeviceDeployment(w) /\ workers[w].kind = "poll"
                 /\ docs' = Append(docs, NewDoc(workers[w]))
<1> DEFINE job == workers[w]
           Goal == /\ \A i \in DOMAIN docs :
                        /\ i \in DOMAIN docs'
                        /\ docs'[i].dev = docs[i].dev /\ docs'[i].dep = docs[i].dep
                        /\ docs'[i].deleted = docs[i].deleted
                        /\ docs'[i].active =>
                             docs[i].active \/ (UpdateStatus(w) /\ docs[i].dev = workers[w].dev)
                   /\ \/ DOMAIN docs' = DOMAIN docs
                      \/ /\ InsertDeviceDeployment(w) /\ workers[w].kind = "poll"
                         /\ docs' = Append(docs, NewDoc(workers[w]))
<1>1. docs \in Seq(DocType) /\ \A i \in DOMAIN docs : docs[i] \in DocType
  BY DocTyped DEF IInv, TypeOK
<1>2. CASE UNCHANGED docs
  BY <1>2
<1>3. CASE InsertDeviceDeployment(w)
  <2>1. job.kind = "poll"
    BY <1>3 DEF InsertDeviceDeployment, At, Routine, ReportPCs, AfterPCs, AbortPCs
  <2>2. docs' = Append(docs, NewDoc(job))
    BY <1>3, <2>1, InsertIs
  <2> DEFINE doc == NewDoc(job)
  <2> HIDE DEF doc
  <2>3. \A i \in DOMAIN docs : i \in DOMAIN docs' /\ docs'[i] = docs[i]
    <3>1. docs' = Append(docs, doc)
      BY <2>2 DEF doc
    <3>2. /\ DOMAIN docs' = 1..(Len(docs) + 1) /\ DOMAIN docs = 1..Len(docs) /\ Len(docs) \in Nat
          /\ \A i \in DOMAIN docs : docs'[i] = docs[i]
      BY <1>1, <3>1
    <3> QED BY <3>2
  <2> QED BY <1>3, <2>1, <2>2, <2>3
<1>4. CASE \E i, r : docs' = [docs EXCEPT ![i].request = r]
  <2>1. PICK i, r : docs' = [docs EXCEPT ![i].request = r]
    BY <1>4
  <2> QED BY <1>1, <2>1 DEF DocType
<1>5. CASE \E i : docs' = [docs EXCEPT ![i].image = TRUE]
  <2>1. PICK i : docs' = [docs EXCEPT ![i].image = TRUE]
    BY <1>5
  <2> QED BY <1>1, <2>1 DEF DocType
<1>6. CASE UpdateStatus(w) /\ ~UNCHANGED docs
  <2>1. PICK i \in NotDeleted(DocsOf(job.dev, job.dep)) :
          docs' = [docs EXCEPT ![i].status = job.new, ![i].active = Active(job.new)]
    BY <1>6 DEF UpdateStatus
  <2>2. i \in DOMAIN docs /\ docs[i].dev = job.dev
    BY DEF NotDeleted, DocsOf
  <2>3. DOMAIN docs' = DOMAIN docs
    BY <1>1, <2>1
  <2>4. /\ docs'[i].dev = docs[i].dev /\ docs'[i].dep = docs[i].dep
        /\ docs'[i].deleted = docs[i].deleted
    BY <1>1, <2>1, <2>2 DEF DocType
  <2>5. \A j \in DOMAIN docs \ {i} : docs'[j] = docs[j]
    BY <1>1, <2>1
  <2> QED BY <1>6, <2>2, <2>3, <2>4, <2>5
<1>7. CASE AbortDocs(w)
  BY <1>1, <1>7 DEF AbortDocs, DocType
<1>8. ~MarkDeleted(w)
  BY DEF MarkDeleted, At, Routine, PollPCs, DevicePCs, ReportPCs, AfterPCs, AbortPCs
<1>9. \/ UNCHANGED docs \/ InsertDeviceDeployment(w) \/ UpdateStatus(w)
      \/ AbortDocs(w)
      \/ \E i, r : docs' = [docs EXCEPT ![i].request = r]
      \/ \E i : docs' = [docs EXCEPT ![i].image = TRUE]
  BY <1>8 DEF Step, Respond, FindActive, FindInactive, FindNewer, FindExisting,
     IncrementDeviceCount, SaveRequest, Instructions, IncrementTotalSize,
     GetDeviceDeployment, FindDeployment, UpdateStatsInc, SetStatus, SaveLastStatus,
     CheckFinished, Aggregate, UpdateStats, Finish, GetHistory, DeleteLast, ReadOnly
<1> QED BY <1>2, <1>3, <1>4, <1>5, <1>6, <1>7, <1>9

\* The local variables after a step of one request.
LEMMA OthersStay ==
    ASSUME IInv, NEW w \in Workers, NEW next, Continue(w, next)
    PROVE  /\ workers'[w] = next
           /\ \A v \in Workers \ {w} : workers'[v] = workers[v]
BY DEF Continue, IInv, TypeOK

\* A step of one request that leaves it at an operation of its kind.
LEMMA ReadyAfter ==
    ASSUME IInv, Ready, [Next]_vars, NEW w \in Workers, NEW next,
           Continue(w, next), Routine(next),
           next.dep \in Deployments => Stored(next.dep),
           admin' = 0 => next.kind # "abort",
           \A i \in DOMAIN docs' : Stored(docs'[i].dep) /\ docs'[i].dep \in Deployments
    PROVE  Ready'
<1>1. workers'[w] = next /\ \A v \in Workers \ {w} : workers'[v] = workers[v]
  BY OthersStay
<1>2. \A d \in Deployments : Stored(d) => Stored(d)'
  BY StoredStays
<1>3. IsFiniteSet(Busy')
  <2>1. IsFiniteSet(Busy \union {w})
    BY FS_AddElement DEF Ready
  <2>2. Busy' \subseteq Busy \union {w}
    BY <1>1 DEF Busy
  <2> QED BY <2>1, <2>2, FS_Subset
<1>4. \A i \in DOMAIN docs' : deployments'[docs'[i].dep].stage = "stored"
  BY <1>2 DEF Stored
<1>5. \A v \in Workers :
        /\ Routine(workers'[v])
        /\ workers'[v].dep \in Deployments => deployments'[workers'[v].dep].stage = "stored"
  <2> SUFFICES ASSUME NEW v \in Workers
               PROVE  /\ Routine(workers'[v])
                      /\ workers'[v].dep \in Deployments =>
                           deployments'[workers'[v].dep].stage = "stored"
    OBVIOUS
  <2>1. CASE v = w
    <3>1. next.dep \in Deployments => deployments'[next.dep].stage = "stored"
      BY <1>2 DEF Stored
    <3> QED BY <1>1, <2>1, <3>1
  <2>2. CASE v # w
    BY <1>1, <1>2, <2>2 DEF Ready, Refers, Stored
  <2> QED BY <2>1, <2>2
<1>6. admin' = 0 => \A v \in Workers : workers'[v].kind # "abort"
  BY <1>1, Before DEF Ready
<1> QED BY <1>3, <1>4, <1>5, <1>6 DEF Ready, Routine, Refers, Stored

\* Requests and documents stay in order as long as no operator deals with a single device.
LEMMA NextRInv == RInv /\ [Next]_vars => RInv'
<1> SUFFICES ASSUME RInv, [Next]_vars, Plain' PROVE Ready'
  BY NextAInv DEF RInv
<1>1. AInv /\ IInv /\ Ready
  BY Before DEF RInv, AInv
<1>2. \A i \in DOMAIN docs : Stored(docs[i].dep) /\ docs[i].dep \in Deployments
  BY <1>1, DocTyped DEF Ready, IInv
<1>3. CASE UNCHANGED <<docs, workers, admin>>
  <2>1. \A d \in Deployments : Stored(d) => Stored(d)'
    BY <1>1, StoredStays
  <2>2. \A i \in DOMAIN docs' : deployments'[docs'[i].dep].stage = "stored"
    BY <1>2, <1>3, <2>1 DEF Stored
  <2>3. \A v \in Workers :
          /\ Routine(workers'[v])
          /\ workers'[v].dep \in Deployments => deployments'[workers'[v].dep].stage = "stored"
    BY <1>1, <1>3, <2>1 DEF Ready, Refers, Stored
  <2>4. Busy' = Busy
    BY <1>3 DEF Busy
  <2> QED BY <1>1, <1>3, <2>2, <2>3, <2>4 DEF Ready, Routine, Refers, Stored
<1>4. ASSUME NEW w \in Workers, Request(w)
      PROVE  Ready'
  <2>1. PICK next : /\ Continue(w, next)
                    /\ PollArrives(next) \/ ReportArrives(next) \/ AbortArrives(next)
    BY <1>1, <1>4, RequestIs
  <2>2. UNCHANGED docs
    BY <1>1, <1>4, RequestIs
  <2>3. Routine(next) /\ (next.dep \in Deployments => Stored(next.dep))
    <3>1. 0 \notin Deployments
      BY NumDeploymentsAssumption DEF Deployments
    <3> QED BY <2>1, <3>1, PollArrivesIs, ReportArrivesIs, AbortArrivesIs
  <2>4. admin' = 0 => next.kind # "abort"
    <3>1. admin \in Nat
      BY <1>1 DEF IInv, TypeOK
    <3>2. AbortArrives(next) => admin' # 0
      BY <3>1, AbortArrivesIs
    <3> QED BY <2>1, <3>2, PollArrivesIs, ReportArrivesIs
  <2>5. \A i \in DOMAIN docs' : Stored(docs'[i].dep) /\ docs'[i].dep \in Deployments
    BY <1>2, <2>2
  <2> QED BY <1>1, <2>1, <2>3, <2>4, <2>5, ReadyAfter
<1>5. ASSUME NEW w \in Workers, Fail(w)
      PROVE  Ready'
  <2>0. Routine(workers[w]) /\ Refers(workers[w]) /\ UNCHANGED <<docs, admin>>
    BY <1>1, <1>5, FailIs DEF Ready
  <2>1. PICK next :
          /\ Continue(w, next) /\ Routine(next)
          /\ \/ next = Idle
             \/ /\ workers[w].kind \in DeviceKinds
                /\ \/ Answered(workers[w], next, workers[w].new, "offer")
                   \/ Over(workers[w], next)
    BY <1>1, <1>5, <2>0, FailIs
  <2>2. next = Idle \/ (next.dep = workers[w].dep /\ next.kind \in DeviceKinds)
    BY <2>1 DEF Answered, Over, Keeps
  <2>3. Idle.dep \notin Deployments /\ Idle.kind # "abort" /\ "abort" \notin DeviceKinds
    BY NumDeploymentsAssumption DEF Idle, Deployments, DeviceKinds
  <2>4. \A i \in DOMAIN docs' : Stored(docs'[i].dep) /\ docs'[i].dep \in Deployments
    BY <1>2, <2>0
  <2>5. next.dep \in Deployments => Stored(next.dep)
    BY <2>0, <2>2, <2>3 DEF Refers
  <2>6. next.kind # "abort"
    BY <2>2, <2>3
  <2> QED BY <1>1, <2>1, <2>4, <2>5, <2>6, ReadyAfter
<1>6. ASSUME NEW w \in Workers, Step(w)
      PROVE  Ready'
  <2>0. Routine(workers[w]) /\ Refers(workers[w])
    BY <1>1 DEF Ready
  <2>1. \A i \in DOMAIN docs' : Stored(docs'[i].dep) /\ docs'[i].dep \in Deployments
    <3>1. CASE DOMAIN docs' = DOMAIN docs
      BY <1>1, <1>2, <1>6, <2>0, <3>1, DocsAfter
    <3>2. CASE InsertDeviceDeployment(w) /\ docs' = Append(docs, NewDoc(workers[w]))
      <4>1. workers[w].dep \in Deployments
        BY <1>1, <3>2, JobFacts DEF InsertDeviceDeployment, At, JobOK
      <4>2. NewDoc(workers[w]).dep = workers[w].dep
        BY DEF NewDoc
      <4> DEFINE doc == NewDoc(workers[w])
      <4> HIDE DEF doc
      <4>3. /\ DOMAIN docs' = 1..(Len(docs) + 1) /\ DOMAIN docs = 1..Len(docs) /\ Len(docs) \in Nat
            /\ docs'[Len(docs) + 1] = doc
            /\ \A i \in DOMAIN docs : docs'[i] = docs[i]
        <5>1. docs \in Seq(DocType) /\ docs' = Append(docs, doc)
          BY <1>1, <3>2 DEF IInv, TypeOK, doc
        <5> QED BY <5>1
      <4>4. doc.dep \in Deployments /\ Stored(doc.dep)
        BY <2>0, <4>1, <4>2 DEF Refers, doc
      <4> QED BY <1>2, <4>3, <4>4
    <3> QED BY <1>1, <1>6, <2>0, <3>1, <3>2, DocsAfter
  <2>2. CASE workers[w].kind \in DeviceKinds
    <3>1. PICK next :
             /\ Continue(w, next) /\ Routine(next)
             /\ \/ next = Idle
                \/ /\ next.kind = workers[w].kind /\ next.dev = workers[w].dev
                   /\ next.dep = workers[w].dep \/ Stored(next.dep)
      BY <1>1, <1>6, <2>2, DeviceGoesOn
    <3>2. Idle.dep \notin Deployments /\ Idle.kind # "abort" /\ "abort" \notin DeviceKinds
      BY NumDeploymentsAssumption DEF Idle, Deployments, DeviceKinds
    <3>3. next.dep \in Deployments => Stored(next.dep)
      BY <2>0, <3>1, <3>2 DEF Refers
    <3>4. next.kind # "abort"
      BY <2>2, <3>1, <3>2
    <3> QED BY <1>1, <2>1, <3>1, <3>3, <3>4, ReadyAfter
  <2>3. CASE workers[w].kind \notin DeviceKinds
    <3>1. workers[w].kind = "abort" /\ workers[w].pc \in AbortPCs
      <4>1. workers[w].pc # "idle"
        BY <1>6 DEF Step, Respond, FindActive, FindInactive, FindNewer, FindExisting,
           InsertDeviceDeployment, IncrementDeviceCount, SaveRequest, Instructions,
           IncrementTotalSize, GetDeviceDeployment, UpdateStatus, FindDeployment,
           UpdateStatsInc, SetStatus, SaveLastStatus, CheckFinished, AbortDocs, Aggregate,
           UpdateStats, Finish, GetHistory, MarkDeleted, DeleteLast, At
      <4> QED BY <2>0, <2>3, <4>1 DEF Routine, DeviceKinds
    <3>2. PICK next : Continue(w, next) /\ AbortWay(workers[w], next)
      BY <1>1, <1>6, <3>1, AbortIs
    <3>3. Routine(next)
      BY <3>2 DEF AbortWay, Routine, Idle
    <3>4. next.dep \in Deployments => Stored(next.dep)
      <4>1. Idle.dep \notin Deployments
        BY NumDeploymentsAssumption DEF Idle, Deployments
      <4> QED BY <2>0, <3>2, <4>1 DEF AbortWay, Refers
    <3>5. admin' = 0 => FALSE
      BY <1>1, <3>1, Before DEF Ready
    <3> QED BY <1>1, <2>1, <3>2, <3>3, <3>4, <3>5, ReadyAfter
  <2> QED BY <2>2, <2>3
<1>7. CASE Create
  BY <1>1, <1>3, <1>7 DEF Create, BuildDeployment, InsertDeployment
<1> QED BY <1>3, <1>4, <1>5, <1>6, <1>7 DEF Next, vars

\* The initial states have no request and no document.
LEMMA InitRInv == Init => RInv
<1> SUFFICES ASSUME Init PROVE Ready
  BY InitAInv DEF RInv
<1>1. Busy = {}
  BY DEF Busy, Init, Idle
<1>2. \A w \in Workers : Routine(workers[w]) /\ Refers(workers[w]) /\ workers[w].kind # "abort"
  BY NumDeploymentsAssumption DEF Init, Idle, Routine, Refers, Deployments
<1> QED BY <1>1, <1>2, FS_EmptySet DEF Ready, Init

---------------------------------------------------------------------------
(* The counters: what each step does to both sides of StatsAccounting.      *)

\* The workers on their way to the counters with a status to take off, and to add.
Leaving(d, st) == {w \in Adjusting(d) : workers[w].old = st}
Entering(d, st) == {w \in Adjusting(d) : workers[w].new = st}

Acct(d) == \A st \in Statuses : deployments[d].stats[st] = Expected(d, st)

\* The counters are right from the moment a deployment is built.
AcctInv == RInv /\ (Undisturbed => \A d \in Deployments : deployments[d].stage # "none" => Acct(d))

\* Adding an element to a finite set.
LEMMA OneMore ==
    ASSUME NEW S, IsFiniteSet(S), NEW x, x \notin S
    PROVE  Cardinality(S) \in Nat /\ Cardinality(S \union {x}) = Cardinality(S) + 1
BY FS_AddElement, FS_CardinalityType

\* Taking one away.
LEMMA OneLess ==
    ASSUME NEW S, IsFiniteSet(S), NEW x, x \in S
    PROVE  Cardinality(S) \in Nat /\ Cardinality(S \ {x}) = Cardinality(S) - 1
BY FS_RemoveElement, FS_CardinalityType

\* All the sets the counters are compared with are finite.
LEMMA SizesFinite ==
    ASSUME IInv, Ready, NEW d
    PROVE  /\ IsFiniteSet(InDeployment(d)) /\ IsFiniteSet(Adjusting(d))
           /\ \A st : /\ IsFiniteSet(InStatus(d, st)) /\ IsFiniteSet(Leaving(d, st))
                      /\ IsFiniteSet(Entering(d, st))
<1>1. IsFiniteSet(DOMAIN docs)
  BY DocsFinite DEF IInv, TypeOK
<1>2. IsFiniteSet(InDeployment(d))
  BY <1>1, FS_Subset DEF InDeployment
<1>3. \A st : InStatus(d, st) \subseteq InDeployment(d)
  BY DEF InStatus
<1>4. IsFiniteSet(Adjusting(d))
  <2>1. Adjusting(d) \subseteq Busy
    BY DEF Adjusting, Busy
  <2> QED BY <2>1, FS_Subset DEF Ready
<1>5. \A st : Leaving(d, st) \subseteq Adjusting(d) /\ Entering(d, st) \subseteq Adjusting(d)
  BY DEF Leaving, Entering
<1> QED BY <1>2, <1>3, <1>4, <1>5, FS_Subset

\* Expected in terms of these sets, before a step and after it.
LEMMA ExpectedIs ==
    ASSUME NEW d, NEW st
    PROVE  /\ Expected(d, st) =
                Cardinality(InStatus(d, st)) + Cardinality(Leaving(d, st))
                  - Cardinality(Entering(d, st))
                  + (IF st = "pending" THEN MaxDevices(d) - Cardinality(InDeployment(d)) ELSE 0)
           /\ Expected(d, st)' =
                Cardinality(InStatus(d, st)') + Cardinality(Leaving(d, st)')
                  - Cardinality(Entering(d, st)')
                  + (IF st = "pending"
                     THEN MaxDevices(d)' - Cardinality(InDeployment(d)') ELSE 0)
BY DEF Expected, Leaving, Entering

\* A request that is not on its way to the counters of d, before or after its step.
Apart(d, w, next) ==
    /\ ~(workers[w].dep = d /\ workers[w].pc \in {"find_deployment", "inc_stats"})
    /\ ~(next.dep = d /\ next.pc \in {"find_deployment", "inc_stats"})

\* One that stays on its way.
Along(w, next) ==
    /\ workers[w].pc \in {"find_deployment", "inc_stats"}
    /\ next.pc \in {"find_deployment", "inc_stats"}
    /\ next.dep = workers[w].dep /\ next.old = workers[w].old /\ next.new = workers[w].new

\* The workers on their way are then the same ones.
LEMMA AdjustingSame ==
    ASSUME IInv, NEW w \in Workers, NEW next, Continue(w, next), NEW d,
           Apart(d, w, next) \/ Along(w, next)
    PROVE  /\ Adjusting(d)' = Adjusting(d)
           /\ \A st : Leaving(d, st)' = Leaving(d, st) /\ Entering(d, st)' = Entering(d, st)
<1>1. workers'[w] = next /\ \A v \in Workers \ {w} : workers'[v] = workers[v]
  BY OthersStay
<1>2. Adjusting(d)' = {v \in Workers : /\ workers'[v].dep = d
                                       /\ workers'[v].pc \in {"find_deployment", "inc_stats"}}
  BY DEF Adjusting
<1>3. \A v \in Workers : v \in Adjusting(d)' <=> v \in Adjusting(d)
  BY <1>1, <1>2 DEF Adjusting, Apart, Along
<1>4. Adjusting(d) \subseteq Workers /\ Adjusting(d)' \subseteq Workers
  BY DEF Adjusting
<1>5. Adjusting(d)' = Adjusting(d)
  BY <1>3, <1>4
<1>6. \A v \in Adjusting(d) : workers'[v].old = workers[v].old /\ workers'[v].new = workers[v].new
  BY <1>1 DEF Adjusting, Apart, Along
<1>7. \A st : /\ Leaving(d, st)' = {v \in Adjusting(d)' : workers'[v].old = st}
              /\ Entering(d, st)' = {v \in Adjusting(d)' : workers'[v].new = st}
  BY DEF Leaving, Entering
<1> QED BY <1>5, <1>6, <1>7 DEF Leaving, Entering

\* Device deployments keep their status.
StatusesStay ==
    /\ DOMAIN docs' = DOMAIN docs
    /\ \A i \in DOMAIN docs : docs'[i].dep = docs[i].dep /\ docs'[i].status = docs[i].status

\* So do the sets of them.
LEMMA InStatusSame ==
    ASSUME StatusesStay, NEW d
    PROVE  /\ InDeployment(d)' = InDeployment(d)
           /\ \A st : InStatus(d, st)' = InStatus(d, st)
<1>1. InDeployment(d)' = {i \in DOMAIN docs' : docs'[i].dep = d}
  BY DEF InDeployment
<1>2. InDeployment(d)' = InDeployment(d)
  BY <1>1 DEF InDeployment, StatusesStay
<1>3. \A st : InStatus(d, st)' = {i \in InDeployment(d)' : docs'[i].status = st}
  BY DEF InStatus
<1>4. \A i \in InDeployment(d) : docs'[i].status = docs[i].status
  BY DEF InDeployment, StatusesStay
<1> QED BY <1>2, <1>3, <1>4 DEF InStatus

\* The counters and the list of a deployment stay.
CountersStay(d) ==
    deployments'[d].stats = deployments[d].stats /\ deployments'[d].list = deployments[d].list

\* When nothing the counters are about moves, they stay right.
LEMMA AcctSame ==
    ASSUME NEW d, Acct(d), CountersStay(d),
           InDeployment(d)' = InDeployment(d),
           \A st : /\ InStatus(d, st)' = InStatus(d, st)
                   /\ Leaving(d, st)' = Leaving(d, st) /\ Entering(d, st)' = Entering(d, st)
    PROVE  Acct(d)'
<1>1. MaxDevices(d)' = MaxDevices(d)
  BY DEF MaxDevices, CountersStay
<1>2. \A st \in Statuses : Expected(d, st)' = Expected(d, st)
  BY <1>1, ExpectedIs
<1> QED BY <1>2 DEF Acct, CountersStay

\* A worker on its way to the counters takes the step of its operation.
LEMMA StepAt ==
    ASSUME NEW w \in Workers, Step(w)
    PROVE  /\ workers[w].pc = "find_deployment" <=> FindDeployment(w)
           /\ workers[w].pc = "inc_stats" <=> UpdateStatsInc(w)
           /\ workers[w].pc # "idle"
BY DEF Step, Respond, FindActive, FindInactive, FindNewer, FindExisting,
   InsertDeviceDeployment, IncrementDeviceCount, SaveRequest, Instructions,
   IncrementTotalSize, GetDeviceDeployment, UpdateStatus, FindDeployment, UpdateStatsInc,
   SetStatus, SaveLastStatus, CheckFinished, AbortDocs, Aggregate, UpdateStats, Finish,
   GetHistory, MarkDeleted, DeleteLast, At

\* Of the steps of devices only UpdateStatsInc moves counters.
LEMMA StepCountersStay ==
    ASSUME IInv, NEW w \in Workers, Routine(workers[w]), workers[w].kind \in DeviceKinds,
           Step(w), ~UpdateStatsInc(w), NEW d \in Deployments
    PROVE  CountersStay(d)
<1>1. deployments \in [Deployments -> DeploymentType]
  BY DEF IInv, TypeOK
<1>2. CASE IncrementDeviceCount(w)
  BY <1>1, <1>2 DEF IncrementDeviceCount, DeploymentType, CountersStay
<1>3. CASE IncrementTotalSize(w)
  BY <1>1, <1>3 DEF IncrementTotalSize, DeploymentType, CountersStay
<1>4. CASE SetStatus(w)
  BY <1>1, <1>4 DEF SetStatus, WithStatus, DeploymentType, CountersStay
<1>5. CASE UNCHANGED deployments
  BY <1>5 DEF CountersStay
<1>6. UNCHANGED deployments \/ IncrementDeviceCount(w) \/ IncrementTotalSize(w) \/ SetStatus(w)
  BY DeviceStep DEF Respond, FindActive, FindInactive, FindNewer, FindExisting,
     InsertDeviceDeployment, SaveRequest, Instructions, GetDeviceDeployment, UpdateStatus,
     FindDeployment, SaveLastStatus, ReadOnly
<1> QED BY <1>2, <1>3, <1>4, <1>5, <1>6

\* Of the steps of devices only two change what there is per status.
LEMMA StepStatusesStay ==
    ASSUME IInv, NEW w \in Workers, Routine(workers[w]), workers[w].kind \in DeviceKinds,
           Step(w), ~InsertDeviceDeployment(w), ~UpdateStatus(w)
    PROVE  StatusesStay
<1>1. docs \in Seq(DocType) /\ \A i \in DOMAIN docs : docs[i] \in DocType
  BY DocTyped DEF IInv, TypeOK
<1>2. CASE UNCHANGED docs
  BY <1>2 DEF StatusesStay
<1>3. CASE \E i, r : docs' = [docs EXCEPT ![i].request = r]
  <2>1. PICK i, r : docs' = [docs EXCEPT ![i].request = r]
    BY <1>3
  <2> QED BY <1>1, <2>1 DEF DocType, StatusesStay
<1>4. CASE \E i : docs' = [docs EXCEPT ![i].image = TRUE]
  <2>1. PICK i : docs' = [docs EXCEPT ![i].image = TRUE]
    BY <1>4
  <2> QED BY <1>1, <2>1 DEF DocType, StatusesStay
<1>5. \/ UNCHANGED docs
      \/ \E i, r : docs' = [docs EXCEPT ![i].request = r]
      \/ \E i : docs' = [docs EXCEPT ![i].image = TRUE]
  BY DeviceStep DEF Respond, FindActive, FindInactive, FindNewer, FindExisting,
     IncrementDeviceCount, SaveRequest, Instructions, IncrementTotalSize,
     GetDeviceDeployment, FindDeployment, UpdateStatsInc, SetStatus, SaveLastStatus, ReadOnly
<1> QED BY <1>2, <1>3, <1>4, <1>5

\* A device deployment comes in as pending, in place of a device that had not polled.
LEMMA InsertAcct ==
    ASSUME IInv, Ready, NEW w \in Workers, Routine(workers[w]), workers[w].kind = "poll",
           InsertDeviceDeployment(w), Step(w), NEW d \in Deployments, Acct(d)
    PROVE  Acct(d)'
<1> DEFINE job == workers[w]
           doc == NewDoc(job)
           n == Len(docs) + 1
<1>1. PICK next : Continue(w, next) /\ InsertWay(job, next)
  BY InsertIs
<1>2. /\ Adjusting(d)' = Adjusting(d)
      /\ \A st : Leaving(d, st)' = Leaving(d, st) /\ Entering(d, st)' = Entering(d, st)
  <2>1. Apart(d, w, next)
    BY <1>1 DEF Apart, InsertWay, InsertDeviceDeployment, At
  <2> QED BY <1>1, <2>1, AdjustingSame
<1>3. CountersStay(d)
  <2>1. ~UpdateStatsInc(w)
    BY DEF UpdateStatsInc, InsertDeviceDeployment, At
  <2> QED BY <2>1, StepCountersStay DEF DeviceKinds
<1>4. doc.dep = job.dep /\ doc.status = "pending"
  BY DEF NewDoc
<1>5. docs' = Append(docs, doc) /\ docs \in Seq(DocType)
  BY InsertIs DEF IInv, TypeOK
<1> HIDE DEF doc
<1>6. /\ DOMAIN docs' = DOMAIN docs \union {n} /\ n \notin DOMAIN docs
      /\ docs'[n] = doc /\ \A i \in DOMAIN docs : docs'[i] = docs[i]
  <2>1. /\ DOMAIN docs' = 1..(Len(docs) + 1) /\ DOMAIN docs = 1..Len(docs) /\ Len(docs) \in Nat
        /\ docs'[Len(docs) + 1] = doc /\ \A i \in DOMAIN docs : docs'[i] = docs[i]
    BY <1>5
  <2> QED BY <2>1
<1> HIDE DEF n
<1>7. /\ InDeployment(d)' = {i \in DOMAIN docs' : docs'[i].dep = d}
      /\ \A st : InStatus(d, st)' = {i \in InDeployment(d)' : docs'[i].status = st}
  BY DEF InDeployment, InStatus
<1>8. CASE job.dep # d
  <2>1. InDeployment(d)' = InDeployment(d)
    BY <1>4, <1>6, <1>7, <1>8 DEF InDeployment
  <2>2. \A st : InStatus(d, st)' = InStatus(d, st)
    BY <1>6, <1>7, <2>1 DEF InStatus, InDeployment
  <2> QED BY <1>2, <1>3, <2>1, <2>2, AcctSame
<1>9. CASE job.dep = d
  <2>1. InDeployment(d)' = InDeployment(d) \union {n} /\ n \notin InDeployment(d)
    BY <1>4, <1>6, <1>7, <1>9 DEF InDeployment
  <2>2. InStatus(d, "pending")' = InStatus(d, "pending") \union {n}
          /\ n \notin InStatus(d, "pending")
    BY <1>4, <1>6, <1>7, <2>1 DEF InStatus, InDeployment
  <2>3. \A st : st # "pending" => InStatus(d, st)' = InStatus(d, st)
    BY <1>4, <1>6, <1>7, <2>1 DEF InStatus, InDeployment
  <2>4. Cardinality(InDeployment(d)') = Cardinality(InDeployment(d)) + 1
          /\ Cardinality(InDeployment(d)) \in Nat
    BY <2>1, OneMore, SizesFinite
  <2>5. Cardinality(InStatus(d, "pending")') = Cardinality(InStatus(d, "pending")) + 1
          /\ Cardinality(InStatus(d, "pending")) \in Nat
    BY <2>2, OneMore, SizesFinite
  <2>6. MaxDevices(d)' = MaxDevices(d) /\ MaxDevices(d) \in Nat
    <3>1. deployments[d].list \in Seq(Devices)
      BY DEF IInv, TypeOK, DeploymentType
    <3> QED BY <1>3, <3>1 DEF MaxDevices, CountersStay
  <2>7. \A st : Cardinality(Leaving(d, st)) \in Nat /\ Cardinality(Entering(d, st)) \in Nat
    BY SizesFinite, FS_CardinalityType
  <2>8. \A st \in Statuses : Expected(d, st)' = Expected(d, st)
    <3> SUFFICES ASSUME NEW st \in Statuses PROVE Expected(d, st)' = Expected(d, st)
      OBVIOUS
    <3>1. CASE st # "pending"
      BY <1>2, <2>3, <3>1, ExpectedIs
    <3>2. CASE st = "pending"
      BY <1>2, <2>4, <2>5, <2>6, <2>7, <3>2, ExpectedIs
    <3> QED BY <3>1, <3>2
  <2> QED BY <1>3, <2>8 DEF Acct, CountersStay
<1> QED BY <1>8, <1>9

\* A status that is replaced leaves one set and enters another, and its worker is on the
\* way to the counters.
LEMMA UpdateAcct ==
    ASSUME IInv, Ready, NEW w \in Workers, Routine(workers[w]), workers[w].kind \in DeviceKinds,
           UpdateStatus(w), Step(w), NEW d \in Deployments, Acct(d)
    PROVE  Acct(d)'
<1> DEFINE job == workers[w]
<1>0. /\ docs \in Seq(DocType) /\ \A i \in DOMAIN docs : docs[i] \in DocType
      /\ job.pc = "update_status" /\ job.new \in Statuses
  BY DocTyped, JobFacts DEF IInv, TypeOK, UpdateStatus, At, JobOK
<1>1. PICK next : Continue(w, next) /\ UpdateWay(job, next)
  BY UpdateIs
<1>2. CountersStay(d)
  <2>1. ~UpdateStatsInc(w)
    BY <1>0 DEF UpdateStatsInc, At
  <2> QED BY <2>1, StepCountersStay
<1>3. CASE StatusesStay /\ next.pc \notin {"find_deployment", "inc_stats"}
  <2>1. Apart(d, w, next)
    BY <1>0, <1>3 DEF Apart
  <2> QED BY <1>1, <1>2, <1>3, <2>1, AdjustingSame, InStatusSame, AcctSame
<1>4. CASE UNCHANGED docs /\ Answered(job, next, job.new, "refused")
  BY <1>3, <1>4 DEF StatusesStay, Answered
<1>5. ASSUME NEW i, Writes(job, i)
      PROVE  /\ i \in DOMAIN docs /\ docs[i].dep = job.dep
             /\ DOMAIN docs' = DOMAIN docs /\ docs'[i].dep = docs[i].dep
             /\ docs'[i].status = job.new
             /\ \A j \in DOMAIN docs \ {i} : docs'[j] = docs[j]
  <2>1. /\ i \in DOMAIN docs /\ docs[i].dep = job.dep
        /\ docs' = [docs EXCEPT ![i].status = job.new, ![i].active = Active(job.new)]
    BY <1>5 DEF Writes, NotDeleted, DocsOf
  <2> DEFINE st == job.new
             b == Active(st)
  <2> HIDE DEF st, b
  <2>2. docs' = [docs EXCEPT ![i].status = st, ![i].active = b]
    BY <2>1 DEF st, b
  <2>3. /\ DOMAIN docs' = DOMAIN docs /\ docs'[i].dep = docs[i].dep /\ docs'[i].status = st
        /\ \A j \in DOMAIN docs \ {i} : docs'[j] = docs[j]
    BY <1>0, <2>1, <2>2 DEF DocType
  <2> QED BY <2>1, <2>3 DEF st
<1>6. ASSUME NEW i, Writes(job, i), docs[i].status = job.new, Passed(job, next)
      PROVE  Acct(d)'
  <2>1. StatusesStay
    BY <1>5, <1>6 DEF StatusesStay
  <2>2. next.pc \notin {"find_deployment", "inc_stats"}
    BY <1>6 DEF Passed, Over, Answered
  <2> QED BY <1>3, <2>1, <2>2
<1>7. ASSUME NEW i, Writes(job, i), docs[i].status # job.new, next.old = docs[i].status,
             Keeps(job, next), next.new = job.new, next.pc = "find_deployment"
      PROVE  Acct(d)'
  <2>0. /\ i \in DOMAIN docs /\ docs[i].dep = job.dep
        /\ DOMAIN docs' = DOMAIN docs /\ docs'[i].dep = docs[i].dep
        /\ docs'[i].status = job.new
        /\ \A j \in DOMAIN docs \ {i} : docs'[j] = docs[j]
    BY <1>5, <1>7
  <2>1. /\ InDeployment(d)' = {k \in DOMAIN docs' : docs'[k].dep = d}
        /\ \A st : InStatus(d, st)' = {k \in InDeployment(d)' : docs'[k].status = st}
    BY DEF InDeployment, InStatus
  <2>2. InDeployment(d)' = InDeployment(d)
    BY <2>0, <2>1 DEF InDeployment
  <2>3. CASE job.dep # d
    <3>1. \A st : InStatus(d, st)' = InStatus(d, st)
      BY <2>0, <2>1, <2>2, <2>3 DEF InStatus, InDeployment
    <3>2. Apart(d, w, next)
      BY <1>7, <2>3 DEF Apart, Keeps
    <3> QED BY <1>1, <1>2, <2>2, <3>1, <3>2, AdjustingSame, AcctSame
  <2>4. CASE job.dep = d
    <3>a. PICK old, new : old = docs[i].status /\ new = job.new
      OBVIOUS
    <3>1. old # new /\ next.old = old /\ next.new = new /\ docs'[i].status = new
      BY <1>7, <2>0, <3>a
    <3>2. /\ i \in InStatus(d, old) /\ InStatus(d, old)' = InStatus(d, old) \ {i}
          /\ i \notin InStatus(d, new) /\ InStatus(d, new)' = InStatus(d, new) \union {i}
          /\ \A st : st \notin {old, new} => InStatus(d, st)' = InStatus(d, st)
      <4>1. /\ i \in InDeployment(d) /\ docs[i].status = old
            /\ \A k \in InDeployment(d) \ {i} : docs'[k].status = docs[k].status
        BY <2>0, <2>4, <3>a DEF InDeployment
      <4> QED BY <2>1, <2>2, <3>1, <4>1 DEF InStatus
    <3>3. workers'[w] = next /\ \A v \in Workers \ {w} : workers'[v] = workers[v]
      BY <1>1, OthersStay
    <3>4. w \notin Adjusting(d) /\ Adjusting(d)' = Adjusting(d) \union {w}
      <4>1. Adjusting(d)' = {v \in Workers : /\ workers'[v].dep = d
                                             /\ workers'[v].pc \in {"find_deployment", "inc_stats"}}
        BY DEF Adjusting
      <4>2. w \notin Adjusting(d)
        BY <1>0 DEF Adjusting
      <4>3. \A v \in Workers : v \in Adjusting(d)' <=> v \in Adjusting(d) \/ v = w
        BY <1>7, <2>4, <3>3, <4>1 DEF Adjusting, Keeps
      <4>4. Adjusting(d) \subseteq Workers /\ Adjusting(d)' \subseteq Workers
        BY DEF Adjusting
      <4> QED BY <4>2, <4>3, <4>4
    <3>5. \A st : /\ Leaving(d, st)' = {v \in Adjusting(d)' : workers'[v].old = st}
                  /\ Entering(d, st)' = {v \in Adjusting(d)' : workers'[v].new = st}
      BY DEF Leaving, Entering
    <3>6. \A v \in Adjusting(d) : workers'[v] = workers[v]
      BY <3>3, <3>4 DEF Adjusting
    <3>7. /\ w \notin Leaving(d, old) /\ Leaving(d, old)' = Leaving(d, old) \union {w}
          /\ \A st : st # old => Leaving(d, st)' = Leaving(d, st)
      BY <3>1, <3>3, <3>4, <3>5, <3>6 DEF Leaving
    <3>8. /\ w \notin Entering(d, new) /\ Entering(d, new)' = Entering(d, new) \union {w}
          /\ \A st : st # new => Entering(d, st)' = Entering(d, st)
      BY <3>1, <3>3, <3>4, <3>5, <3>6 DEF Entering
    <3>9. /\ Cardinality(InStatus(d, old)) \in Nat
          /\ Cardinality(InStatus(d, old)') = Cardinality(InStatus(d, old)) - 1
      BY <3>2, OneLess, SizesFinite
    <3>10. /\ Cardinality(InStatus(d, new)) \in Nat
           /\ Cardinality(InStatus(d, new)') = Cardinality(InStatus(d, new)) + 1
      BY <3>2, OneMore, SizesFinite
    <3>11. /\ Cardinality(Leaving(d, old)) \in Nat
           /\ Cardinality(Leaving(d, old)') = Cardinality(Leaving(d, old)) + 1
      BY <3>7, OneMore, SizesFinite
    <3>12. /\ Cardinality(Entering(d, new)) \in Nat
           /\ Cardinality(Entering(d, new)') = Cardinality(Entering(d, new)) + 1
      BY <3>8, OneMore, SizesFinite
    <3>13. /\ MaxDevices(d)' = MaxDevices(d) /\ MaxDevices(d) \in Nat
           /\ Cardinality(InDeployment(d)) \in Nat
      <4>1. deployments[d].list \in Seq(Devices)
        BY DEF IInv, TypeOK, DeploymentType
      <4> QED BY <1>2, <4>1, SizesFinite, FS_CardinalityType DEF MaxDevices, CountersStay
    <3>14. \A st : /\ Cardinality(InStatus(d, st)) \in Nat
                   /\ Cardinality(Leaving(d, st)) \in Nat
                   /\ Cardinality(Entering(d, st)) \in Nat
      BY SizesFinite, FS_CardinalityType
    <3> DEFINE rest(st) == IF st = "pending"
                           THEN MaxDevices(d) - Cardinality(InDeployment(d)) ELSE 0
    <3>15. \A st : /\ Expected(d, st) = Cardinality(InStatus(d, st))
                        + Cardinality(Leaving(d, st)) - Cardinality(Entering(d, st)) + rest(st)
                   /\ Expected(d, st)' = Cardinality(InStatus(d, st)')
                        + Cardinality(Leaving(d, st)') - Cardinality(Entering(d, st)') + rest(st)
                   /\ rest(st) \in Int
      BY <2>2, <3>13, ExpectedIs
    <3> HIDE DEF rest
    <3>16. \A st \in Statuses : Expected(d, st)' = Expected(d, st)
      <4> SUFFICES ASSUME NEW st \in Statuses PROVE Expected(d, st)' = Expected(d, st)
        OBVIOUS
      <4>1. CASE st = old
        BY <3>1, <3>8, <3>9, <3>11, <3>14, <3>15, <4>1
      <4>2. CASE st = new
        BY <3>1, <3>7, <3>10, <3>12, <3>14, <3>15, <4>2
      <4>3. CASE st \notin {old, new}
        BY <3>2, <3>7, <3>8, <3>15, <4>3
      <4> QED BY <4>1, <4>2, <4>3
    <3> QED BY <1>2, <3>16 DEF Acct, CountersStay
  <2> QED BY <2>3, <2>4
<1> QED BY <1>1, <1>4, <1>6, <1>7 DEF UpdateWay

\* A worker that moves the counters is no longer on its way to them.
LEMMA IncAcct ==
    ASSUME IInv, Ready, NEW w \in Workers, Routine(workers[w]), workers[w].kind \in DeviceKinds,
           UpdateStatsInc(w), NEW d \in Deployments, Acct(d)
    PROVE  Acct(d)'
<1>0. PICK job : job = workers[w]
  OBVIOUS
<1>1. PICK next : Continue(w, next) /\ IncWay(job, next)
  BY <1>0, IncIs
<1>2. /\ job.pc = "inc_stats" /\ job.new \in Statuses /\ job.old \in Statuses
      /\ job.old # job.new
  BY <1>0, JobFacts DEF UpdateStatsInc, At, JobOK
<1>3. next.pc \notin {"find_deployment", "inc_stats"}
  BY <1>1 DEF IncWay, Passed, Over, Answered
<1>4. deployments' = [deployments EXCEPT ![job.dep].stats =
                        StatsInc(deployments[job.dep].stats, job.old, job.new)]
  BY <1>0, IncIs DEF StatsAfter
<1>5. StatusesStay
  BY DEF UpdateStatsInc, StatusesStay
<1>6. deployments \in [Deployments -> DeploymentType]
  BY DEF IInv, TypeOK
<1>7. CASE job.dep # d
  <2>1. CountersStay(d)
    BY <1>4, <1>6, <1>7 DEF CountersStay
  <2>2. Apart(d, w, next)
    BY <1>0, <1>3, <1>7 DEF Apart
  <2> QED BY <1>1, <1>5, <2>1, <2>2, AdjustingSame, InStatusSame, AcctSame
<1>8. CASE job.dep = d
  <2>0. PICK old, new, stats : old = job.old /\ new = job.new /\ stats = deployments[d].stats
    OBVIOUS
  <2>1. /\ deployments'[d].list = deployments[d].list
        /\ deployments'[d].stats = StatsInc(stats, old, new)
    BY <1>4, <1>6, <1>8, <2>0 DEF DeploymentType
  <2>2. stats \in StatsType /\ old \in Statuses /\ new \in Statuses /\ old # new
    BY <1>2, <1>6, <2>0 DEF DeploymentType
  <2>3. /\ deployments'[d].stats[old] = stats[old] - 1
        /\ deployments'[d].stats[new] = stats[new] + 1
        /\ \A st \in Statuses \ {old, new} : deployments'[d].stats[st] = stats[st]
    BY <2>1, <2>2 DEF StatsInc, StatsType
  <2>4. workers'[w] = next /\ \A v \in Workers \ {w} : workers'[v] = workers[v]
    BY <1>1, OthersStay
  <2>5. w \in Adjusting(d) /\ Adjusting(d)' = Adjusting(d) \ {w}
    <3>1. Adjusting(d)' = {v \in Workers : /\ workers'[v].dep = d
                                           /\ workers'[v].pc \in {"find_deployment", "inc_stats"}}
      BY DEF Adjusting
    <3>2. w \in Adjusting(d)
      BY <1>0, <1>2, <1>8 DEF Adjusting
    <3>3. \A v \in Workers : v \in Adjusting(d)' <=> v \in Adjusting(d) /\ v # w
      BY <1>3, <2>4, <3>1 DEF Adjusting
    <3>4. Adjusting(d) \subseteq Workers /\ Adjusting(d)' \subseteq Workers
      BY DEF Adjusting
    <3> QED BY <3>2, <3>3, <3>4
  <2>6. \A st : /\ Leaving(d, st)' = {v \in Adjusting(d)' : workers'[v].old = st}
                /\ Entering(d, st)' = {v \in Adjusting(d)' : workers'[v].new = st}
    BY DEF Leaving, Entering
  <2>7. \A v \in Adjusting(d) \ {w} : workers'[v] = workers[v]
    BY <2>4 DEF Adjusting
  <2>8. /\ w \in Leaving(d, old) /\ Leaving(d, old)' = Leaving(d, old) \ {w}
        /\ \A st : st # old => Leaving(d, st)' = Leaving(d, st)
    BY <1>0, <2>0, <2>5, <2>6, <2>7 DEF Leaving
  <2>9. /\ w \in Entering(d, new) /\ Entering(d, new)' = Entering(d, new) \ {w}
        /\ \A st : st # new => Entering(d, st)' = Entering(d, st)
    BY <1>0, <2>0, <2>5, <2>6, <2>7 DEF Entering
  <2>10. /\ Cardinality(Leaving(d, old)) \in Nat
         /\ Cardinality(Leaving(d, old)') = Cardinality(Leaving(d, old)) - 1
    BY <2>8, OneLess, SizesFinite
  <2>11. /\ Cardinality(Entering(d, new)) \in Nat
         /\ Cardinality(Entering(d, new)') = Cardinality(Entering(d, new)) - 1
    BY <2>9, OneLess, SizesFinite
  <2>12. /\ MaxDevices(d)' = MaxDevices(d) /\ MaxDevices(d) \in Nat
         /\ Cardinality(InDeployment(d)) \in Nat
    <3>1. deployments[d].list \in Seq(Devices)
      BY <1>6 DEF DeploymentType
    <3> QED BY <2>1, <3>1, SizesFinite, FS_CardinalityType DEF MaxDevices
  <2>13. \A st : /\ Cardinality(InStatus(d, st)) \in Nat
                 /\ Cardinality(Leaving(d, st)) \in Nat
                 /\ Cardinality(Entering(d, st)) \in Nat
    BY SizesFinite, FS_CardinalityType
  <2>14. InDeployment(d)' = InDeployment(d) /\ \A st : InStatus(d, st)' = InStatus(d, st)
    BY <1>5, InStatusSame
  <2> DEFINE rest(st) == IF st = "pending"
                         THEN MaxDevices(d) - Cardinality(InDeployment(d)) ELSE 0
  <2>15. \A st : /\ Expected(d, st) = Cardinality(InStatus(d, st))
                      + Cardinality(Leaving(d, st)) - Cardinality(Entering(d, st)) + rest(st)
                 /\ Expected(d, st)' = Cardinality(InStatus(d, st))
                      + Cardinality(Leaving(d, st)') - Cardinality(Entering(d, st)') + rest(st)
                 /\ rest(st) \in Int
    BY <2>12, <2>14, ExpectedIs
  <2> HIDE DEF rest
  <2>16. \A st \in Statuses : stats[st] = Expected(d, st)
    BY <2>0 DEF Acct
  <2>17. ASSUME NEW st \in Statuses PROVE deployments'[d].stats[st] = Expected(d, st)'
    <3>1. CASE st = old
      BY <2>2, <2>3, <2>9, <2>10, <2>13, <2>15, <2>16, <3>1
    <3>2. CASE st = new
      BY <2>2, <2>3, <2>8, <2>11, <2>13, <2>15, <2>16, <3>2
    <3>3. CASE st \notin {old, new}
      BY <2>3, <2>8, <2>9, <2>15, <2>16, <3>3
    <3> QED BY <3>1, <3>2, <3>3
  <2> QED BY <2>17 DEF Acct
<1> QED BY <1>7, <1>8

\* The other steps of devices touch nothing the counters are about.
LEMMA StepAcct ==
    ASSUME IInv, Ready, NEW w \in Workers, workers[w].kind \in DeviceKinds, Step(w),
           NEW d \in Deployments, Acct(d)
    PROVE  Acct(d)'
<1>0. Routine(workers[w])
  BY DEF Ready
<1>1. CASE InsertDeviceDeployment(w)
  <2>1. workers[w].kind = "poll"
    BY <1>0, <1>1 DEF InsertDeviceDeployment, At, Routine, ReportPCs, AfterPCs, AbortPCs
  <2> QED BY <1>0, <1>1, <2>1, InsertAcct
<1>2. CASE UpdateStatus(w)
  BY <1>0, <1>2, UpdateAcct
<1>3. CASE UpdateStatsInc(w)
  BY <1>0, <1>3, IncAcct
<1>4. CASE ~InsertDeviceDeployment(w) /\ ~UpdateStatus(w) /\ ~UpdateStatsInc(w)
  <2>1. StatusesStay /\ CountersStay(d)
    BY <1>0, <1>4, StepStatusesStay, StepCountersStay
  <2>2. CASE FindDeployment(w)
    <3>1. PICK next : Continue(w, next) /\ FindDeploymentWay(workers[w], next)
      BY <2>2, FindDeploymentIs
    <3>2. Along(w, next)
      BY <2>2, <3>1 DEF Along, FindDeploymentWay, Keeps, FindDeployment, At
    <3> QED BY <2>1, <3>1, <3>2, AdjustingSame, InStatusSame, AcctSame
  <2>3. CASE ~FindDeployment(w)
    <3>1. PICK next : Continue(w, next) /\ Came(w, next.pc)
      BY DeviceGoesOn
    <3>2. Apart(d, w, next)
      BY <1>4, <2>3, <3>1, StepAt DEF Came, Apart
    <3> QED BY <2>1, <3>1, <3>2, AdjustingSame, InStatusSame, AcctSame
  <2> QED BY <2>2, <2>3
<1> QED BY <1>1, <1>2, <1>3, <1>4

\* A deployment is built with all its devices pending, and nothing refers to it yet.
LEMMA BuiltAcct ==
    ASSUME IInv, Ready, NEW d \in Deployments, deployments[d].stage = "none",
           UNCHANGED <<docs, workers>>, NEW list \in DeviceLists,
           deployments'[d].list = list, deployments'[d].stats = InitialStats(Len(list))
    PROVE  Acct(d)'
<1>1. InDeployment(d) = {}
  BY DEF InDeployment, Ready, Stored
<1>2. Adjusting(d) = {}
  BY DEF Adjusting, Ready, Refers, Stored
<1>3. /\ InDeployment(d)' = {} /\ \A st : InStatus(d, st)' = {}
      /\ \A st : Leaving(d, st)' = {} /\ Entering(d, st)' = {}
  BY <1>1, <1>2 DEF InDeployment, InStatus, Adjusting, Leaving, Entering
<1>4. MaxDevices(d)' = Len(list) /\ Len(list) \in Nat
  <2>1. list \in Seq(Devices)
    BY ListsAssumption
  <2> QED BY <2>1 DEF MaxDevices
<1>5. \A st : Expected(d, st)' = IF st = "pending" THEN Len(list) ELSE 0
  BY <1>3, <1>4, ExpectedIs, FS_EmptySet
<1>6. \A st \in Statuses : InitialStats(Len(list))[st] = IF st = "pending" THEN Len(list) ELSE 0
  BY DEF InitialStats, NewStats
<1> QED BY <1>5, <1>6 DEF Acct

\* Every step keeps the counters right.
LEMMA NextAcctInv == AcctInv /\ [Next]_vars => AcctInv'
<1> SUFFICES ASSUME AcctInv, [Next]_vars, Undisturbed', NEW d \in Deployments,
                    deployments'[d].stage # "none"
             PROVE  Acct(d)'
  BY NextRInv DEF AcctInv
<1>1. Undisturbed /\ RInv /\ IInv /\ Ready
  BY Before DEF AcctInv, RInv, AInv, Undisturbed, Plain
<1>2. deployments[d].stage # "none" => Acct(d)
  BY <1>1 DEF AcctInv
<1>3. CASE UNCHANGED <<docs, workers>> /\ CountersStay(d) /\ deployments[d].stage # "none"
  <2>1. /\ InDeployment(d)' = InDeployment(d)
        /\ \A st : /\ InStatus(d, st)' = InStatus(d, st)
                   /\ Leaving(d, st)' = Leaving(d, st) /\ Entering(d, st)' = Entering(d, st)
    BY <1>3 DEF InDeployment, InStatus, Adjusting, Leaving, Entering
  <2> QED BY <1>2, <1>3, <2>1, AcctSame
<1>4. CASE Create
  <2>0. deployments[d] \in DeploymentType
    BY <1>1 DEF IInv, TypeOK
  <2>1. UNCHANGED <<docs, workers>>
    BY <1>1, <1>4, CreateKeepsDeployments
  <2>2. CASE deployments'[d] = deployments[d]
    BY <1>3, <2>1, <2>2 DEF CountersStay
  <2>3. ASSUME deployments[d].stage = "none", NEW list \in DeviceLists,
               deployments'[d] = [deployments[d] EXCEPT !.stage = "built", !.list = list,
                                        !.stats = InitialStats(Len(list))]
        PROVE  Acct(d)'
    <3> DEFINE stats == InitialStats(Len(list))
    <3> HIDE DEF stats
    <3>1. deployments'[d].list = list /\ deployments'[d].stats = stats
      BY <2>0, <2>3 DEF DeploymentType, stats
    <3> QED BY <1>1, <2>1, <2>3, <3>1, BuiltAcct DEF stats
  <2>4. CASE /\ deployments[d].stage = "built"
             /\ deployments'[d] = [deployments[d] EXCEPT !.stage = "stored", !.active = TRUE]
    BY <1>3, <2>0, <2>1, <2>4 DEF DeploymentType, CountersStay
  <2> QED BY <1>1, <1>4, <2>2, <2>3, <2>4, CreateKeepsDeployments
<1>5. ASSUME NEW w \in Workers, Request(w)
      PROVE  Acct(d)'
  <2>1. Plain'
    BY DEF Undisturbed, Plain
  <2>2. /\ workers[w].pc = "idle" /\ UNCHANGED <<deployments, docs>>
        /\ \E next : /\ Continue(w, next)
                     /\ PollArrives(next) \/ ReportArrives(next) \/ AbortArrives(next)
    BY <1>1, <1>5, <2>1, RequestIs
  <2>3. PICK next : /\ Continue(w, next)
                    /\ PollArrives(next) \/ ReportArrives(next) \/ AbortArrives(next)
    BY <2>2
  <2>4. Apart(d, w, next)
    BY <2>2, <2>3, PollArrivesIs, ReportArrivesIs, AbortArrivesIs DEF Apart
  <2>5. StatusesStay /\ CountersStay(d) /\ deployments[d].stage # "none"
    BY <2>2 DEF StatusesStay, CountersStay
  <2> QED BY <1>1, <1>2, <2>3, <2>4, <2>5, AdjustingSame, InStatusSame, AcctSame
<1>6. ASSUME NEW w \in Workers, Fail(w)
      PROVE  FALSE
  BY <1>1, <1>6, FailIs DEF Ready, Undisturbed
<1>7. ASSUME NEW w \in Workers, Step(w)
      PROVE  Acct(d)'
  <2>1. workers[w].kind \in DeviceKinds
    BY <1>1, <1>7, StepAt DEF Ready, Routine, Undisturbed, DeviceKinds
  <2>2. deployments[d].stage # "none"
    BY <1>1, <1>7, StepKeepsDeployments
  <2> QED BY <1>1, <1>2, <1>7, <2>1, <2>2, StepAcct
<1>8. CASE UNCHANGED vars
  BY <1>3, <1>8 DEF vars, CountersStay
<1> QED BY <1>4, <1>5, <1>6, <1>7, <1>8 DEF Next

\* The counters of every deployment in the store are accounted for (StatsAccounting), as
\* long as no operator has interfered and no request was cut short: each is the number of
\* device deployments in its status, give or take the updates that have written a status
\* and not moved the counter yet (updateDeviceDeploymentStatus, UpdateStatsInc).
THEOREM CountersAccountedFor == Spec => []StatsAccounting
<1>1. Init => AcctInv
  <2>1. Init => \A d \in Deployments : deployments[d].stage = "none"
    BY DEF Init
  <2> QED BY <2>1, InitRInv DEF AcctInv
<1>2. AcctInv => StatsAccounting
  BY DEF AcctInv, Acct, StatsAccounting, Stored
<1> QED BY <1>1, <1>2, NextAcctInv, PTL DEF Spec

---------------------------------------------------------------------------
(* The order of delivery, when a device has one request in flight at a time. *)

\* A nonempty set of natural numbers has a least element.
LEMMA Least ==
    ASSUME NEW S \in SUBSET Nat, S # {}
    PROVE  \E x \in S : \A y \in S : x <= y
<1> DEFINE R == StrictSubsetOrdering(Nat)
           T == {0..x : x \in S}
<1>1. \A n \in Nat : IsFiniteSet(0..n) /\ (0..n) \in SUBSET Nat
  BY FS_Interval
<1>2. T \subseteq FiniteSubsetsOf(Nat) /\ T # {}
  BY <1>1 DEF FiniteSubsetsOf
<1>3. IsWellFoundedOn(R, FiniteSubsetsOf(Nat))
  BY FS_StrictSubsetOrderingWellFounded
<1>4. \E t \in T : \A s \in T : ~(<<s, t>> \in R)
  <2> HIDE DEF T, R
  <2> QED BY <1>2, <1>3, WFMin
<1>5. PICK x \in S : \A y \in S : ~(<<0..y, 0..x>> \in R)
  BY <1>4
<1>6. ASSUME NEW y \in S, y < x
      PROVE  FALSE
  <2>1. (0..y) \in SUBSET Nat /\ (0..x) \in SUBSET Nat
    BY <1>1
  <2>2. (0..y) \subseteq (0..x) /\ x \in 0..x /\ x \notin 0..y
    BY <1>6
  <2>3. <<0..y, 0..x>> \in R
    BY <2>1, <2>2 DEF StrictSubsetOrdering
  <2> QED BY <1>5, <2>3
<1> QED BY <1>6

\* The device deployments of a device are over, and of deployments up to d.
OverUpTo(dev, d) ==
    \A i \in DOMAIN docs : docs[i].dev = dev => ~docs[i].active /\ docs[i].dep <= d

\* A poll that looks for a newer deployment has no active device deployment,
\* and all it has are older than what it finds.
Searching(job) ==
    /\ job.pc = "find_inactive" => OverUpTo(job.dev, NumDeployments)
    /\ job.pc = "find_newer" => OverUpTo(job.dev, job.after)
    /\ job.pc \in {"find_existing", "insert"} =>
         /\ OverUpTo(job.dev, job.dep - 1)
         /\ job.dev \in Listed(job.dep)
    /\ job.pc = "insert" => job.first

\* A device has one request in flight at a time.
Alone ==
    \A v, w \in Workers :
        /\ workers[v].kind \in DeviceKinds /\ workers[w].kind \in DeviceKinds
        /\ workers[v].dev = workers[w].dev
        => v = w

\* Nothing is deleted, and only listed devices take part.
AllListed == \A i \in DOMAIN docs : ~docs[i].deleted /\ docs[i].dev \in Listed(docs[i].dep)

Orderly ==
    /\ Alone
    /\ AllListed
    /\ \A w \in Workers : workers[w].kind = "poll" => Searching(workers[w])
    /\ DeliveredInOrder

OInv == RInv /\ (Plain => Orderly)

\* A poll that finds no active device deployment has none.
LEMMA NoneActive ==
    ASSUME IInv, AllListed, NEW dev, OldestActive(dev) = {}
    PROVE  OverUpTo(dev, NumDeployments)
<1> DEFINE A == {i \in DeviceDocs(dev) : docs[i].active}
           S == {docs[i].dep : i \in A}
<1>0. \A i \in DOMAIN docs : docs[i].dep \in Nat /\ docs[i].dep <= NumDeployments
  BY DocTyped, NumDeploymentsAssumption DEF IInv, Deployments
<1>1. A = {}
  <2> SUFFICES ASSUME A # {} PROVE FALSE
    OBVIOUS
  <2>1. S \in SUBSET Nat /\ S # {}
    BY <1>0 DEF DeviceDocs, NotDeleted
  <2>2. PICK x \in S : \A y \in S : x <= y
    <3> HIDE DEF S
    <3> QED BY <2>1, Least
  <2>3. PICK i \in A : docs[i].dep = x
    OBVIOUS
  <2>4. i \in OldestActive(dev)
    BY <2>2, <2>3 DEF OldestActive
  <2> QED BY <2>4
<1>2. \A i \in DOMAIN docs : docs[i].dev = dev => i \in DeviceDocs(dev)
  BY DEF DeviceDocs, NotDeleted, AllListed
<1> QED BY <1>0, <1>1, <1>2 DEF OverUpTo

\* The latest inactive device deployment bounds the deployments of the device.
LEMMA LatestBounds ==
    ASSUME IInv, AllListed, NEW dev, OverUpTo(dev, NumDeployments)
    PROVE  /\ LatestInactive(dev) = {} => \A d : OverUpTo(dev, d)
           /\ \A i \in LatestInactive(dev) : OverUpTo(dev, docs[i].dep)
<1> DEFINE S == {NumDeployments - docs[i].dep : i \in Inactive(dev)}
<1>0. \A i \in DOMAIN docs : docs[i].dep \in Nat /\ docs[i].dep <= NumDeployments
  BY DocTyped, NumDeploymentsAssumption DEF IInv, Deployments
<1>1. \A i \in DOMAIN docs : docs[i].dev = dev => i \in Inactive(dev)
  BY DEF Inactive, DeviceDocs, NotDeleted, AllListed, OverUpTo
<1>2. Inactive(dev) \subseteq DOMAIN docs
  BY DEF Inactive, DeviceDocs, NotDeleted
<1>3. ASSUME LatestInactive(dev) = {}, Inactive(dev) # {}
      PROVE  FALSE
  <2>1. S \in SUBSET Nat /\ S # {}
    BY <1>0, <1>2, <1>3, NumDeploymentsAssumption
  <2>2. PICK x \in S : \A y \in S : x <= y
    <3> HIDE DEF S
    <3> QED BY <2>1, Least
  <2>3. PICK i \in Inactive(dev) : NumDeployments - docs[i].dep = x
    OBVIOUS
  <2>4. \A j \in Inactive(dev) : NumDeployments - docs[i].dep <= NumDeployments - docs[j].dep
    BY <2>2, <2>3
  <2>5. \A j \in Inactive(dev) : docs[j].dep <= docs[i].dep
    BY <1>0, <1>2, <2>4, NumDeploymentsAssumption
  <2> QED BY <1>3, <2>3, <2>5 DEF LatestInactive
<1> QED BY <1>1, <1>3 DEF OverUpTo, LatestInactive

\* What a step that neither inserts a device deployment of a device nor makes one active
\* leaves true of it.
LEMMA OverStays ==
    ASSUME NEW dev, NEW d, OverUpTo(dev, d),
           \A i \in DOMAIN docs' :
             docs'[i].dev = dev => /\ i \in DOMAIN docs /\ docs'[i].dep = docs[i].dep
                                   /\ docs[i].dev = dev /\ (docs'[i].active => docs[i].active)
    PROVE  OverUpTo(dev, d)'
BY DEF OverUpTo

\* A poll between two reads keeps what it knows.
LEMMA PollSearches ==
    ASSUME IInv, AllListed, NEW w \in Workers, workers[w].kind = "poll", Step(w),
           Searching(workers[w]), Ready
    PROVE  \E next :
             /\ Continue(w, next)
             /\ next.kind = "poll" => Searching(next)
<1> DEFINE job == workers[w]
           Goal == \E next : Continue(w, next) /\ (next.kind = "poll" => Searching(next))
<1>1. CASE FindActive(w)
  <2>1. PICK next : Continue(w, next) /\ FindActiveWay(job, next)
    BY <1>1, FindActiveIs
  <2>2. Searching(next)
    BY <2>1, NoneActive DEF FindActiveWay, Searching
  <2> QED BY <2>1, <2>2
<1>2. CASE FindInactive(w)
  <2>1. PICK next : Continue(w, next) /\ FindInactiveWay(job, next)
    BY <1>2, FindInactiveIs
  <2>2. OverUpTo(job.dev, NumDeployments)
    BY <1>2 DEF Searching, FindInactive, At
  <2>3. Searching(next)
    BY <2>1, <2>2, LatestBounds DEF FindInactiveWay, Searching, Keeps
  <2> QED BY <2>1, <2>3
<1>3. CASE FindNewer(w)
  <2>1. PICK next : Continue(w, next) /\ FindNewerWay(job, next)
    BY <1>3, FindNewerIs
  <2>2. OverUpTo(job.dev, job.after) /\ job.after \in Nat
    <3>1. job \in WorkerType
      BY JobFacts
    <3>2. job.after \in Nat
      BY <3>1, NumDeploymentsAssumption DEF WorkerType, Deployments
    <3> QED BY <1>3, <3>2 DEF Searching, FindNewer, At
  <2>3. \A i \in DOMAIN docs : docs[i].dep \in Nat
    BY DocTyped, NumDeploymentsAssumption DEF IInv, Deployments
  <2>4. \A d \in NewerActive(job.dev, job.after) :
          /\ OverUpTo(job.dev, d) /\ OverUpTo(job.dev, d - 1)
          /\ job.dev \in Listed(d)
    <3> SUFFICES ASSUME NEW d \in NewerActive(job.dev, job.after)
                 PROVE  /\ OverUpTo(job.dev, d) /\ OverUpTo(job.dev, d - 1)
                        /\ job.dev \in Listed(d)
      OBVIOUS
    <3>1. d \in Nat /\ job.after <= d - 1 /\ job.dev \in Listed(d)
      BY <2>2, NumDeploymentsAssumption DEF NewerActive, Deployments
    <3> QED BY <2>2, <2>3, <3>1 DEF OverUpTo
  <2>5. Searching(next)
    <3>1. CASE Answered(job, next, job.new, "none")
      BY <3>1 DEF Answered, Searching
    <3>2. ASSUME NEW d \in NewerActive(job.dev, job.after), next.dev = job.dev,
                 \/ next.pc = "find_newer" /\ next.after = d
                 \/ next.pc = "find_existing" /\ next.dep = d
          PROVE  Searching(next)
      BY <2>4, <3>2 DEF Searching
    <3> QED BY <2>1, <3>1, <3>2 DEF FindNewerWay
  <2> QED BY <2>1, <2>5
<1>4. CASE FindExisting(w)
  <2>1. PICK next : Continue(w, next) /\ FindExistingWay(job, next)
    BY <1>4, FindExistingIs
  <2>2. OverUpTo(job.dev, job.dep - 1) /\ job.dev \in Listed(job.dep) /\ job.dep \in Nat
    <3>1. job.dep \in Deployments
      BY <1>4, JobFacts DEF JobOK, FindExisting, At
    <3> QED BY <1>4, <3>1, NumDeploymentsAssumption DEF Searching, FindExisting, At, Deployments
  <2>3. DocsOf(job.dev, job.dep) = {}
    BY <2>2 DEF DocsOf, OverUpTo
  <2>4. Searching(next)
    BY <2>1, <2>2, <2>3 DEF FindExistingWay, Keeps, Searching
  <2> QED BY <2>1, <2>4
<1>5. CASE ~(FindActive(w) \/ FindInactive(w) \/ FindNewer(w) \/ FindExisting(w))
  <2>1. PICK next : Continue(w, next) /\ Came(w, next.pc)
    BY DeviceGoesOn DEF DeviceKinds
  <2>2. Searching(next)
    BY <1>5, <2>1 DEF Came, Searching
  <2> QED BY <2>1, <2>2
<1> QED BY <1>1, <1>2, <1>3, <1>4, <1>5

\* No device deployment of the device is added, moved or made active.
Untouched(dev) ==
    \A i \in DOMAIN docs' :
        docs'[i].dev = dev => /\ i \in DOMAIN docs /\ docs'[i].dep = docs[i].dep
                              /\ docs[i].dev = dev /\ (docs'[i].active => docs[i].active)

\* What a poll knows stays true.
LEMMA SearchesAfter ==
    ASSUME NEW v \in Workers, NEW job, workers'[v] = job, Searching(job), Untouched(job.dev),
           job.pc \in {"find_existing", "insert"} =>
             deployments'[job.dep].list = deployments[job.dep].list
    PROVE  Searching(workers[v])'
<1>1. \A d : OverUpTo(job.dev, d) => OverUpTo(job.dev, d)'
  BY DEF OverUpTo, Untouched
<1>2. job.pc \in {"find_existing", "insert"} => Listed(job.dep)' = Listed(job.dep)
  BY DEF Listed
<1>3. PICK up, low : up = job.after /\ low = job.dep - 1
  OBVIOUS
<1>4. /\ job.pc = "find_inactive" => OverUpTo(job.dev, NumDeployments)'
      /\ job.pc = "find_newer" => OverUpTo(job.dev, up)'
      /\ job.pc \in {"find_existing", "insert"} =>
           /\ OverUpTo(job.dev, low)'
           /\ job.dev \in Listed(job.dep)'
      /\ job.pc = "insert" => job.first
  BY <1>1, <1>2, <1>3 DEF Searching
<1> QED BY <1>3, <1>4 DEF Searching, OverUpTo, Listed

\* A device that may send a request has none in flight.
LEMMA NoneInFlight ==
    ASSUME PerDevice = 1, Ready, NEW dev, Cardinality(InFlight(dev)) < PerDevice
    PROVE  \A v \in Workers : ~(workers[v].kind \in DeviceKinds /\ workers[v].dev = dev)
<1>1. InFlight(dev) \subseteq Busy
  BY DEF InFlight, Busy, Ready, Routine, PollPCs, DevicePCs, ReportPCs, AfterPCs, AbortPCs,
     DeviceKinds
<1>2. IsFiniteSet(InFlight(dev))
  BY <1>1, FS_Subset DEF Ready
<1>3. InFlight(dev) = {}
  BY <1>2, FS_CardinalityType, FS_EmptySet
<1> QED BY <1>3 DEF InFlight

\* A request that ends or stays on its device leaves the others alone on theirs.
LEMMA AloneStays ==
    ASSUME IInv, Alone, NEW w \in Workers, NEW next, Continue(w, next),
           next.kind \in DeviceKinds =>
             \/ workers[w].kind \in DeviceKinds /\ next.dev = workers[w].dev
             \/ \A v \in Workers : ~(workers[v].kind \in DeviceKinds /\ workers[v].dev = next.dev)
    PROVE  Alone'
<1>1. workers'[w] = next /\ \A v \in Workers \ {w} : workers'[v] = workers[v]
  BY OthersStay
<1> SUFFICES ASSUME NEW v \in Workers, NEW u \in Workers,
                    workers'[v].kind \in DeviceKinds, workers'[u].kind \in DeviceKinds,
                    workers'[v].dev = workers'[u].dev
             PROVE  v = u
  BY DEF Alone
<1>2. CASE v # w /\ u # w
  BY <1>1, <1>2 DEF Alone
<1>3. CASE v = w /\ u # w
  BY <1>1, <1>3 DEF Alone
<1>4. CASE v # w /\ u = w
  BY <1>1, <1>4 DEF Alone
<1> QED BY <1>2, <1>3, <1>4

\* Device deployments that only change within stay listed and in order.
LEMMA ListedStays ==
    ASSUME IInv, Ready, AllListed, DeliveredInOrder, [Next]_vars,
           DOMAIN docs' = DOMAIN docs,
           \A i \in DOMAIN docs : /\ docs'[i].dev = docs[i].dev /\ docs'[i].dep = docs[i].dep
                                  /\ docs'[i].deleted = docs[i].deleted
    PROVE  AllListed' /\ DeliveredInOrder'
<1>1. \A i \in DOMAIN docs : deployments'[docs[i].dep].list = deployments[docs[i].dep].list
  BY StoredStays, DocTyped DEF IInv, Ready, Stored
<1>2. \A i \in DOMAIN docs' : ~docs'[i].deleted /\ docs'[i].dev \in Listed(docs[i].dep)'
  <2> SUFFICES ASSUME NEW i \in DOMAIN docs
               PROVE  ~docs'[i].deleted /\ docs'[i].dev \in Listed(docs[i].dep)'
    OBVIOUS
  <2>1. PICK d : d = docs[i].dep
    OBVIOUS
  <2>2. Listed(d)' = Listed(d) /\ docs'[i].dep = d
    BY <1>1, <2>1 DEF Listed
  <2>3. docs'[i].dev \in Listed(d)'
    BY <2>1, <2>2 DEF AllListed
  <2> QED BY <2>1, <2>2, <2>3 DEF AllListed, Listed
<1>3. DeliveredInOrder'
  BY DEF DeliveredInOrder
<1> QED BY <1>2, <1>3 DEF AllListed, Listed

\* Every step keeps the order.
LEMMA NextOInv == ASSUME PerDevice = 1 PROVE OInv /\ [Next]_vars => OInv'
<1> SUFFICES ASSUME OInv, [Next]_vars, Plain' PROVE Orderly'
  BY NextRInv DEF OInv
<1>1. IInv /\ AInv /\ Ready /\ Orderly
  BY Before DEF OInv, RInv, AInv
<1>2. CASE UNCHANGED <<docs, workers>>
  <2>1. AllListed' /\ DeliveredInOrder'
    BY <1>1, <1>2, ListedStays DEF Orderly
  <2>2. Alone'
    BY <1>1, <1>2 DEF Orderly, Alone
  <2>3. ASSUME NEW v \in Workers, workers'[v].kind = "poll" PROVE Searching(workers[v])'
    <3>1. PICK job : job = workers[v] /\ workers'[v] = job
      BY <1>2
    <3>2. Searching(job) /\ Untouched(job.dev)
      BY <1>1, <1>2, <2>3, <3>1 DEF Orderly, Untouched
    <3>3. job.pc \in {"find_existing", "insert"} =>
            deployments'[job.dep].list = deployments[job.dep].list
      BY <1>1, <3>1, JobFacts, StoredStays DEF JobOK, Ready, Refers, Stored
    <3> QED BY <3>1, <3>2, <3>3, SearchesAfter
  <2> QED BY <2>1, <2>2, <2>3 DEF Orderly
<1>3. CASE Create
  BY <1>1, <1>2, <1>3 DEF Create, BuildDeployment, InsertDeployment
<1>4. ASSUME NEW w \in Workers, NEW next, Continue(w, next), UNCHANGED docs,
             next.kind = "poll" => Searching(next) /\ next.dep \in Deployments \union {0},
             next.pc \in {"find_existing", "insert"} =>
               next.dep \in Deployments /\ deployments[next.dep].stage # "none",
             next.kind \in DeviceKinds =>
               \/ workers[w].kind \in DeviceKinds /\ next.dev = workers[w].dev
               \/ \A v \in Workers : ~(workers[v].kind \in DeviceKinds /\ workers[v].dev = next.dev)
      PROVE  Orderly'
  <2>1. AllListed' /\ DeliveredInOrder'
    BY <1>1, <1>4, ListedStays DEF Orderly
  <2>2. Alone'
    BY <1>1, <1>4, AloneStays DEF Orderly
  <2>3. ASSUME NEW v \in Workers, workers'[v].kind = "poll" PROVE Searching(workers[v])'
    <3>0. workers'[w] = next /\ \A u \in Workers \ {w} : workers'[u] = workers[u]
      BY <1>1, <1>4, OthersStay
    <3>1. PICK job : workers'[v] = job
      OBVIOUS
    <3>2. Untouched(job.dev)
      BY <1>4 DEF Untouched
    <3>3. Searching(job)
      BY <1>1, <1>4, <2>3, <3>0, <3>1 DEF Orderly
    <3>4. job.pc \in {"find_existing", "insert"} =>
            job.dep \in Deployments /\ deployments[job.dep].stage # "none"
      BY <1>1, <1>4, <3>0, <3>1, JobFacts DEF JobOK, Ready, Refers, Stored
    <3>5. job.pc \in {"find_existing", "insert"} =>
            deployments'[job.dep].list = deployments[job.dep].list
      BY <1>1, <3>4, StoredStays
    <3> QED BY <3>1, <3>2, <3>3, <3>5, SearchesAfter
  <2> QED BY <2>1, <2>2, <2>3 DEF Orderly
<1>5. ASSUME NEW w \in Workers, Request(w)
      PROVE  Orderly'
  <2>1. /\ UNCHANGED docs
        /\ \E next : /\ Continue(w, next)
                     /\ PollArrives(next) \/ ReportArrives(next) \/ AbortArrives(next)
    BY <1>1, <1>5, RequestIs
  <2>2. PICK next : /\ Continue(w, next)
                    /\ PollArrives(next) \/ ReportArrives(next) \/ AbortArrives(next)
    BY <2>1
  <2>3. next.pc \notin {"find_inactive", "find_newer", "find_existing", "insert"}
    BY <2>2, PollArrivesIs, ReportArrivesIs, AbortArrivesIs
  <2>4. next.kind = "poll" => next.dep \in Deployments \union {0}
    BY <2>2, PollArrivesIs, ReportArrivesIs, AbortArrivesIs
  <2>5. next.kind \in DeviceKinds => Cardinality(InFlight(next.dev)) < PerDevice
    BY <2>2, PollArrivesIs, ReportArrivesIs, AbortArrivesIs DEF DeviceKinds
  <2>6. next.kind \in DeviceKinds =>
          \A v \in Workers : ~(workers[v].kind \in DeviceKinds /\ workers[v].dev = next.dev)
    BY <1>1, <2>5, NoneInFlight
  <2>7. Searching(next)
    BY <2>3 DEF Searching
  <2> QED BY <1>4, <2>1, <2>2, <2>3, <2>4, <2>6, <2>7
<1>6. ASSUME NEW w \in Workers, Fail(w)
      PROVE  Orderly'
  <2>1. /\ UNCHANGED docs
        /\ \E next :
             /\ Continue(w, next)
             /\ \/ next = Idle
                \/ workers[w].kind \in DeviceKinds
                     /\ (Answered(workers[w], next, workers[w].new, "offer")
                           \/ Over(workers[w], next))
    BY <1>1, <1>6, FailIs DEF Ready
  <2>2. PICK next :
             /\ Continue(w, next)
             /\ \/ next = Idle
                \/ workers[w].kind \in DeviceKinds
                     /\ (Answered(workers[w], next, workers[w].new, "offer")
                           \/ Over(workers[w], next))
    BY <2>1
  <2>3. \/ next = Idle
        \/ /\ workers[w].kind \in DeviceKinds /\ next.dev = workers[w].dev
           /\ next.dep = workers[w].dep /\ next.pc = "respond"
    BY <2>2 DEF Answered, Over, Keeps
  <2>4. Idle.pc = "idle" /\ Idle.kind = "none"
    BY DEF Idle
  <2>5. workers[w].dep \in Deployments \union {0}
    BY <1>1 DEF IInv, TypeOK, WorkerType
  <2>6. Searching(next)
    BY <2>3, <2>4 DEF Searching
  <2>7. /\ next.kind = "poll" => next.dep \in Deployments \union {0}
        /\ next.pc \notin {"find_existing", "insert"}
        /\ next.kind \in DeviceKinds =>
             workers[w].kind \in DeviceKinds /\ next.dev = workers[w].dev
    BY <2>3, <2>4, <2>5 DEF DeviceKinds
  <2> QED BY <1>4, <2>1, <2>2, <2>6, <2>7
<1>7. ASSUME NEW w \in Workers, Step(w)
      PROVE  Orderly'
  <2>0. Routine(workers[w]) /\ workers[w].pc # "idle"
    BY <1>1, <1>7, StepAt DEF Ready
  <2>1. \E next :
          /\ Continue(w, next)
          /\ \/ next.kind \notin DeviceKinds
             \/ /\ workers[w].kind \in DeviceKinds
                /\ next.kind = workers[w].kind /\ next.dev = workers[w].dev
          /\ next.kind = "poll" => Searching(next)
          /\ next.pc \in {"find_existing", "insert"} => FindNewer(w) \/ FindExisting(w)
          /\ next.pc \in {"find_inactive", "find_newer"} /\ next.kind = "poll" =>
               FindActive(w) \/ FindInactive(w) \/ FindNewer(w)
    <3>1. CASE workers[w].kind \in DeviceKinds
      <4>1. PICK next :
               /\ Continue(w, next) /\ Came(w, next.pc)
               /\ next = Idle \/ (next.kind = workers[w].kind /\ next.dev = workers[w].dev)
        BY <1>1, <1>7, <3>1, DeviceGoesOn
      <4>2. workers'[w] = next
        BY <1>1, <4>1, OthersStay
      <4>3. workers[w].kind = "poll" =>
              \E n : Continue(w, n) /\ (n.kind = "poll" => Searching(n))
        BY <1>1, <1>7, PollSearches DEF Orderly
      <4>4. \A n : Continue(w, n) => n = next
        BY <1>1, <4>2, OthersStay
      <4>5. next.kind = "poll" => Searching(next)
        BY <4>1, <4>3, <4>4 DEF Idle
      <4>6. Idle.kind \notin DeviceKinds
        BY DEF Idle, DeviceKinds
      <4> QED BY <3>1, <4>1, <4>5, <4>6 DEF Came
    <3>2. CASE workers[w].kind \notin DeviceKinds
      <4>1. workers[w].pc \in AbortPCs
        BY <2>0, <3>2 DEF Routine, DeviceKinds
      <4>2. PICK next : Continue(w, next) /\ AbortWay(workers[w], next)
        BY <1>1, <1>7, <4>1, AbortIs
      <4>3. next.kind \notin DeviceKinds
              /\ next.pc \notin {"find_inactive", "find_newer", "find_existing", "insert"}
        BY <4>2 DEF AbortWay, Idle, DeviceKinds, AbortPCs
      <4> QED BY <4>2, <4>3 DEF DeviceKinds
    <3> QED BY <3>1, <3>2
  <2>2. PICK next :
          /\ Continue(w, next)
          /\ \/ next.kind \notin DeviceKinds
             \/ /\ workers[w].kind \in DeviceKinds
                /\ next.kind = workers[w].kind /\ next.dev = workers[w].dev
          /\ next.kind = "poll" => Searching(next)
          /\ next.pc \in {"find_existing", "insert"} => FindNewer(w) \/ FindExisting(w)
          /\ next.pc \in {"find_inactive", "find_newer"} /\ next.kind = "poll" =>
               FindActive(w) \/ FindInactive(w) \/ FindNewer(w)
    BY <2>1
  <2>3. workers'[w] = next /\ \A v \in Workers \ {w} : workers'[v] = workers[v]
    BY <1>1, <2>2, OthersStay
  <2>4. Alone'
    BY <1>1, <2>2, AloneStays DEF Orderly
  <2>5. AllListed' /\ DeliveredInOrder'
    <3>1. CASE DOMAIN docs' = DOMAIN docs
      BY <1>1, <1>7, <2>0, <3>1, DocsAfter, ListedStays DEF Orderly
    <3>2. CASE InsertDeviceDeployment(w) /\ workers[w].kind = "poll"
                 /\ docs' = Append(docs, NewDoc(workers[w]))
      <4> DEFINE doc == NewDoc(workers[w])
                 n == Len(docs) + 1
      <4>1. PICK dev, dep : dev = workers[w].dev /\ dep = workers[w].dep
        OBVIOUS
      <4>2. doc.dev = dev /\ doc.dep = dep /\ doc.deleted = FALSE
        BY <4>1 DEF NewDoc
      <4>3. OverUpTo(dev, dep - 1) /\ dev \in Listed(dep) /\ dep \in Deployments
        BY <1>1, <3>2, <4>1, JobFacts DEF Orderly, Searching, InsertDeviceDeployment, At, JobOK
      <4> HIDE DEF doc
      <4>4. /\ n \in Nat /\ DOMAIN docs' = DOMAIN docs \union {n} /\ docs'[n] = doc
            /\ \A i \in DOMAIN docs : i \in Nat /\ i < n /\ docs'[i] = docs[i]
        <5>1. docs \in Seq(DocType) /\ docs' = Append(docs, doc)
          BY <1>1, <3>2 DEF IInv, TypeOK, doc
        <5>2. /\ DOMAIN docs' = 1..(Len(docs) + 1) /\ DOMAIN docs = 1..Len(docs) /\ Len(docs) \in Nat
              /\ docs'[Len(docs) + 1] = doc /\ \A i \in DOMAIN docs : docs'[i] = docs[i]
          BY <5>1
        <5> QED BY <5>2
      <4> HIDE DEF n
      <4>5. \A d \in Deployments : Stored(d) => Listed(d)' = Listed(d)
        BY <1>1, StoredStays DEF Stored, Listed
      <4>6. Stored(dep)
        BY <1>1, <4>1, <4>3 DEF Ready, Refers
      <4>7. \A i \in DOMAIN docs : Stored(docs[i].dep) /\ docs[i].dep \in Deployments
        BY <1>1, DocTyped DEF Ready, IInv
      <4>8. ASSUME NEW i \in DOMAIN docs'
            PROVE  ~docs'[i].deleted /\ \E d : docs'[i].dep = d /\ docs'[i].dev \in Listed(d)'
        <5>1. CASE i = n
          BY <4>2, <4>3, <4>4, <4>5, <4>6, <5>1
        <5>2. CASE i \in DOMAIN docs
          <6>1. PICK d : d = docs[i].dep
            OBVIOUS
          <6>2. docs'[i].dev \in Listed(d)'
            BY <1>1, <4>4, <4>5, <4>7, <5>2, <6>1 DEF Orderly, AllListed
          <6> QED BY <1>1, <4>4, <5>2, <6>1, <6>2 DEF Orderly, AllListed
        <5> QED BY <4>4, <5>1, <5>2
      <4>9. AllListed'
        BY <4>8 DEF AllListed, Listed
      <4>10. \A i \in DOMAIN docs : docs[i].dev = dev => docs[i].dep < dep
        BY <4>3, <4>7, NumDeploymentsAssumption DEF OverUpTo, Deployments
      <4>11. DeliveredInOrder'
        BY <1>1, <4>2, <4>4, <4>10 DEF Orderly, DeliveredInOrder
      <4> QED BY <4>9, <4>11
    <3> QED BY <1>1, <1>7, <2>0, <3>1, <3>2, DocsAfter
  <2>6. ASSUME NEW v \in Workers, workers'[v].kind = "poll" PROVE Searching(workers[v])'
    <3>1. PICK job : workers'[v] = job
      OBVIOUS
    <3>2. Searching(job)
      BY <1>1, <2>2, <2>3, <2>6, <3>1 DEF Orderly
    <3>3. \/ UNCHANGED docs
          \/ job.pc \notin {"find_inactive", "find_newer", "find_existing", "insert"}
          \/ v # w /\ (workers[w].kind \in DeviceKinds => workers[w].dev # job.dev)
      <4>1. CASE v = w
        BY <2>2, <2>3, <2>6, <3>1, <4>1
        DEF FindActive, FindInactive, FindNewer, FindExisting, ReadOnly
      <4>2. CASE v # w
        BY <1>1, <2>3, <2>6, <3>1, <4>2 DEF Orderly, Alone, DeviceKinds
      <4> QED BY <4>1, <4>2
    <3>4. CASE job.pc \notin {"find_inactive", "find_newer", "find_existing", "insert"}
      BY <3>1, <3>4 DEF Searching
    <3>5. CASE job.pc \in {"find_inactive", "find_newer", "find_existing", "insert"}
      <4>1. Untouched(job.dev)
        <5>1. CASE UNCHANGED docs
          BY <5>1 DEF Untouched
        <5>2. CASE v # w /\ (workers[w].kind \in DeviceKinds => workers[w].dev # job.dev)
          <6>1. /\ \A i \in DOMAIN docs :
                     /\ i \in DOMAIN docs'
                     /\ docs'[i].dev = docs[i].dev /\ docs'[i].dep = docs[i].dep
                     /\ docs'[i].active =>
                          docs[i].active \/ (UpdateStatus(w) /\ docs[i].dev = workers[w].dev)
                /\ \/ DOMAIN docs' = DOMAIN docs
                   \/ /\ InsertDeviceDeployment(w) /\ workers[w].kind = "poll"
                      /\ docs' = Append(docs, NewDoc(workers[w]))
            BY <1>1, <1>7, <2>0, DocsAfter
          <6>2. UpdateStatus(w) => workers[w].kind \in DeviceKinds
            BY <2>0 DEF UpdateStatus, At, Routine, AbortPCs, DeviceKinds
          <6>3. \A i \in DOMAIN docs : docs'[i].dev = job.dev /\ docs'[i].active =>
                  docs[i].active
            BY <5>2, <6>1, <6>2
          <6>4. \A i \in DOMAIN docs' \ DOMAIN docs : docs'[i].dev # job.dev
            <7>1. CASE DOMAIN docs' = DOMAIN docs
              BY <7>1
            <7>2. CASE workers[w].kind = "poll" /\ docs' = Append(docs, NewDoc(workers[w]))
              <8> DEFINE doc == NewDoc(workers[w])
              <8>1. doc.dev = workers[w].dev
                BY DEF NewDoc
              <8> HIDE DEF doc
              <8>2. docs \in Seq(DocType) /\ docs' = Append(docs, doc)
                BY <1>1, <7>2 DEF IInv, TypeOK, doc
              <8>3. \A i \in DOMAIN docs' \ DOMAIN docs : docs'[i] = doc
                BY <8>2
              <8> QED BY <5>2, <7>2, <8>1, <8>3 DEF DeviceKinds
            <7> QED BY <6>1, <7>1, <7>2
          <6> QED BY <6>1, <6>3, <6>4 DEF Untouched
        <5> QED BY <3>3, <3>5, <5>1, <5>2
      <4>2. job.pc \in {"find_existing", "insert"} =>
              job.dep \in Deployments /\ deployments'[job.dep].stage # "none"
        <5>1. IInv' /\ Ready'
          BY NextRInv DEF OInv, RInv, AInv
        <5>2. job.pc \in {"find_existing", "insert"} => job.dep \in Deployments
          BY <3>1, <5>1 DEF IInv, JobOK
        <5> QED BY <3>1, <5>1, <5>2 DEF Ready, Refers, Stored
      <4>3. job.pc \in {"find_existing", "insert"} =>
              deployments'[job.dep].list = deployments[job.dep].list
        BY <1>1, <1>7, <4>2, StepKeepsDeployments
      <4> QED BY <3>1, <3>2, <4>1, <4>3, SearchesAfter
    <3> QED BY <3>4, <3>5
  <2> QED BY <2>4, <2>5, <2>6 DEF Orderly
<1> QED BY <1>2, <1>3, <1>5, <1>6, <1>7 DEF Next, vars

\* Each device is given deployments in the order of their creation, when it has one request
\* in flight and no operator deals with a single device.
THEOREM DeliveredInOrderAlways ==
    ASSUME PerDevice = 1, Kinds \subseteq DeviceKinds \union {"abort"}
    PROVE  Spec => []DeliveredInOrder
<1>1. Init => OInv
  <2> SUFFICES ASSUME Init PROVE Orderly
    BY InitRInv DEF OInv
  <2>1. docs = <<>> /\ \A w \in Workers : workers[w].kind = "none"
    BY DEF Init, Idle
  <2> QED BY <2>1 DEF Orderly, Alone, AllListed, DeliveredInOrder, DeviceKinds
<1>2. OInv => DeliveredInOrder
  BY DEF OInv, Orderly, Plain
<1>3. OInv /\ [Next]_vars => OInv'
  BY NextOInv
<1> QED BY <1>1, <1>2, <1>3, PTL DEF Spec

---------------------------------------------------------------------------
(* The device count of a deployment.                                        *)

\* Devices with a device deployment in d; requests about to count theirs.
Served(d) == {dev \in Devices : DocsOf(dev, d) # {}}
Counting(d) == {w \in Workers : workers[w].pc = "inc_count" /\ workers[w].dep = d}

\* No device is counted twice.
CountedOnce(d) == DeviceCount(d) + Cardinality(Counting(d)) <= Cardinality(Served(d))

FInv == OInv /\ (Plain => \A d \in Deployments : CountedOnce(d))

\* Both sets are finite.
LEMMA ServedFinite ==
    ASSUME IInv, Ready, NEW d
    PROVE  /\ IsFiniteSet(Served(d)) /\ Cardinality(Served(d)) \in Nat
           /\ IsFiniteSet(Counting(d)) /\ Cardinality(Counting(d)) \in Nat
<1> DEFINE S == InDeployment(d)
           f == [i \in S |-> docs[i].dev]
           T == {docs[i].dev : i \in S}
<1>1. IsFiniteSet(S)
  BY SizesFinite
<1>2. f \in Surjection(S, T)
  BY DEF Surjection
<1>3. IsFiniteSet(T)
  <2> HIDE DEF S, f, T
  <2> QED BY <1>1, <1>2, FS_Surjection
<1>4. Served(d) \subseteq T
  BY DEF Served, DocsOf, InDeployment
<1>5. Counting(d) \subseteq Busy
  BY DEF Counting, Busy
<1> QED BY <1>3, <1>4, <1>5, FS_Subset, FS_CardinalityType DEF Ready

\* The devices served stay when device deployments only change within.
LEMMA ServedStays ==
    ASSUME DOMAIN docs' = DOMAIN docs,
           \A i \in DOMAIN docs : docs'[i].dev = docs[i].dev /\ docs'[i].dep = docs[i].dep,
           NEW d
    PROVE  Served(d)' = Served(d)
<1>1. \A dev : DocsOf(dev, d)' = DocsOf(dev, d)
  BY DEF DocsOf
<1> QED BY <1>1 DEF Served

\* Only one operation moves the device count.
LEMMA DeviceCountStays ==
    ASSUME IInv, NEW w \in Workers, Step(w), ~IncrementDeviceCount(w), NEW d \in Deployments
    PROVE  deployments'[d].device_count = deployments[d].device_count
<1>1. deployments \in [Deployments -> DeploymentType]
  BY DEF IInv, TypeOK
<1>2. CASE UNCHANGED deployments
  BY <1>2
<1>3. CASE IncrementTotalSize(w)
  BY <1>1, <1>3 DEF IncrementTotalSize, DeploymentType
<1>4. CASE UpdateStatsInc(w) \/ UpdateStats(w)
  <2>1. PICK stats : deployments' = [deployments EXCEPT ![workers[w].dep].stats = stats]
    BY <1>4 DEF UpdateStatsInc, UpdateStats
  <2> QED BY <1>1, <2>1 DEF DeploymentType
<1>5. CASE SetStatus(w) \/ Finish(w)
  <2>1. PICK status : deployments' = WithStatus(workers[w].dep, status)
    BY <1>5 DEF SetStatus, Finish
  <2> QED BY <1>1, <2>1 DEF WithStatus, DeploymentType
<1>6. \/ UNCHANGED deployments \/ IncrementTotalSize(w) \/ UpdateStatsInc(w)
      \/ UpdateStats(w) \/ SetStatus(w) \/ Finish(w)
  BY DEF Step, Respond, FindActive, FindInactive, FindNewer, FindExisting,
     InsertDeviceDeployment, SaveRequest, Instructions, GetDeviceDeployment, UpdateStatus,
     FindDeployment, SaveLastStatus, CheckFinished, AbortDocs, Aggregate, GetHistory,
     MarkDeleted, DeleteLast, ReadOnly
<1> QED BY <1>2, <1>3, <1>4, <1>5, <1>6

\* Which workers are about to count, after a step of one of them.
LEMMA CountingAfter ==
    ASSUME IInv, NEW w \in Workers, NEW next, Continue(w, next), NEW d
    PROVE  /\ next.pc = "inc_count" /\ next.dep = d => Counting(d)' = Counting(d) \union {w}
           /\ ~(next.pc = "inc_count" /\ next.dep = d) => Counting(d)' = Counting(d) \ {w}
<1>1. workers'[w] = next /\ \A v \in Workers \ {w} : workers'[v] = workers[v]
  BY OthersStay
<1>2. Counting(d)' = {v \in Workers : workers'[v].pc = "inc_count" /\ workers'[v].dep = d}
  BY DEF Counting
<1> QED BY <1>1, <1>2 DEF Counting

\* A device deployment that comes in is the first of its device.
LEMMA InsertCounted ==
    ASSUME IInv, Ready, Orderly, NEW w \in Workers, workers[w].kind = "poll",
           InsertDeviceDeployment(w), NEW d \in Deployments, CountedOnce(d)
    PROVE  CountedOnce(d)'
<1> DEFINE doc == NewDoc(workers[w])
           n == Len(docs) + 1
<1>1. PICK job : job = workers[w]
  OBVIOUS
<1>2. PICK next : Continue(w, next) /\ InsertWay(job, next)
  BY <1>1, InsertIs
<1>3. doc.dev = job.dev /\ doc.dep = job.dep
  BY <1>1 DEF NewDoc
<1>4. docs' = Append(docs, doc) /\ docs \in Seq(DocType)
  BY InsertIs DEF IInv, TypeOK
<1> HIDE DEF doc
<1>5. /\ DOMAIN docs' = DOMAIN docs \union {n} /\ n \notin DOMAIN docs
      /\ docs'[n] = doc /\ \A i \in DOMAIN docs : docs'[i] = docs[i]
  <2>1. /\ DOMAIN docs' = 1..(Len(docs) + 1) /\ DOMAIN docs = 1..Len(docs) /\ Len(docs) \in Nat
        /\ docs'[Len(docs) + 1] = doc /\ \A i \in DOMAIN docs : docs'[i] = docs[i]
    BY <1>4
  <2> QED BY <2>1
<1> HIDE DEF n
<1>6. \A dev : DocsOf(dev, d)' = {i \in DOMAIN docs' : docs'[i].dev = dev /\ docs'[i].dep = d}
  BY DEF DocsOf
<1>7. job.first /\ OverUpTo(job.dev, job.dep - 1) /\ job.dep \in Deployments /\ job.dev \in Devices
        /\ job.pc = "insert"
  BY <1>1, JobFacts DEF Orderly, Searching, InsertDeviceDeployment, At, JobOK, DevicePCs
<1>8. DeviceCount(d)' = DeviceCount(d) /\ DeviceCount(d) \in Nat
  BY DEF InsertDeviceDeployment, DeviceCount, IInv, TypeOK, DeploymentType
<1>9. w \notin Counting(d)
  BY <1>1, <1>7 DEF Counting
<1>10. CASE job.dep # d
  <2>1. \A dev : DocsOf(dev, d)' = DocsOf(dev, d)
    BY <1>3, <1>5, <1>6, <1>10 DEF DocsOf
  <2>2. Served(d)' = Served(d)
    BY <2>1 DEF Served
  <2>3. Counting(d)' = Counting(d)
    <3>1. ~(next.pc = "inc_count" /\ next.dep = d)
      BY <1>2, <1>10 DEF InsertWay, Keeps
    <3>2. Counting(d)' = Counting(d) \ {w}
      BY <1>2, <3>1, CountingAfter
    <3> QED BY <1>9, <3>2
  <2> QED BY <1>8, <2>2, <2>3 DEF CountedOnce
<1>11. CASE job.dep = d
  <2>1. DocsOf(job.dev, d) = {}
    BY <1>7, <1>11, NumDeploymentsAssumption DEF DocsOf, OverUpTo, Deployments
  <2>2. /\ n \in DocsOf(job.dev, d)'
        /\ \A dev : dev # job.dev => DocsOf(dev, d)' = DocsOf(dev, d)
    BY <1>3, <1>5, <1>6, <1>11 DEF DocsOf
  <2>3. job.dev \notin Served(d) /\ Served(d)' = Served(d) \union {job.dev}
    <3>1. Served(d)' = {dev \in Devices : DocsOf(dev, d)' # {}}
      BY DEF Served
    <3> QED BY <1>7, <2>1, <2>2, <3>1 DEF Served
  <2>4. Counting(d)' = Counting(d) \union {w}
    BY <1>2, <1>7, <1>11, CountingAfter DEF InsertWay, Keeps
  <2>5. Cardinality(Served(d)') = Cardinality(Served(d)) + 1
    BY <2>3, OneMore, ServedFinite
  <2>6. Cardinality(Counting(d)') = Cardinality(Counting(d)) + 1
    BY <1>9, <2>4, OneMore, ServedFinite
  <2> QED BY <1>8, <2>5, <2>6, ServedFinite DEF CountedOnce
<1> QED BY <1>10, <1>11

\* A request that counts is no longer about to.
LEMMA CountCounted ==
    ASSUME IInv, Ready, NEW w \in Workers, workers[w].kind = "poll",
           IncrementDeviceCount(w), NEW d \in Deployments, CountedOnce(d)
    PROVE  CountedOnce(d)'
<1>1. PICK job : job = workers[w]
  OBVIOUS
<1>2. PICK next : Continue(w, next) /\ next.pc = "save_request"
  BY CountIs
<1>3. Counting(d)' = Counting(d) \ {w}
  BY <1>2, CountingAfter
<1>4. Served(d)' = Served(d)
  BY ServedStays DEF IncrementDeviceCount
<1>5. /\ deployments \in [Deployments -> DeploymentType] /\ DeviceCount(d) \in Nat
      /\ deployments' = [deployments EXCEPT ![job.dep].device_count = @ + 1]
  BY <1>1 DEF IncrementDeviceCount, DeviceCount, IInv, TypeOK, DeploymentType
<1>6. CASE job.dep # d
  <2>1. DeviceCount(d)' = DeviceCount(d)
    BY <1>5, <1>6 DEF DeviceCount
  <2>2. Counting(d)' = Counting(d)
    BY <1>1, <1>3, <1>6 DEF Counting
  <2> QED BY <1>4, <2>1, <2>2 DEF CountedOnce
<1>7. CASE job.dep = d
  <2>1. DeviceCount(d)' = DeviceCount(d) + 1
    BY <1>5, <1>7 DEF DeviceCount, DeploymentType
  <2>2. w \in Counting(d)
    BY <1>1, <1>7 DEF Counting, IncrementDeviceCount, At
  <2>3. Cardinality(Counting(d)') = Cardinality(Counting(d)) - 1
    BY <1>3, <2>2, OneLess, ServedFinite
  <2> QED BY <1>4, <1>5, <2>1, <2>3, ServedFinite DEF CountedOnce
<1> QED BY <1>6, <1>7

\* Every step counts a device at most once.
LEMMA NextFInv == ASSUME PerDevice = 1 PROVE FInv /\ [Next]_vars => FInv'
<1> SUFFICES ASSUME FInv, [Next]_vars, Plain', NEW d \in Deployments PROVE CountedOnce(d)'
  BY NextOInv DEF FInv
<1>1. IInv /\ Ready /\ Orderly /\ CountedOnce(d)
  BY Before DEF FInv, OInv, RInv, AInv
<1>2. /\ Cardinality(Counting(d)) \in Nat /\ Cardinality(Served(d)) \in Nat
      /\ DeviceCount(d) \in Nat /\ IsFiniteSet(Counting(d))
  BY <1>1, ServedFinite DEF IInv, TypeOK, DeploymentType, DeviceCount
<1>3. ASSUME DeviceCount(d)' = DeviceCount(d), Served(d)' = Served(d),
             Counting(d)' \subseteq Counting(d)
      PROVE  CountedOnce(d)'
  <2>1. Cardinality(Counting(d)') <= Cardinality(Counting(d)) /\ IsFiniteSet(Counting(d)')
    BY <1>2, <1>3, FS_Subset
  <2>2. Cardinality(Counting(d)') \in Nat
    BY <2>1, FS_CardinalityType
  <2> QED BY <1>1, <1>2, <1>3, <2>1, <2>2 DEF CountedOnce
<1>4. CASE UNCHANGED <<docs, workers>> /\ DeviceCount(d)' = DeviceCount(d)
  <2>1. Served(d)' = Served(d) /\ Counting(d)' = Counting(d)
    BY <1>4, ServedStays DEF Counting
  <2> QED BY <1>3, <1>4, <2>1
<1>5. CASE Create
  <2>1. deployments[d] \in DeploymentType
    BY <1>1 DEF IInv, TypeOK
  <2>2. DeviceCount(d)' = DeviceCount(d)
    BY <1>1, <1>5, <2>1, CreateKeepsDeployments DEF DeviceCount, DeploymentType
  <2> QED BY <1>1, <1>4, <1>5, <2>2, CreateKeepsDeployments
<1>6. ASSUME NEW w \in Workers, Request(w) \/ Fail(w)
      PROVE  CountedOnce(d)'
  <2>1. /\ UNCHANGED <<deployments, docs>>
        /\ \E next : Continue(w, next) /\ next.pc # "inc_count"
    <3>1. CASE Request(w)
      <4>1. /\ UNCHANGED <<deployments, docs>>
            /\ \E next : /\ Continue(w, next)
                         /\ PollArrives(next) \/ ReportArrives(next) \/ AbortArrives(next)
        BY <1>1, <3>1, RequestIs
      <4> QED BY <4>1, PollArrivesIs, ReportArrivesIs, AbortArrivesIs
    <3>2. CASE Fail(w)
      <4>1. /\ UNCHANGED <<deployments, docs>>
            /\ \E next : /\ Continue(w, next)
                         /\ \/ next = Idle
                            \/ Answered(workers[w], next, workers[w].new, "offer")
                            \/ Over(workers[w], next)
        BY <1>1, <3>2, FailIs DEF Ready
      <4> QED BY <4>1 DEF Idle, Answered, Over
    <3> QED BY <1>6, <3>1, <3>2
  <2>2. Counting(d)' \subseteq Counting(d)
    BY <1>1, <2>1, CountingAfter
  <2>3. Served(d)' = Served(d)
    BY <2>1, ServedStays
  <2> QED BY <1>3, <2>1, <2>2, <2>3 DEF DeviceCount
<1>7. ASSUME NEW w \in Workers, Step(w)
      PROVE  CountedOnce(d)'
  <2>0. Routine(workers[w]) /\ workers[w].pc # "idle"
    BY <1>1, <1>7, StepAt DEF Ready
  <2>1. CASE InsertDeviceDeployment(w)
    <3>1. workers[w].kind = "poll"
      BY <2>0, <2>1 DEF InsertDeviceDeployment, At, Routine, ReportPCs, AfterPCs, AbortPCs
    <3> QED BY <1>1, <2>1, <3>1, InsertCounted
  <2>2. CASE IncrementDeviceCount(w)
    <3>1. workers[w].kind = "poll"
      BY <2>0, <2>2 DEF IncrementDeviceCount, At, Routine, ReportPCs, AfterPCs, AbortPCs
    <3> QED BY <1>1, <2>2, <3>1, CountCounted
  <2>3. CASE ~InsertDeviceDeployment(w) /\ ~IncrementDeviceCount(w)
    <3>1. Served(d)' = Served(d)
      BY <1>1, <1>7, <2>0, <2>3, DocsAfter, ServedStays
    <3>2. DeviceCount(d)' = DeviceCount(d)
      BY <1>1, <1>7, <2>3, DeviceCountStays DEF DeviceCount
    <3>3. \E next : Continue(w, next) /\ next.pc # "inc_count"
      <4>1. CASE workers[w].kind \in DeviceKinds
        BY <1>1, <1>7, <2>3, <4>1, DeviceGoesOn DEF Came
      <4>2. CASE workers[w].kind \notin DeviceKinds
        <5>1. workers[w].pc \in AbortPCs
          BY <2>0, <4>2 DEF Routine, DeviceKinds
        <5>2. PICK next : Continue(w, next) /\ AbortWay(workers[w], next)
          BY <1>1, <1>7, <5>1, AbortIs
        <5> QED BY <5>2 DEF AbortWay, Idle, AbortPCs
      <4> QED BY <4>1, <4>2
    <3>4. Counting(d)' \subseteq Counting(d)
      BY <1>1, <3>3, CountingAfter
    <3> QED BY <1>3, <3>1, <3>2, <3>4
  <2> QED BY <2>1, <2>2, <2>3
<1>8. CASE UNCHANGED vars
  BY <1>4, <1>8 DEF vars, DeviceCount
<1> QED BY <1>5, <1>6, <1>7, <1>8 DEF Next

\* A list names no more devices than it is long.
LEMMA ListedBound ==
    ASSUME IInv, NEW d \in Deployments
    PROVE  /\ IsFiniteSet(Listed(d)) /\ Cardinality(Listed(d)) \in Nat
           /\ MaxDevices(d) \in Nat /\ Cardinality(Listed(d)) <= MaxDevices(d)
<1>1. PICK list : list = deployments[d].list
  OBVIOUS
<1>2. list \in Seq(Devices) /\ Len(list) \in Nat /\ DOMAIN list = 1..Len(list)
  BY <1>1 DEF IInv, TypeOK, DeploymentType
<1>3. list \in [DOMAIN list -> Devices]
  BY <1>2
<1>4. Listed(d) = {list[i] : i \in DOMAIN list}
  BY <1>1 DEF Listed
<1>5. list \in Surjection(DOMAIN list, Listed(d))
  BY <1>3, <1>4 DEF Surjection
<1>6. IsFiniteSet(DOMAIN list) /\ Cardinality(DOMAIN list) = Len(list)
  BY <1>2, FS_Interval
<1>7. IsFiniteSet(Listed(d)) /\ Cardinality(Listed(d)) <= Len(list)
  BY <1>5, <1>6, FS_Surjection
<1> QED BY <1>1, <1>2, <1>7, FS_CardinalityType DEF MaxDevices

\* A deployment with all its devices counted has served all devices on its list.
THEOREM FullMeansServedAlways ==
    ASSUME PerDevice = 1, Kinds \subseteq DeviceKinds \union {"abort"}
    PROVE  Spec => []FullMeansServed
<1>1. Init => FInv
  <2> SUFFICES ASSUME Init PROVE Orderly /\ \A d \in Deployments : CountedOnce(d)
    BY InitRInv DEF FInv, OInv
  <2>1. docs = <<>> /\ \A w \in Workers : workers[w].kind = "none" /\ workers[w].pc = "idle"
    BY DEF Init, Idle
  <2>2. Orderly
    BY <2>1 DEF Orderly, Alone, AllListed, DeliveredInOrder, DeviceKinds
  <2>3. \A d \in Deployments : Counting(d) = {} /\ Served(d) = {} /\ DeviceCount(d) = 0
    BY <2>1 DEF Counting, Served, DocsOf, DeviceCount, Init
  <2> QED BY <2>2, <2>3, FS_EmptySet DEF CountedOnce
<1>2. FInv => FullMeansServed
  <2> SUFFICES ASSUME FInv, NEW d \in Deployments, Stored(d), Full(d)
               PROVE  \A dev \in Listed(d) : DocsOf(dev, d) # {}
    BY DEF FullMeansServed
  <2>1. IInv /\ Ready /\ AllListed /\ CountedOnce(d)
    BY DEF FInv, OInv, RInv, AInv, Orderly, Plain
  <2>2. Served(d) \subseteq Listed(d)
    BY <2>1 DEF Served, DocsOf, AllListed
  <2>3. Cardinality(Served(d)) <= Cardinality(Listed(d))
    BY <2>1, <2>2, ListedBound, FS_Subset
  <2>4. /\ MaxDevices(d) <= DeviceCount(d) /\ DeviceCount(d) \in Nat
        /\ DeviceCount(d) + Cardinality(Counting(d)) <= Cardinality(Served(d))
    BY <2>1 DEF Full, CountedOnce, IInv, TypeOK, DeploymentType, DeviceCount
  <2>5. Cardinality(Served(d)) = Cardinality(Listed(d))
    BY <2>1, <2>3, <2>4, ServedFinite, ListedBound
  <2>6. Served(d) = Listed(d)
    BY <2>1, <2>2, <2>5, ListedBound, FS_Subset
  <2> QED BY <2>6 DEF Served
<1>3. FInv /\ [Next]_vars => FInv'
  BY NextFInv
<1> QED BY <1>1, <1>2, <1>3, PTL DEF Spec

---------------------------------------------------------------------------
(* What a device that reports only on what it carries out may rely on.       *)

OpenStatuses == ActiveStatuses \union {"aborted", "decommissioned"}

\* The artifact a device deployment was made for has not been installed before.
Fits(i) ==
    \/ docs[i].dep \in Configuration \union Forced
    \/ <<docs[i].dep, docs[i].request>> \notin Installed

\* What is settled about a device deployment once its device was offered it.
Given(i) ==
    /\ docs[i].request # NoRequest
    /\ docs[i].dep \notin Configuration => docs[i].image
    /\ docs[i].status = "pending" => Fits(i)

\* The copy of a device deployment a request holds is that of an active one, and right
\* unless the deployment was aborted since.
Fresh(job, i) ==
    /\ i \in DocsOf(job.dev, job.dep)
    /\ job.cur \in ActiveStatuses
    /\ docs[i].status \in {job.cur, "aborted"}

ReadPCs == {"find_active", "find_inactive", "find_newer", "find_existing", "insert",
            "inc_count", "save_request", "instructions"}

\* What a request of a device has made sure of, at each operation.
Sure(job) ==
    /\ job.dev \in Devices
    /\ job.kind = "poll" /\ job.pc \in ReadPCs => job.req \in Requests
    /\ job.pc \in {"inc_count", "save_request", "instructions"} =>
         /\ Fresh(job, job.doc)
         /\ docs[job.doc].image = job.image
         /\ docs[job.doc].request = IF job.pc = "instructions" THEN job.req ELSE job.cur_req
         /\ devices[job.dev].dep = job.dep =>
              job.cur_req # NoRequest /\ (job.cur = "pending" => Fits(job.doc))
    /\ job.pc = "inc_size" \/ (job.pc = "respond" /\ job.answer = "offer") =>
         \E i \in DocsOf(job.dev, job.dep) : Given(i) /\ docs[i].status \in OpenStatuses
    /\ job.pc = "update_status" => \E i \in DOMAIN docs : Fresh(job, i)
    /\ job.pc \in {"find_deployment", "inc_stats"} => job.old \in OpenStatuses
    /\ job.kind = "poll" /\ job.pc \in AfterPCs \union {"update_status"} =>
         job.new = "failure" \/ devices[job.dev].dep # job.dep
    /\ job.kind = "report" =>
         /\ devices[job.dev].dep = job.dep
         /\ job.pc \in {"get_dd", "update_status"} => job.new \in ReportStatuses

\* The request that ends what the device carries out.
Closes(job, d) ==
    /\ job.dep = d
    /\ \/ /\ job.kind = "report" /\ job.new \in FinishedStatuses
          /\ job.pc \in AfterPCs \union {"respond"}
       \/ job.kind = "poll" /\ job.new = "failure" /\ job.pc \in AfterPCs
       \/ job.kind = "poll" /\ job.pc = "respond" /\ job.answer = "conflict"

Closing(dev, d) ==
    \E w \in Workers : workers[w].kind \in DeviceKinds /\ workers[w].dev = dev
                         /\ Closes(workers[w], d)

\* What a device carries out is open, or on its way to an end the device will hear of.
Carrying(dev) ==
    devices[dev].dep # 0 =>
        \E i \in DocsOf(dev, devices[dev].dep) :
            Given(i) /\ (docs[i].status \in OpenStatuses \/ Closing(dev, devices[dev].dep))

Calm == Plain /\ failures = 0

Honest ==
    /\ \A w \in Workers : workers[w].kind \in DeviceKinds => Sure(workers[w])
    /\ \A dev \in Devices : Carrying(dev)

CInv == OInv /\ (Calm => Honest)

\* A step leaves a device alone: what it carries out, and its device deployments but for
\* an abort of active ones.
Beside(dev) ==
    /\ devices'[dev].dep = devices[dev].dep
    /\ \A i \in DOMAIN docs :
         docs[i].dev = dev =>
           /\ i \in DOMAIN docs' /\ docs'[i].dev = dev /\ docs'[i].dep = docs[i].dep
           /\ docs'[i].request = docs[i].request /\ docs'[i].image = docs[i].image
           /\ \/ docs'[i].status = docs[i].status
              \/ docs[i].status \in ActiveStatuses /\ docs'[i].status = "aborted"

\* A device has at most one device deployment in a deployment.
LEMMA OneDoc ==
    ASSUME IInv, DeliveredInOrder, NEW dev, NEW d, NEW i \in DocsOf(dev, d),
           NEW j \in DocsOf(dev, d)
    PROVE  i = j
<1>1. i \in Nat /\ j \in Nat /\ docs[i].dep = d /\ docs[j].dep = d /\ d \in Nat
  <2>1. i \in DOMAIN docs /\ j \in DOMAIN docs /\ docs[i].dep = d /\ docs[j].dep = d
    BY DEF DocsOf
  <2>2. DOMAIN docs = 1..Len(docs) /\ Len(docs) \in Nat
    BY DEF IInv, TypeOK
  <2>3. docs[i].dep \in Deployments
    BY <2>1, DocTyped DEF IInv
  <2> QED BY <2>1, <2>2, <2>3, NumDeploymentsAssumption DEF Deployments
<1>2. CASE i < j
  BY <1>1, <1>2 DEF DeliveredInOrder, DocsOf
<1>3. CASE j < i
  BY <1>1, <1>3 DEF DeliveredInOrder, DocsOf
<1> QED BY <1>1, <1>2, <1>3

\* What holds of a device deployment stays true beside a step.
LEMMA DocBeside ==
    ASSUME NEW dev, Beside(dev), NEW d, NEW i \in DocsOf(dev, d)
    PROVE  /\ i \in DocsOf(dev, d)'
           /\ Fits(i) => Fits(i)'
           /\ Given(i) => Given(i)'
           /\ docs[i].status \in OpenStatuses => docs'[i].status \in OpenStatuses
           /\ docs'[i].request = docs[i].request /\ docs'[i].image = docs[i].image
           /\ \A c \in ActiveStatuses :
                docs[i].status \in {c, "aborted"} => docs'[i].status \in {c, "aborted"}
<1>1. /\ i \in DOMAIN docs /\ docs[i].dev = dev /\ docs[i].dep = d
      /\ i \in DOMAIN docs' /\ docs'[i].dev = dev /\ docs'[i].dep = docs[i].dep
      /\ docs'[i].request = docs[i].request /\ docs'[i].image = docs[i].image
      /\ \/ docs'[i].status = docs[i].status
         \/ docs[i].status \in ActiveStatuses /\ docs'[i].status = "aborted"
  BY DEF Beside, DocsOf
<1>2. i \in DocsOf(dev, d)'
  BY <1>1 DEF DocsOf
<1>3. Fits(i) => Fits(i)'
  BY <1>1 DEF Fits
<1>4. docs[i].status \in OpenStatuses => docs'[i].status \in OpenStatuses
  BY <1>1 DEF OpenStatuses
<1>5. \A c \in ActiveStatuses :
        docs[i].status \in {c, "aborted"} => docs'[i].status \in {c, "aborted"}
  BY <1>1 DEF ActiveStatuses
<1>6. Given(i) => Given(i)'
  BY <1>1, <1>3 DEF Given
<1> QED BY <1>1, <1>2, <1>3, <1>4, <1>5, <1>6

\* So does what a request has made sure of.
LEMMA SureBeside ==
    ASSUME NEW job, Sure(job), Beside(job.dev)
    PROVE  Sure(job)'
<1>1. PICK dev, d, n : dev = job.dev /\ d = job.dep /\ n = job.doc
  OBVIOUS
<1>2. devices'[dev].dep = devices[dev].dep
  BY <1>1 DEF Beside
<1>3. \A i : Fresh(job, i) => Fresh(job, i)'
  <2> SUFFICES ASSUME NEW i, Fresh(job, i) PROVE Fresh(job, i)'
    OBVIOUS
  <2>1. i \in DocsOf(dev, d) /\ job.cur \in ActiveStatuses /\ docs[i].status \in {job.cur, "aborted"}
    BY <1>1 DEF Fresh
  <2>2. i \in DocsOf(dev, d)' /\ docs'[i].status \in {job.cur, "aborted"}
    BY <1>1, <2>1, DocBeside
  <2> QED BY <1>1, <2>1, <2>2 DEF Fresh
<1>4. ASSUME job.pc \in {"inc_count", "save_request", "instructions"}
      PROVE  /\ Fresh(job, n)'
             /\ docs'[n].image = job.image
             /\ docs'[n].request = IF job.pc = "instructions" THEN job.req ELSE job.cur_req
             /\ devices'[dev].dep = d =>
                  job.cur_req # NoRequest /\ (job.cur = "pending" => Fits(n)')
  <2>1. /\ Fresh(job, n) /\ docs[n].image = job.image
        /\ docs[n].request = IF job.pc = "instructions" THEN job.req ELSE job.cur_req
        /\ devices[dev].dep = d =>
             job.cur_req # NoRequest /\ (job.cur = "pending" => Fits(n))
    BY <1>1, <1>4 DEF Sure
  <2>2. n \in DocsOf(dev, d)
    BY <1>1, <2>1 DEF Fresh
  <2>3. docs'[n].image = docs[n].image /\ docs'[n].request = docs[n].request
          /\ (Fits(n) => Fits(n)')
    BY <1>1, <2>2, DocBeside
  <2> QED BY <1>2, <1>3, <2>1, <2>3
<1>5. ASSUME job.pc = "inc_size" \/ (job.pc = "respond" /\ job.answer = "offer")
      PROVE  \E i \in DocsOf(dev, d)' : Given(i)' /\ docs'[i].status \in OpenStatuses
  <2>1. PICK i \in DocsOf(dev, d) : Given(i) /\ docs[i].status \in OpenStatuses
    BY <1>1, <1>5 DEF Sure
  <2>2. i \in DocsOf(dev, d)' /\ Given(i)' /\ docs'[i].status \in OpenStatuses
    BY <1>1, <2>1, DocBeside
  <2> QED BY <2>2
<1>6. ASSUME job.pc = "update_status"
      PROVE  \E i \in DOMAIN docs' : Fresh(job, i)'
  <2>1. PICK i : Fresh(job, i)
    BY <1>6 DEF Sure
  <2>2. Fresh(job, i)' /\ i \in DOMAIN docs'
    BY <1>3, <2>1 DEF Fresh, DocsOf
  <2> QED BY <2>2
<1>7. /\ job.dev \in Devices
      /\ job.kind = "poll" /\ job.pc \in ReadPCs => job.req \in Requests
      /\ job.pc \in {"find_deployment", "inc_stats"} => job.old \in OpenStatuses
      /\ job.kind = "poll" /\ job.pc \in AfterPCs \union {"update_status"} =>
           job.new = "failure" \/ devices'[dev].dep # d
      /\ job.kind = "report" =>
           /\ devices'[dev].dep = d
           /\ job.pc \in {"get_dd", "update_status"} => job.new \in ReportStatuses
  BY <1>1, <1>2 DEF Sure
<1> HIDE DEF Fresh, Fits, Given
<1>8. DocsOf(job.dev, job.dep)' = DocsOf(dev, d)'
  BY <1>1 DEF DocsOf
<1> QED BY <1>1, <1>4, <1>5, <1>6, <1>7, <1>8 DEF Sure

\* And what a device carries out, while its requests stay or go on to close it.
LEMMA CarryBeside ==
    ASSUME NEW dev, Carrying(dev), Beside(dev),
           \A w \in Workers : \A d :
             workers[w].kind \in DeviceKinds /\ workers[w].dev = dev /\ Closes(workers[w], d) =>
               workers'[w].kind \in DeviceKinds /\ workers'[w].dev = dev /\ Closes(workers[w], d)'
    PROVE  Carrying(dev)'
<1>1. PICK d : d = devices[dev].dep
  OBVIOUS
<1>2. devices'[dev].dep = d
  BY <1>1 DEF Beside
<1>3. ASSUME d # 0
      PROVE  \E i \in DocsOf(dev, d)' :
               Given(i)' /\ (docs'[i].status \in OpenStatuses \/ Closing(dev, d)')
  <2>1. PICK i \in DocsOf(dev, d) : Given(i) /\ (docs[i].status \in OpenStatuses \/ Closing(dev, d))
    BY <1>1, <1>3 DEF Carrying
  <2>2. Closing(dev, d) => Closing(dev, d)'
    BY DEF Closing
  <2> QED BY <2>1, <2>2, DocBeside
<1>4. DocsOf(dev, devices[dev].dep)' = DocsOf(dev, d)'
  BY <1>2 DEF DocsOf
<1>5. Closing(dev, devices[dev].dep)' = Closing(dev, d)'
  BY <1>2 DEF Closing, Closes
<1> QED BY <1>2, <1>3, <1>4, <1>5 DEF Carrying

\* A step that leaves the other devices alone, and what it says of its own, keeps all of
\* this true.
LEMMA HonestGoes ==
    ASSUME IInv, Honest, Alone, NEW w \in Workers, NEW next, Continue(w, next),
           next.kind \in DeviceKinds => Sure(next)',
           \A dev \in Devices :
             IF workers[w].kind \in DeviceKinds /\ dev = workers[w].dev
             THEN Carrying(dev)' ELSE Beside(dev)
    PROVE  Honest'
<1>1. workers'[w] = next /\ \A v \in Workers \ {w} : workers'[v] = workers[v]
  BY OthersStay
<1>2. ASSUME NEW v \in Workers, workers'[v].kind \in DeviceKinds
      PROVE  Sure(workers[v])'
  <2>1. PICK job : workers'[v] = job
    OBVIOUS
  <2>2. Sure(job)'
    <3>1. CASE v = w
      BY <1>1, <1>2, <2>1, <3>1
    <3>2. CASE v # w
      <4>1. job = workers[v] /\ job.kind \in DeviceKinds
        BY <1>1, <1>2, <2>1, <3>2
      <4>2. Sure(job)
        BY <4>1 DEF Honest
      <4>3. workers[w].kind \in DeviceKinds => job.dev # workers[w].dev
        BY <3>2, <4>1 DEF Alone
      <4>4. Beside(job.dev)
        BY <4>2, <4>3 DEF Sure
      <4> QED BY <4>2, <4>4, SureBeside
    <3> QED BY <3>1, <3>2
  <2> QED BY <2>1, <2>2 DEF Sure, Fresh, Given, Fits, DocsOf
<1>3. ASSUME NEW dev \in Devices
      PROVE  Carrying(dev)'
  <2>1. CASE workers[w].kind \in DeviceKinds /\ dev = workers[w].dev
    BY <1>3, <2>1
  <2>2. CASE workers[w].kind \in DeviceKinds => dev # workers[w].dev
    <3>1. Beside(dev) /\ Carrying(dev)
      BY <1>3, <2>2 DEF Honest
    <3>2. ASSUME NEW v \in Workers, NEW d, workers[v].kind \in DeviceKinds,
                 workers[v].dev = dev, Closes(workers[v], d)
          PROVE  workers'[v].kind \in DeviceKinds /\ workers'[v].dev = dev /\ Closes(workers[v], d)'
      <4>1. v # w
        BY <2>2, <3>2
      <4>2. workers'[v] = workers[v]
        BY <1>1, <4>1
      <4> QED BY <3>2, <4>2 DEF Closes
    <3> QED BY <3>1, <3>2, CarryBeside
  <2> QED BY <2>1, <2>2
<1> QED BY <1>2, <1>3 DEF Honest

\* A step that only reads, of a request that knows what it must at its next operation.
LEMMA QuietGoes ==
    ASSUME IInv, Honest, Alone, NEW w \in Workers, NEW next, Continue(w, next),
           UNCHANGED <<docs, devices>>, workers[w].kind \in DeviceKinds,
           next.kind = workers[w].kind, next.dev = workers[w].dev, Sure(next),
           \A d : Closes(workers[w], d) => Closes(next, d)
    PROVE  Honest'
<1>1. workers'[w] = next /\ \A v \in Workers \ {w} : workers'[v] = workers[v]
  BY OthersStay
<1>2. \A dev : Beside(dev)
  BY DEF Beside
<1>3. Sure(next)'
  BY <1>2, SureBeside
<1>4. ASSUME NEW dev \in Devices, dev = workers[w].dev
      PROVE  Carrying(dev)'
  <2>2. Carrying(dev)
    BY <1>4 DEF Honest
  <2>3. ASSUME NEW v \in Workers, NEW d, workers[v].kind \in DeviceKinds,
               workers[v].dev = dev, Closes(workers[v], d)
        PROVE  workers'[v].kind \in DeviceKinds /\ workers'[v].dev = dev /\ Closes(workers[v], d)'
    <3>1. CASE v = w
      <4>1. Closes(next, d) /\ workers'[v] = next
        BY <1>1, <2>3, <3>1
      <4> QED BY <1>4, <4>1 DEF Closes
    <3>2. CASE v # w
      BY <1>1, <2>3, <3>2 DEF Closes
    <3> QED BY <3>1, <3>2
  <2> QED BY <1>2, <2>2, <2>3, CarryBeside
<1> QED BY <1>2, <1>3, <1>4, HonestGoes


\* What a request knows when the update of a status begins.
LEMMA BegunSure ==
    ASSUME NEW job, NEW st, NEW next, Begun(job, st, next), job.kind \in DeviceKinds,
           job.dev \in Devices,
           job.cur \notin {"aborted", "decommissioned"} => \E i \in DOMAIN docs : Fresh(job, i),
           job.kind = "poll" => st = "failure" \/ devices[job.dev].dep # job.dep,
           job.kind = "report" =>
             devices[job.dev].dep = job.dep /\ st = job.new /\ st \in ReportStatuses
    PROVE  Sure(next) /\ next.kind = job.kind /\ next.dev = job.dev
<1>1. Keeps(job, next)
  BY DEF Begun, Answered
<1>2. CASE next.pc = "respond" /\ next.answer # "offer"
  BY <1>1, <1>2 DEF Sure, Keeps, DeviceKinds, AfterPCs, ReadPCs
<1>3. CASE /\ next.pc = "update_status" /\ next.new = st /\ next.cur = job.cur
           /\ job.cur \notin {"aborted", "decommissioned"}
  <2>1. \E i \in DOMAIN docs : Fresh(next, i)
    BY <1>1, <1>3 DEF Fresh, Keeps
  <2> QED BY <1>1, <1>3, <2>1 DEF Sure, Keeps, DeviceKinds, AfterPCs, ReadPCs
<1> QED BY <1>1, <1>2, <1>3 DEF Begun, Answered, Keeps

\* What it knows past the counters, and that it goes on to close what it closes.
LEMMA PassedSure ==
    ASSUME NEW job, NEW next, Sure(job), job.kind \in DeviceKinds,
           Passed(job, next) \/ Over(job, next), job.pc \in AfterPCs \union {"update_status"}
    PROVE  /\ Sure(next) /\ next.kind = job.kind /\ next.dev = job.dev
           /\ \A d : Closes(job, d) => Closes(next, d)
<1>1. /\ job.dev \in Devices
      /\ job.kind = "poll" => job.new = "failure" \/ devices[job.dev].dep # job.dep
      /\ job.kind = "report" => devices[job.dev].dep = job.dep
  BY DEF Sure
<1>2. CASE Over(job, next)
  <2>1. /\ Keeps(job, next) /\ next.pc = "respond" /\ next.answer # "offer" /\ next.new = job.new
        /\ job.kind = "poll" /\ job.new = "failure" => next.answer = "conflict"
    BY <1>2 DEF Over, Answered
  <2>2. Sure(next)
    BY <1>1, <2>1 DEF Sure, Keeps, DeviceKinds, AfterPCs, ReadPCs
  <2>3. \A d : Closes(job, d) => Closes(next, d)
    BY <2>1 DEF Closes, Keeps, AfterPCs
  <2> QED BY <2>1, <2>2, <2>3 DEF Keeps
<1>3. CASE ~Active(job.new) /\ Keeps(job, next) /\ next.pc = "save_last" /\ next.new = job.new
  <2>1. Sure(next)
    BY <1>1, <1>3 DEF Sure, Keeps, DeviceKinds, AfterPCs, ReadPCs
  <2>2. \A d : Closes(job, d) => Closes(next, d)
    <3>1. job.pc # "respond"
      BY DEF AfterPCs
    <3> QED BY <1>3, <3>1 DEF Closes, Keeps, AfterPCs
  <2> QED BY <1>3, <2>1, <2>2 DEF Keeps
<1> QED BY <1>2, <1>3 DEF Passed

\* The reads of a poll before it holds a device deployment keep all of this true.
LEMMA SearchHonest ==
    ASSUME AInv, Orderly, Honest, NEW w \in Workers, workers[w].kind = "poll",
           \/ FindActive(w) \/ FindInactive(w) \/ FindNewer(w) \/ FindExisting(w)
    PROVE  Honest'
<1> DEFINE job == workers[w]
<1>1. IInv /\ Alone /\ DeliveredInOrder /\ Sure(job)
  BY DEF AInv, Orderly, Honest, DeviceKinds
<1>2. /\ UNCHANGED <<docs, devices>> /\ job.dev \in Devices /\ job.req \in Requests
      /\ job.pc \in {"find_active", "find_inactive", "find_newer", "find_existing"}
  BY <1>1 DEF FindActive, FindInactive, FindNewer, FindExisting, ReadOnly, Unchanged, At, Sure,
     ReadPCs
<1>3. \A d : ~Closes(job, d)
  BY <1>2 DEF Closes, AfterPCs
<1>4. ASSUME NEW next, Continue(w, next), Sure(next), next.kind = "poll", next.dev = job.dev
      PROVE  Honest'
  BY <1>1, <1>2, <1>3, <1>4, QuietGoes DEF DeviceKinds
<1>5. ASSUME NEW next, next.kind = "poll", next.dev = job.dev,
             \/ next.pc \in {"find_inactive", "find_newer", "find_existing", "insert"}
                  /\ next.req = job.req
             \/ next.pc = "respond" /\ next.answer = "none"
      PROVE  Sure(next)
  BY <1>2, <1>5 DEF Sure, AfterPCs, ReadPCs
<1>6. CASE FindActive(w)
  <2>1. PICK next : Continue(w, next) /\ FindActiveWay(job, next)
    BY <1>1, <1>6, FindActiveIs
  <2>2. CASE next.pc = "find_inactive"
    BY <1>4, <1>5, <2>1, <2>2 DEF FindActiveWay
  <2>3. ASSUME NEW i \in OldestActive(job.dev),
               next.pc = "save_request", next.dep = docs[i].dep, next.doc = i,
               next.cur = docs[i].status, next.cur_req = docs[i].request,
               next.image = docs[i].image
        PROVE  Honest'
    <3>1. i \in DOMAIN docs /\ docs[i].dev = job.dev /\ docs[i].active
      BY DEF OldestActive, DeviceDocs, NotDeleted
    <3>2. PICK dev, d : dev = job.dev /\ d = docs[i].dep
      OBVIOUS
    <3>3. next.kind = "poll" /\ next.dev = dev /\ next.dep = d /\ next.req = job.req
      BY <2>1, <2>3, <3>2 DEF FindActiveWay
    <3>4. i \in DocsOf(dev, d) /\ docs[i].status \in ActiveStatuses
      BY <3>1, <3>2 DEF DocsOf, AInv, Consistent, Active
    <3>5. Fresh(next, i)
      BY <2>3, <3>3, <3>4 DEF Fresh
    <3>6. ASSUME devices[dev].dep = d
          PROVE  Given(i)
      <4>1. d # 0
        BY <1>1, <3>1, <3>2, DocTyped, NumDeploymentsAssumption DEF IInv, Deployments
      <4>2. PICK k \in DocsOf(dev, d) : Given(k)
        BY <1>2, <3>2, <3>6, <4>1 DEF Honest, Carrying
      <4>3. k = i
        BY <1>1, <3>4, OneDoc
      <4> QED BY <4>2, <4>3
    <3>7. Sure(next)
      BY <1>2, <2>3, <3>2, <3>3, <3>5, <3>6 DEF Sure, AfterPCs, ReadPCs, Given
    <3> QED BY <1>4, <2>1, <3>2, <3>3, <3>7
  <2> QED BY <2>1, <2>2, <2>3 DEF FindActiveWay
<1>7. CASE FindInactive(w)
  <2>1. PICK next : Continue(w, next) /\ FindInactiveWay(job, next)
    BY <1>1, <1>7, FindInactiveIs
  <2> QED BY <1>4, <1>5, <2>1 DEF FindInactiveWay, Keeps
<1>8. CASE FindNewer(w)
  <2>1. PICK next : Continue(w, next) /\ FindNewerWay(job, next)
    BY <1>1, <1>8, FindNewerIs
  <2>2. next.kind = "poll" /\ next.dev = job.dev /\ Sure(next)
    BY <1>5, <2>1 DEF FindNewerWay, Answered, Keeps
  <2> QED BY <1>4, <2>1, <2>2
<1>9. CASE FindExisting(w)
  <2>1. PICK next : Continue(w, next) /\ FindExistingWay(job, next)
    BY <1>1, <1>9, FindExistingIs
  <2> QED BY <1>4, <1>5, <2>1 DEF FindExistingWay, Keeps
<1> QED BY <1>6, <1>7, <1>8, <1>9

\* So do the steps that count, those past the counters and the read of a report.
LEMMA CountHonest ==
    ASSUME AInv, Orderly, Honest, NEW w \in Workers, workers[w].kind \in DeviceKinds,
           \/ workers[w].kind = "poll" /\ (IncrementDeviceCount(w) \/ IncrementTotalSize(w))
           \/ workers[w].kind = "report" /\ GetDeviceDeployment(w)
           \/ FindDeployment(w) \/ UpdateStatsInc(w) \/ SetStatus(w) \/ SaveLastStatus(w)
    PROVE  Honest'
<1> DEFINE job == workers[w]
<1>1. IInv /\ Alone /\ DeliveredInOrder /\ Sure(job) /\ job.dev \in Devices
  BY DEF AInv, Orderly, Honest, Sure
<1>2. UNCHANGED <<docs, devices>>
  BY DEF IncrementDeviceCount, IncrementTotalSize, GetDeviceDeployment, FindDeployment,
     UpdateStatsInc, SetStatus, SaveLastStatus, ReadOnly, Unchanged
<1>3. ASSUME NEW next, Continue(w, next), Sure(next), next.kind = job.kind,
             next.dev = job.dev, \A d : Closes(job, d) => Closes(next, d)
      PROVE  Honest'
  BY <1>1, <1>2, <1>3, QuietGoes
<1>4. ASSUME NEW next, Continue(w, next), Passed(job, next) \/ Over(job, next),
             job.pc \in AfterPCs
      PROVE  Honest'
  BY <1>1, <1>3, <1>4, PassedSure
<1>5. CASE job.kind = "poll" /\ IncrementDeviceCount(w)
  <2>0. job.pc = "inc_count"
    BY <1>5 DEF IncrementDeviceCount, At
  <2>1. PICK next : /\ Continue(w, next) /\ Keeps(job, next)
                    /\ Copies(job, next) /\ next.pc = "save_request"
    BY <1>1, <1>5, CountIs
  <2>2. Fresh(job, job.doc) => Fresh(next, next.doc)
    BY <2>1 DEF Fresh, Keeps, Copies
  <2>3. Sure(next)
    BY <1>1, <1>5, <2>0, <2>1, <2>2 DEF Sure, Keeps, Copies, AfterPCs, ReadPCs
  <2>4. \A d : ~Closes(job, d)
    BY <1>5, <2>0 DEF Closes, AfterPCs
  <2> QED BY <1>3, <2>1, <2>3, <2>4 DEF Keeps
<1>6. CASE job.kind = "poll" /\ IncrementTotalSize(w)
  <2>0. job.pc = "inc_size"
    BY <1>6 DEF IncrementTotalSize, At
  <2>1. PICK next : Continue(w, next) /\ Answered(job, next, job.new, "offer")
    BY <1>1, <1>6, TotalSizeIs
  <2>2. Sure(next)
    BY <1>1, <1>6, <2>0, <2>1 DEF Sure, Answered, Keeps, AfterPCs, ReadPCs
  <2>3. \A d : ~Closes(job, d)
    BY <1>6, <2>0 DEF Closes, AfterPCs
  <2> QED BY <1>3, <2>1, <2>2, <2>3 DEF Keeps, Answered
<1>7. CASE job.kind = "report" /\ GetDeviceDeployment(w)
  <2>0. /\ job.pc = "get_dd" /\ devices[job.dev].dep = job.dep /\ job.new \in ReportStatuses
        /\ \A d : ~Closes(job, d)
    BY <1>1, <1>7 DEF GetDeviceDeployment, At, Closes, AfterPCs, Sure
  <2>1. PICK next : Continue(w, next) /\ GetWay(job, next)
    BY <1>1, <1>7, GetIs
  <2>2. CASE Answered(job, next, job.new, "refused")
    <3>1. Sure(next)
      BY <1>1, <1>7, <2>0, <2>2 DEF Sure, Answered, Keeps, AfterPCs, ReadPCs
    <3> QED BY <1>3, <2>0, <2>1, <2>2, <3>1 DEF Answered, Keeps
  <2>3. ASSUME NEW i \in NotDeleted(DocsOf(job.dev, job.dep)), NEW with \in WorkerType,
               Keeps(job, with), with.new = job.new, with.cur = docs[i].status,
               Begun(with, job.new, next)
        PROVE  Honest'
    <3>1. PICK dev, d : dev = job.dev /\ d = job.dep
      OBVIOUS
    <3>2. i \in DocsOf(dev, d) /\ i \in DOMAIN docs /\ docs[i].dep = d
      BY <3>1 DEF NotDeleted, DocsOf
    <3>3. d # 0
      BY <1>1, <3>2, DocTyped, NumDeploymentsAssumption DEF IInv, Deployments
    <3>4. PICK k \in DocsOf(dev, d) : docs[k].status \in OpenStatuses \/ Closing(dev, d)
      BY <1>1, <2>0, <3>1, <3>3 DEF Honest, Carrying
    <3>5. ~Closing(dev, d)
      <4> SUFFICES ASSUME NEW v \in Workers, workers[v].kind \in DeviceKinds,
                          workers[v].dev = dev, Closes(workers[v], d)
                   PROVE  FALSE
        BY DEF Closing
      <4>1. v = w
        BY <1>1, <3>1 DEF Alone
      <4> QED BY <2>0, <4>1
    <3>6. k = i
      BY <1>1, <3>2, OneDoc
    <3>7. docs[i].status \in OpenStatuses
      BY <3>4, <3>5, <3>6
    <3>8. with.cur \notin {"aborted", "decommissioned"} => Fresh(with, i)
      BY <2>3, <3>1, <3>2, <3>7 DEF Fresh, Keeps, OpenStatuses
    <3>9. with.kind = "report" /\ with.dev = job.dev /\ with.dep = job.dep /\ with.new = job.new
      BY <1>7, <2>3 DEF Keeps
    <3>10. Sure(next) /\ next.kind = with.kind /\ next.dev = with.dev
      BY <1>1, <2>0, <2>3, <3>2, <3>8, <3>9, BegunSure DEF DeviceKinds
    <3> QED BY <1>3, <1>7, <2>0, <2>1, <3>9, <3>10
  <2> QED BY <2>1, <2>2, <2>3 DEF GetWay
<1>8. CASE FindDeployment(w)
  <2>0. job.pc = "find_deployment"
    BY <1>8 DEF FindDeployment, At
  <2>1. PICK next : Continue(w, next) /\ FindDeploymentWay(job, next)
    BY <1>1, <1>8, FindDeploymentIs
  <2>2. Sure(next) /\ next.kind = job.kind /\ next.dev = job.dev
    BY <1>1, <2>0, <2>1 DEF Sure, FindDeploymentWay, Keeps, AfterPCs, ReadPCs
  <2>3. \A d : Closes(job, d) => Closes(next, d)
    BY <2>0, <2>1 DEF Closes, FindDeploymentWay, Keeps, AfterPCs
  <2> QED BY <1>3, <2>1, <2>2, <2>3
<1>9. CASE UpdateStatsInc(w)
  <2>0. job.pc = "inc_stats"
    BY <1>9 DEF UpdateStatsInc, At
  <2>1. PICK next : Continue(w, next) /\ IncWay(job, next)
    BY <1>1, <1>9, IncIs
  <2>2. CASE Passed(job, next)
    BY <1>4, <2>0, <2>1, <2>2 DEF AfterPCs
  <2>3. CASE Keeps(job, next) /\ next.new = job.new /\ next.pc = "set_status"
    <3>1. Sure(next) /\ next.kind = job.kind /\ next.dev = job.dev
      BY <1>1, <2>0, <2>3 DEF Sure, Keeps, AfterPCs, ReadPCs
    <3>2. \A d : Closes(job, d) => Closes(next, d)
      BY <2>0, <2>3 DEF Closes, Keeps, AfterPCs
    <3> QED BY <1>3, <2>1, <3>1, <3>2
  <2> QED BY <2>1, <2>2, <2>3 DEF IncWay
<1>10. CASE SetStatus(w)
  <2>1. PICK next : Continue(w, next) /\ Passed(job, next)
    BY <1>1, <1>10, SetStatusIs
  <2> QED BY <1>4, <1>10, <2>1 DEF SetStatus, At, AfterPCs
<1>11. CASE SaveLastStatus(w)
  <2>1. PICK next : Continue(w, next) /\ Over(job, next)
    BY <1>1, <1>11, SaveLastIs
  <2> QED BY <1>4, <1>11, <2>1 DEF SaveLastStatus, At, AfterPCs
<1> QED BY <1>5, <1>6, <1>7, <1>8, <1>9, <1>10, <1>11

\* A step that writes a device deployment of its own device, and of no other.
LEMMA OwnGoes ==
    ASSUME IInv, Honest, Alone, NEW w \in Workers, NEW next, Continue(w, next),
           workers[w].kind \in DeviceKinds, UNCHANGED devices, Sure(next)',
           \A dev \in Devices : dev = workers[w].dev => Carrying(dev)',
           \A i \in DOMAIN docs :
             /\ i \in DOMAIN docs'
             /\ docs[i].dev = workers[w].dev \/ docs'[i] = docs[i]
    PROVE  Honest'
<1>1. \A dev \in Devices : dev # workers[w].dev => Beside(dev)
  BY DEF Beside
<1> QED BY <1>1, HonestGoes

\* What a device carries out stays open while its request closes nothing.
LEMMA CarryOn ==
    ASSUME IInv, Honest, NEW w \in Workers, NEW next, Continue(w, next),
           NEW dev \in Devices, \A d : ~Closes(workers[w], d), UNCHANGED devices,
           \A k \in DocsOf(dev, devices[dev].dep) : Given(k) =>
             /\ k \in DOMAIN docs' /\ docs'[k].dev = dev /\ docs'[k].dep = docs[k].dep
             /\ Given(k)' /\ docs'[k].status = docs[k].status
    PROVE  Carrying(dev)'
<1>1. PICK d : d = devices[dev].dep /\ devices'[dev].dep = d
  OBVIOUS
<1>2. ASSUME d # 0
      PROVE  \E k \in DocsOf(dev, d)' :
               Given(k)' /\ (docs'[k].status \in OpenStatuses \/ Closing(dev, d)')
  <2>1. PICK k \in DocsOf(dev, d) : Given(k) /\ (docs[k].status \in OpenStatuses \/ Closing(dev, d))
    BY <1>1, <1>2 DEF Honest, Carrying
  <2>2. Closing(dev, d) => Closing(dev, d)'
    <3>1. \A v \in Workers : Closes(workers[v], d) => workers'[v] = workers[v]
      BY OthersStay
    <3> QED BY <3>1 DEF Closing, Closes
  <2>3. k \in DocsOf(dev, d)' /\ Given(k)' /\ docs'[k].status = docs[k].status
    BY <1>1, <2>1 DEF DocsOf
  <2> QED BY <2>1, <2>2, <2>3
<1>3. DocsOf(dev, devices[dev].dep)' = DocsOf(dev, d)'
  BY <1>1 DEF DocsOf
<1>4. Closing(dev, devices[dev].dep)' = Closing(dev, d)'
  BY <1>1 DEF Closing, Closes
<1> QED BY <1>1, <1>2, <1>3, <1>4 DEF Carrying

\* Inserting the device deployment of a new deployment keeps all of this true.
LEMMA InsertHonest ==
    ASSUME AInv, Orderly, Honest, NEW w \in Workers, workers[w].kind = "poll",
           InsertDeviceDeployment(w)
    PROVE  Honest'
<1> DEFINE job == workers[w]
           doc == NewDoc(job)
           n == Len(docs) + 1
<1>1. IInv /\ Alone /\ Sure(job) /\ job.dev \in Devices /\ job.kind \in DeviceKinds
  BY DEF AInv, Orderly, Honest, Sure, DeviceKinds
<1>2. UNCHANGED devices /\ job.pc = "insert" /\ job.req \in Requests /\ job.dep \in Deployments
  BY <1>1, JobFacts DEF InsertDeviceDeployment, Unchanged, At, Sure, ReadPCs, JobOK
<1>3. PICK next : Continue(w, next) /\ InsertWay(job, next)
  BY <1>1, InsertIs
<1>4. PICK dev, d : dev = job.dev /\ d = job.dep
  OBVIOUS
<1>5. /\ doc.dev = dev /\ doc.dep = d /\ doc.status = "pending"
      /\ doc.request = NoRequest /\ doc.image = FALSE
  BY <1>4 DEF NewDoc
<1>6. docs' = Append(docs, doc)
  BY <1>1, InsertIs
<1> HIDE DEF doc
<1>7. /\ n \in DOMAIN docs' /\ docs'[n] = doc
      /\ \A i \in DOMAIN docs : i \in DOMAIN docs' /\ docs'[i] = docs[i]
  <2>1. docs \in Seq(DocType)
    BY <1>1 DEF IInv, TypeOK
  <2> QED BY <1>6, <2>1
<1> HIDE DEF n
<1>8. next.kind = "poll" /\ next.dev = dev /\ next.dep = d /\ next.req = job.req
        /\ next.doc = n /\ next.cur = "pending" /\ next.cur_req = NoRequest /\ next.image = FALSE
        /\ next.pc \in {"inc_count", "save_request"}
  BY <1>3, <1>4 DEF InsertWay, Keeps, n
<1>9. devices[dev].dep # d
  <2>1. OverUpTo(dev, d - 1)
    BY <1>2, <1>4 DEF Orderly, Searching
  <2>2. DocsOf(dev, d) = {}
    BY <1>2, <1>4, <2>1, NumDeploymentsAssumption DEF DocsOf, OverUpTo, Deployments
  <2>3. d # 0
    BY <1>2, <1>4, NumDeploymentsAssumption DEF Deployments
  <2> QED BY <1>1, <1>4, <2>2, <2>3 DEF Honest, Carrying
<1>10. Sure(next)'
  <2>1. n \in DocsOf(dev, d)'
    BY <1>5, <1>7 DEF DocsOf
  <2>2. docs'[n].status = "pending" /\ docs'[n].request = NoRequest /\ docs'[n].image = FALSE
    BY <1>5, <1>7
  <2>3. Fresh(next, next.doc)'
    BY <1>8, <2>1, <2>2 DEF Fresh, ActiveStatuses, DocsOf
  <2>4. devices'[next.dev].dep # next.dep
    BY <1>2, <1>8, <1>9
  <2>5. next.dev \in Devices /\ next.req \in Requests /\ docs'[next.doc].image = next.image
          /\ docs'[next.doc].request = next.cur_req
    BY <1>1, <1>2, <1>4, <1>8, <2>2
  <2> QED BY <1>8, <2>3, <2>4, <2>5 DEF Sure, AfterPCs
<1>11. Carrying(dev)'
  <2>1. \A e : ~Closes(job, e)
    BY <1>2 DEF Closes, AfterPCs
  <2>2. \A k \in DocsOf(dev, devices[dev].dep) :
          /\ k \in DOMAIN docs' /\ docs'[k].dev = dev /\ docs'[k] = docs[k]
    BY <1>7 DEF DocsOf
  <2>3. \A k \in DocsOf(dev, devices[dev].dep) : Given(k) => Given(k)'
    BY <2>2 DEF Given, Fits
  <2> QED BY <1>1, <1>2, <1>3, <1>4, <2>1, <2>2, <2>3, CarryOn
<1> QED BY <1>1, <1>2, <1>3, <1>4, <1>7, <1>10, <1>11, OwnGoes

\* Storing the request of a device, or failing a device deployment another request has
\* been stored for.
LEMMA SaveRequestHonest ==
    ASSUME AInv, Orderly, Honest, NEW w \in Workers, workers[w].kind = "poll", SaveRequest(w)
    PROVE  Honest'
<1> DEFINE job == workers[w]
<1>1. IInv /\ Alone /\ Sure(job) /\ job.dev \in Devices /\ job.kind \in DeviceKinds
  BY DEF AInv, Orderly, Honest, Sure, DeviceKinds
<1>2. UNCHANGED devices /\ job.pc = "save_request" /\ job.req \in Requests
  BY <1>1 DEF SaveRequest, Unchanged, At, Sure, ReadPCs
<1>3. PICK next : Continue(w, next) /\ SaveRequestWay(job, next)
  BY <1>1, SaveRequestIs
<1>4. PICK dev, d, i : dev = job.dev /\ d = job.dep /\ i = job.doc
  OBVIOUS
<1>5. /\ Fresh(job, i) /\ docs[i].image = job.image /\ docs[i].request = job.cur_req
      /\ devices[dev].dep = d => job.cur_req # NoRequest /\ (job.cur = "pending" => Fits(i))
  BY <1>1, <1>2, <1>4 DEF Sure
<1>6. i \in DocsOf(dev, d) /\ i \in DOMAIN docs /\ docs[i].dev = dev /\ docs[i].dep = d
  BY <1>4, <1>5 DEF Fresh, DocsOf
<1>7. docs' = IF job.cur_req = NoRequest THEN [docs EXCEPT ![i].request = job.req] ELSE docs
  BY <1>1, <1>4, SaveRequestIs
<1>8. \A e : ~Closes(job, e)
  BY <1>2 DEF Closes, AfterPCs
<1>9. CASE job.cur_req = NoRequest
  <2>1. /\ Keeps(job, next) /\ Copies(job, next) /\ next.pc = "instructions"
    BY <1>3, <1>9 DEF SaveRequestWay
  <2>2. /\ DOMAIN docs' = DOMAIN docs
        /\ docs'[i].request = job.req /\ docs'[i].image = docs[i].image
        /\ docs'[i].status = docs[i].status /\ docs'[i].dev = dev /\ docs'[i].dep = d
        /\ \A k \in DOMAIN docs : k # i => docs'[k] = docs[k]
    <3>1. docs[i] \in DocType /\ docs \in Seq(DocType)
      BY <1>1, <1>6, DocTyped DEF IInv, TypeOK
    <3> QED BY <1>6, <1>7, <1>9, <3>1 DEF DocType
  <2>3. devices[dev].dep # d
    BY <1>5, <1>9
  <2>4. Sure(next)'
    <3>1. next.kind = "poll" /\ next.dev = dev /\ next.dep = d /\ next.doc = i
            /\ next.cur = job.cur /\ next.image = job.image /\ next.req = job.req
      BY <1>4, <2>1 DEF Keeps, Copies
    <3>2. i \in DocsOf(dev, d)' /\ docs'[i].status \in {job.cur, "aborted"}
            /\ job.cur \in ActiveStatuses
      BY <1>5, <1>6, <2>2 DEF DocsOf, Fresh
    <3>3. Fresh(next, next.doc)'
      BY <3>1, <3>2 DEF Fresh, DocsOf
    <3>4. /\ docs'[next.doc].image = next.image /\ docs'[next.doc].request = next.req
          /\ devices'[next.dev].dep # next.dep
          /\ next.dev \in Devices /\ next.req \in Requests
      BY <1>1, <1>2, <1>4, <1>5, <2>2, <2>3, <3>1
    <3> QED BY <2>1, <3>1, <3>3, <3>4 DEF Sure, AfterPCs
  <2>5. Carrying(dev)'
    <3>1. \A k \in DocsOf(dev, devices[dev].dep) :
            k \in DOMAIN docs' /\ docs'[k].dev = dev /\ docs'[k] = docs[k]
      BY <1>6, <2>2, <2>3 DEF DocsOf
    <3>2. \A k \in DocsOf(dev, devices[dev].dep) : Given(k) => Given(k)'
      BY <3>1 DEF Given, Fits
    <3> QED BY <1>1, <1>2, <1>3, <1>4, <1>8, <3>1, <3>2, CarryOn
  <2> QED BY <1>1, <1>2, <1>3, <1>4, <1>6, <2>2, <2>4, <2>5, OwnGoes
<1>10. CASE job.cur_req # NoRequest
  <2>1. UNCHANGED docs
    BY <1>7, <1>10
  <2>2. CASE job.cur_req = job.req /\ Keeps(job, next) /\ Copies(job, next)
               /\ next.pc = "instructions"
    <3>1. next.kind = "poll" /\ next.dev = dev /\ next.dep = d /\ next.doc = i
            /\ next.cur = job.cur /\ next.image = job.image /\ next.req = job.req
            /\ next.cur_req = job.cur_req
      BY <1>4, <2>2 DEF Keeps, Copies
    <3>2. Fresh(next, i)
      BY <1>4, <1>5, <3>1 DEF Fresh
    <3>3. Sure(next)
      BY <1>1, <1>2, <1>4, <1>5, <2>2, <3>1, <3>2 DEF Sure, AfterPCs
    <3> QED BY <1>1, <1>2, <1>3, <1>4, <1>8, <2>1, <3>1, <3>3, QuietGoes
  <2>3. CASE Begun(job, "failure", next)
    <3>1. Sure(next) /\ next.kind = job.kind /\ next.dev = job.dev
      BY <1>1, <1>5, <1>6, <2>3, BegunSure
    <3> QED BY <1>1, <1>2, <1>3, <1>8, <2>1, <3>1, QuietGoes
  <2> QED BY <1>3, <1>10, <2>2, <2>3 DEF SaveRequestWay
<1> QED BY <1>9, <1>10

\* What the instructions make of what a poll has made sure of.
LEMMA InstructSure ==
    ASSUME NEW job, job.kind = "poll", job.pc = "instructions", Sure(job),
           job.dep \notin Configuration,
           NEW next, InstructedBy(job, FALSE, next) \/ InstructedBy(job, TRUE, next)
    PROVE  /\ next.kind = "poll" /\ next.dev = job.dev /\ next.dep = job.dep
           /\ \/ Sure(next) /\ next.pc \in {"respond", "update_status"}
                   /\ (next.pc = "respond" => next.answer # "offer")
              \/ /\ next.pc = "inc_size" \/ (next.pc = "respond" /\ next.answer = "offer")
                 /\ docs[job.doc].request # NoRequest
                 /\ docs[job.doc].status = "pending" => Fits(job.doc)
                 /\ docs[job.doc].status \in OpenStatuses
<1>1. /\ Fresh(job, job.doc) /\ docs[job.doc].request = job.req
      /\ devices[job.dev].dep = job.dep => (job.cur = "pending" => Fits(job.doc))
      /\ job.req \in Requests /\ job.dev \in Devices
  BY DEF Sure, ReadPCs
<1>2. job.doc \in DOMAIN docs /\ docs[job.doc].dep = job.dep
  BY <1>1 DEF Fresh, DocsOf
<1>3. CASE /\ job.dep \notin Forced /\ <<job.dep, job.req>> \in Installed /\ job.cur = "pending"
           /\ Begun(job, "already-installed", next)
  <2>1. ~Fits(job.doc)
    BY <1>1, <1>2, <1>3 DEF Fits
  <2>2. devices[job.dev].dep # job.dep
    BY <1>1, <1>3, <2>1
  <2>3. Sure(next) /\ next.kind = job.kind /\ next.dev = job.dev
    BY <1>1, <1>2, <1>3, <2>2, BegunSure DEF DeviceKinds
  <2> QED BY <1>3, <2>3 DEF Begun, Answered, Keeps
<1>4. CASE /\ ~(job.dep \notin Forced /\ <<job.dep, job.req>> \in Installed /\ job.cur = "pending")
           /\ \/ Keeps(job, next) /\ next.pc = "inc_size" /\ next.new = job.new
                 /\ next.req = job.req
              \/ Answered(job, next, job.new, "offer")
  <2>1. docs[job.doc].status \in OpenStatuses
    BY <1>1 DEF Fresh, OpenStatuses
  <2>2. docs[job.doc].status = "pending" => Fits(job.doc)
    BY <1>1, <1>2, <1>4 DEF Fresh, Fits
  <2>3. docs[job.doc].request # NoRequest
    BY <1>1, RequestsAssumption
  <2> QED BY <1>4, <2>1, <2>2, <2>3 DEF Answered, Keeps
<1> QED BY <1>3, <1>4 DEF InstructedBy

\* The instructions for a device: what it is offered is settled, and what it carries out
\* is not failed by them.
LEMMA InstructionsHonest ==
    ASSUME AInv, Orderly, Honest, NEW w \in Workers, workers[w].kind = "poll", Instructions(w)
    PROVE  Honest'
<1> DEFINE job == workers[w]
<1>1. IInv /\ Alone /\ DeliveredInOrder /\ Sure(job) /\ job.dev \in Devices
        /\ job.kind \in DeviceKinds
  BY DEF AInv, Orderly, Honest, Sure, DeviceKinds
<1>2. UNCHANGED devices /\ job.pc = "instructions" /\ job.req \in Requests
  BY <1>1 DEF Instructions, Unchanged, At, Sure, ReadPCs
<1>3. PICK next : /\ Continue(w, next)
                  /\ \/ UNCHANGED docs /\ InstructionsWay(job, next)
                     \/ Assigning(job, next)
  BY <1>1, InstructionsIs
<1>4. PICK dev, d, i : dev = job.dev /\ d = job.dep /\ i = job.doc
  OBVIOUS
<1>5. /\ Fresh(job, i) /\ docs[i].image = job.image /\ docs[i].request = job.req
  BY <1>1, <1>2, <1>4 DEF Sure
<1>6. /\ i \in DocsOf(dev, d) /\ i \in DOMAIN docs /\ docs[i].dev = dev /\ docs[i].dep = d
      /\ docs[i].status \in OpenStatuses /\ docs[i].request # NoRequest
  BY <1>2, <1>4, <1>5, RequestsAssumption DEF Fresh, DocsOf, OpenStatuses
<1>7. \A e : ~Closes(job, e)
  BY <1>2 DEF Closes, AfterPCs
<1>8. ASSUME NEW k, k \in DocsOf(dev, d) PROVE k = i
  BY <1>1, <1>6, <1>8, OneDoc
<1>9. ASSUME UNCHANGED docs, Sure(next), next.kind = "poll", next.dev = dev
      PROVE  Honest'
  BY <1>1, <1>2, <1>3, <1>4, <1>7, <1>9, QuietGoes
<1>10. ASSUME next.kind = "poll", next.dev = dev, next.dep = d, Given(i),
              next.pc = "inc_size" \/ (next.pc = "respond" /\ next.answer = "offer")
       PROVE  Sure(next)
  BY <1>1, <1>4, <1>6, <1>10 DEF Sure, AfterPCs, ReadPCs
<1>11. CASE UNCHANGED docs /\ d \in Configuration /\ Answered(job, next, job.new, "offer")
  <2>1. Given(i)
    BY <1>6, <1>11 DEF Given, Fits
  <2>2. next.kind = "poll" /\ next.dev = dev /\ next.dep = d
    BY <1>4, <1>11 DEF Answered, Keeps
  <2> QED BY <1>9, <1>10, <1>11, <2>1, <2>2 DEF Answered
<1>12. CASE /\ UNCHANGED docs /\ d \notin Configuration /\ job.image
            /\ InstructedBy(job, FALSE, next)
  <2>1. /\ next.kind = "poll" /\ next.dev = dev /\ next.dep = d
        /\ \/ Sure(next)
           \/ /\ next.pc = "inc_size" \/ (next.pc = "respond" /\ next.answer = "offer")
              /\ docs[i].status = "pending" => Fits(i)
    <3>1. /\ job.kind = "poll" /\ job.pc = "instructions" /\ Sure(job)
          /\ job.dep \notin Configuration /\ InstructedBy(job, FALSE, next)
      BY <1>1, <1>2, <1>4, <1>12
    <3> HIDE DEF job
    <3>2. /\ next.kind = "poll" /\ next.dev = job.dev /\ next.dep = job.dep
          /\ \/ Sure(next)
             \/ /\ next.pc = "inc_size" \/ (next.pc = "respond" /\ next.answer = "offer")
                /\ docs[job.doc].status = "pending" => Fits(job.doc)
      BY <3>1, InstructSure
    <3> QED BY <1>4, <3>2
  <2>2. (docs[i].status = "pending" => Fits(i)) => Given(i)
    BY <1>5, <1>6, <1>12 DEF Given
  <2> QED BY <1>9, <1>10, <1>12, <2>1, <2>2
<1>13. CASE /\ UNCHANGED docs /\ d \notin Configuration /\ ~job.image
            /\ Begun(job, "noartifact", next)
  <2>1. devices[dev].dep # d
    <3> SUFFICES ASSUME devices[dev].dep = d PROVE FALSE
      OBVIOUS
    <3>1. d # 0
      BY <1>1, <1>6, DocTyped, NumDeploymentsAssumption DEF IInv, Deployments
    <3>2. PICK k \in DocsOf(dev, d) : Given(k)
      BY <1>1, <1>4, <3>1 DEF Honest, Carrying
    <3>3. k = i
      BY <1>8
    <3> QED BY <1>5, <1>6, <1>13, <3>2, <3>3 DEF Given
  <2>2. Sure(next) /\ next.kind = job.kind /\ next.dev = job.dev
    BY <1>1, <1>4, <1>5, <1>6, <1>13, <2>1, BegunSure DEF DeviceKinds
  <2> QED BY <1>4, <1>9, <1>13, <2>2
<1>14. CASE UNCHANGED docs /\ Answered(job, next, job.new, "refused")
  <2>1. Sure(next) /\ next.kind = "poll" /\ next.dev = dev
    BY <1>1, <1>4, <1>14 DEF Answered, Keeps, Sure, AfterPCs, ReadPCs
  <2> QED BY <1>9, <1>14, <2>1
<1>15. CASE Assigning(job, next)
  <2>1. d \notin Configuration /\ InstructedBy(job, TRUE, next)
    BY <1>4, <1>15 DEF Assigning
  <2>2. docs' = [docs EXCEPT ![i].image = TRUE]
    <3>1. PICK k \in NotDeleted(DocsOf(dev, d)) : docs' = [docs EXCEPT ![k].image = TRUE]
      BY <1>4, <1>15 DEF Assigning
    <3>2. k = i
      BY <1>8 DEF NotDeleted
    <3> QED BY <3>1, <3>2
  <2>3. /\ DOMAIN docs' = DOMAIN docs
        /\ docs'[i].request = docs[i].request /\ docs'[i].image = TRUE
        /\ docs'[i].status = docs[i].status /\ docs'[i].dev = dev /\ docs'[i].dep = d
        /\ \A k \in DOMAIN docs : k # i => docs'[k] = docs[k]
    <3>1. docs[i] \in DocType /\ docs \in Seq(DocType)
      BY <1>1, <1>6, DocTyped DEF IInv, TypeOK
    <3> QED BY <1>6, <2>2, <3>1 DEF DocType
  <2>4. i \in DocsOf(dev, d)'
    BY <1>6, <2>3 DEF DocsOf
  <2>5. Fits(i) => Fits(i)'
    BY <1>6, <2>3 DEF Fits
  <2>6. \A k \in DocsOf(dev, devices[dev].dep) :
          /\ k \in DOMAIN docs' /\ docs'[k].dev = dev /\ docs'[k].dep = docs[k].dep
          /\ docs'[k].status = docs[k].status
    BY <1>6, <2>3 DEF DocsOf
  <2>7. \A k \in DocsOf(dev, devices[dev].dep) : Given(k) => Given(k)'
    <3> SUFFICES ASSUME NEW k \in DocsOf(dev, devices[dev].dep), Given(k) PROVE Given(k)'
      OBVIOUS
    <3>1. CASE k = i
      BY <1>6, <2>3, <2>5, <3>1 DEF Given
    <3>2. CASE k # i
      <4>1. docs'[k] = docs[k]
        BY <2>3, <3>2 DEF DocsOf
      <4> QED BY <4>1 DEF Given, Fits
    <3> QED BY <3>1, <3>2
  <2>8. Carrying(dev)'
    BY <1>1, <1>2, <1>3, <1>4, <1>7, <2>6, <2>7, CarryOn
  <2>9. /\ next.kind = "poll" /\ next.dev = dev /\ next.dep = d
        /\ \/ Sure(next) /\ next.pc \in {"respond", "update_status"}
                /\ (next.pc = "respond" => next.answer # "offer")
           \/ /\ next.pc = "inc_size" \/ (next.pc = "respond" /\ next.answer = "offer")
              /\ docs[i].status = "pending" => Fits(i)
    <3>1. /\ job.kind = "poll" /\ job.pc = "instructions" /\ Sure(job)
          /\ job.dep \notin Configuration /\ InstructedBy(job, TRUE, next)
      BY <1>1, <1>2, <1>4, <2>1
    <3> HIDE DEF job
    <3>2. /\ next.kind = "poll" /\ next.dev = job.dev /\ next.dep = job.dep
          /\ \/ Sure(next) /\ next.pc \in {"respond", "update_status"}
                  /\ (next.pc = "respond" => next.answer # "offer")
             \/ /\ next.pc = "inc_size" \/ (next.pc = "respond" /\ next.answer = "offer")
                /\ docs[job.doc].status = "pending" => Fits(job.doc)
      BY <3>1, InstructSure
    <3> QED BY <1>4, <3>2
  <2>10. Sure(next)'
    <3>1. CASE Sure(next) /\ next.pc = "respond" /\ next.answer # "offer"
      BY <1>1, <1>4, <2>9, <3>1 DEF Sure, AfterPCs, ReadPCs
    <3>2. CASE Sure(next) /\ next.pc = "update_status"
      <4>1. PICK k \in DOMAIN docs : Fresh(next, k)
        BY <3>2 DEF Sure
      <4>2. k \in DocsOf(dev, d) /\ next.cur \in ActiveStatuses
              /\ docs[k].status \in {next.cur, "aborted"}
        BY <2>9, <4>1 DEF Fresh
      <4>3. k = i
        BY <1>8, <4>2
      <4>4. Fresh(next, k)' /\ k \in DOMAIN docs'
        BY <1>6, <2>3, <2>4, <2>9, <4>2, <4>3 DEF Fresh, DocsOf
      <4>5. next.new = "failure" \/ devices'[next.dev].dep # next.dep
        BY <1>2, <2>9, <3>2 DEF Sure
      <4> QED BY <1>1, <1>4, <2>9, <3>2, <4>4, <4>5 DEF Sure, AfterPCs, ReadPCs
    <3>3. CASE /\ next.pc = "inc_size" \/ (next.pc = "respond" /\ next.answer = "offer")
               /\ docs[i].status = "pending" => Fits(i)
      <4>1. Given(i)' /\ docs'[i].status \in OpenStatuses
        BY <1>6, <2>3, <2>5, <3>3 DEF Given
      <4> QED BY <1>1, <1>4, <2>4, <2>9, <3>3, <4>1 DEF Sure, AfterPCs, ReadPCs, DocsOf
    <3> QED BY <2>9, <3>1, <3>2, <3>3
  <2> QED BY <1>1, <1>2, <1>3, <1>4, <1>6, <2>3, <2>8, <2>10, OwnGoes
<1> QED BY <1>3, <1>4, <1>11, <1>12, <1>13, <1>14, <1>15 DEF InstructionsWay

\* Writing the status of a device deployment: one that was open, and what closes it is on
\* its way to the device.
LEMMA UpdateHonest ==
    ASSUME AInv, Orderly, Honest, NEW w \in Workers, workers[w].kind \in DeviceKinds,
           UpdateStatus(w)
    PROVE  Honest'
<1> DEFINE job == workers[w]
<1>1. IInv /\ Alone /\ DeliveredInOrder /\ Sure(job) /\ job.dev \in Devices
  BY DEF AInv, Orderly, Honest, Sure
<1>2. UNCHANGED devices /\ job.pc = "update_status"
  BY DEF UpdateStatus, Unchanged, At
<1>3. PICK next : Continue(w, next) /\ UpdateWay(job, next)
  BY <1>1, UpdateIs
<1>4. PICK dev, d, new : dev = job.dev /\ d = job.dep /\ new = job.new
  OBVIOUS
<1>5. PICK i \in DOMAIN docs : Fresh(job, i)
  BY <1>1, <1>2 DEF Sure
<1>6. /\ i \in DocsOf(dev, d) /\ docs[i].dev = dev /\ docs[i].dep = d
      /\ docs[i].status \in OpenStatuses
  BY <1>4, <1>5 DEF Fresh, DocsOf, OpenStatuses
<1>7. \A e : ~Closes(job, e)
  BY <1>2 DEF Closes, AfterPCs
<1>8. /\ job.kind = "poll" => new = "failure" \/ devices[dev].dep # d
      /\ job.kind = "report" => devices[dev].dep = d /\ new \in ReportStatuses
  BY <1>1, <1>2, <1>4 DEF Sure
<1>9. CASE UNCHANGED docs /\ Answered(job, next, job.new, "refused")
  <2>1. Sure(next) /\ next.kind = job.kind /\ next.dev = job.dev
    BY <1>1, <1>9 DEF Answered, Keeps, Sure, AfterPCs, ReadPCs
  <2> QED BY <1>1, <1>2, <1>3, <1>7, <1>9, <2>1, QuietGoes
<1>10. ASSUME NEW k, Writes(job, k),
              \/ docs[k].status = job.new /\ Passed(job, next)
              \/ /\ docs[k].status # job.new /\ next.old = docs[k].status
                 /\ Keeps(job, next) /\ next.new = job.new /\ next.pc = "find_deployment"
       PROVE  Honest'
  <2>1. k = i
    BY <1>1, <1>4, <1>6, <1>10, OneDoc DEF Writes, NotDeleted
  <2>2. docs' = [docs EXCEPT ![i].status = new, ![i].active = Active(new)]
    BY <1>4, <1>10, <2>1 DEF Writes
  <2>3. /\ DOMAIN docs' = DOMAIN docs
        /\ docs'[i].request = docs[i].request /\ docs'[i].image = docs[i].image
        /\ docs'[i].status = new /\ docs'[i].dev = dev /\ docs'[i].dep = d
        /\ \A j \in DOMAIN docs : j # i => docs'[j] = docs[j]
    <3>1. docs[i] \in DocType /\ docs \in Seq(DocType)
      BY <1>1, <1>6, DocTyped DEF IInv, TypeOK
    <3> HIDE DEF Active
    <3> QED BY <1>6, <2>2, <3>1 DEF DocType
  <2>4. Sure(next) /\ next.kind = job.kind /\ next.dev = dev /\ next.dep = d
    <3>1. CASE Passed(job, next)
      <4>1. Sure(next) /\ next.kind = job.kind /\ next.dev = job.dev
        BY <1>1, <1>2, <3>1, PassedSure
      <4> QED BY <1>4, <3>1, <4>1 DEF Passed, Over, Answered, Keeps
    <3>2. CASE /\ next.old = docs[k].status
               /\ Keeps(job, next) /\ next.new = job.new /\ next.pc = "find_deployment"
      BY <1>1, <1>2, <1>4, <1>6, <1>8, <2>1, <3>2 DEF Sure, Keeps, AfterPCs, ReadPCs
    <3> QED BY <1>10, <3>1, <3>2
  <2>5. next.pc \in AfterPCs \union {"respond"} /\ next.new = new
          /\ (next.pc = "respond" => next.answer # "offer" /\ Active(new))
    BY <1>4, <1>10 DEF Passed, Over, Answered, AfterPCs
  <2>6. Sure(next)'
    <3>1. devices'[next.dev].dep = devices[next.dev].dep
      BY <1>2
    <3> QED BY <2>4, <2>5, <3>1 DEF Sure, AfterPCs, ReadPCs
  <2>7. Carrying(dev)'
    <3>1. CASE devices[dev].dep # d
      <4>1. \A j \in DocsOf(dev, devices[dev].dep) :
              j \in DOMAIN docs' /\ docs'[j].dev = dev /\ docs'[j] = docs[j]
        BY <1>6, <2>3, <3>1 DEF DocsOf
      <4>2. \A j \in DocsOf(dev, devices[dev].dep) : Given(j) => Given(j)'
        BY <4>1 DEF Given, Fits
      <4> QED BY <1>1, <1>2, <1>3, <1>4, <1>7, <4>1, <4>2, CarryOn
    <3>2. CASE devices[dev].dep = d
      <4>1. d # 0
        BY <1>1, <1>6, DocTyped, NumDeploymentsAssumption DEF IInv, Deployments
      <4>2. PICK j \in DocsOf(dev, d) : Given(j)
        BY <1>1, <1>4, <3>2, <4>1 DEF Honest, Carrying
      <4>3. Given(i)
        BY <1>1, <1>6, <4>2, OneDoc
      <4>4. new # "pending"
        BY <1>8, <3>2 DEF ReportStatuses, DeviceKinds
      <4>5. i \in DocsOf(dev, d)' /\ Given(i)'
        BY <1>6, <2>3, <4>3, <4>4 DEF DocsOf, Given
      <4>6. new \in ActiveStatuses \/ Closing(dev, d)'
        <5> SUFFICES ASSUME new \notin ActiveStatuses PROVE Closing(dev, d)'
          OBVIOUS
        <5>1. new \in FinishedStatuses /\ (job.kind = "poll" => new = "failure")
          BY <1>8, <3>2 DEF ReportStatuses, DeviceKinds, FinishedStatuses, ActiveStatuses
        <5>2. next.pc \in AfterPCs
          BY <2>5 DEF Active
        <5>3. Closes(next, d)
          BY <2>4, <2>5, <5>1, <5>2 DEF Closes, DeviceKinds
        <5>4. workers'[w] = next
          BY <1>1, <1>3, OthersStay
        <5> QED BY <2>4, <5>3, <5>4 DEF Closing, Closes
      <4>7. devices'[dev].dep = d
        BY <1>2, <3>2
      <4>8. DocsOf(dev, devices[dev].dep)' = DocsOf(dev, d)'
        BY <4>7 DEF DocsOf
      <4>9. Closing(dev, devices[dev].dep)' = Closing(dev, d)'
        BY <4>7 DEF Closing, Closes
      <4> QED BY <2>3, <4>5, <4>6, <4>8, <4>9 DEF Carrying, OpenStatuses
    <3> QED BY <3>1, <3>2
  <2> QED BY <1>1, <1>2, <1>3, <1>4, <1>6, <2>3, <2>4, <2>6, <2>7, OwnGoes
<1> QED BY <1>3, <1>9, <1>10 DEF UpdateWay

\* The answer tells the device what it carries out from now on.
LEMMA RespondHonest ==
    ASSUME AInv, Orderly, Honest, NEW w \in Workers, workers[w].kind \in DeviceKinds,
           Respond(w)
    PROVE  Honest'
<1> DEFINE job == workers[w]
           mine == devices[job.dev].dep = job.dep
           over == \/ job.kind = "report" /\ job.answer = "refused"
                   \/ job.kind = "report" /\ ~Active(job.new)
                   \/ job.answer = "conflict"
<1>1. IInv /\ Alone /\ DeliveredInOrder /\ Sure(job) /\ job.dev \in Devices
  BY DEF AInv, Orderly, Honest, Sure
<1>2. UNCHANGED docs /\ job.pc = "respond" /\ Continue(w, Idle)
  BY DEF Respond, At
<1>3. PICK dev, d : dev = job.dev /\ d = job.dep
  OBVIOUS
<1>4. devices \in [Devices -> DeviceType] /\ dev \in Devices
  BY <1>1, <1>3 DEF IInv, TypeOK
<1>5. \/ job.answer = "offer" /\ devices'[dev].dep = d
      \/ mine /\ over /\ devices'[dev].dep = 0
      \/ ~(job.answer = "offer" /\ ~mine) /\ ~(mine /\ over) /\ devices'[dev] = devices[dev]
  BY <1>3, <1>4 DEF Respond
<1>6. \A e \in Devices : e # dev => Beside(e)
  <2>1. \A e \in Devices : e # dev => devices'[e] = devices[e]
    BY <1>3, <1>4 DEF Respond
  <2> QED BY <1>2, <2>1 DEF Beside
<1>7. Carrying(dev)'
  <2>1. CASE job.answer = "offer" /\ devices'[dev].dep = d
    <3>1. PICK i \in DocsOf(dev, d) : Given(i) /\ docs[i].status \in OpenStatuses
      BY <1>1, <1>2, <1>3, <2>1 DEF Sure
    <3>2. i \in DocsOf(dev, d)' /\ Given(i)' /\ docs'[i].status \in OpenStatuses
      BY <1>2, <3>1 DEF DocsOf, Given, Fits
    <3>3. DocsOf(dev, devices[dev].dep)' = DocsOf(dev, d)'
      BY <2>1 DEF DocsOf
    <3> QED BY <3>2, <3>3 DEF Carrying
  <2>2. CASE devices'[dev].dep = 0
    BY <2>2 DEF Carrying
  <2>3. CASE ~(job.answer = "offer" /\ ~mine) /\ ~(mine /\ over) /\ devices'[dev] = devices[dev]
    <3>1. Carrying(dev) /\ Beside(dev)
      BY <1>2, <1>4, <2>3 DEF Honest, Beside
    <3>2. PICK e : e = devices[dev].dep
      OBVIOUS
    <3>3. ~Closes(job, e)
      <4> SUFFICES ASSUME Closes(job, e) PROVE FALSE
        OBVIOUS
      <4>1. mine
        BY <1>3, <3>2 DEF Closes
      <4>2. over
        BY <1>2 DEF Closes, AfterPCs, Active, ActiveStatuses, FinishedStatuses
      <4> QED BY <2>3, <4>1, <4>2
    <3>4. Closing(dev, e) => Closing(dev, e)'
      <4>1. \A v \in Workers : Closes(workers[v], e) => workers'[v] = workers[v]
        BY <1>1, <1>2, <3>3, OthersStay
      <4> QED BY <4>1 DEF Closing, Closes
    <3>5. ASSUME e # 0
          PROVE  \E k \in DocsOf(dev, e)' :
                   Given(k)' /\ (docs'[k].status \in OpenStatuses \/ Closing(dev, e)')
      <4>1. PICK k \in DocsOf(dev, e) : Given(k) /\ (docs[k].status \in OpenStatuses \/ Closing(dev, e))
        BY <3>1, <3>2, <3>5 DEF Carrying
      <4> QED BY <3>1, <3>4, <4>1, DocBeside
    <3>6. devices'[dev].dep = e
      BY <2>3, <3>2
    <3>7. DocsOf(dev, devices[dev].dep)' = DocsOf(dev, e)'
      BY <3>6 DEF DocsOf
    <3>8. Closing(dev, devices[dev].dep)' = Closing(dev, e)'
      BY <3>6 DEF Closing, Closes
    <3> QED BY <3>5, <3>6, <3>7, <3>8 DEF Carrying
  <2> QED BY <1>5, <2>1, <2>2, <2>3
<1>8. Idle.kind \notin DeviceKinds
  BY DEF Idle, DeviceKinds
<1> QED BY <1>1, <1>2, <1>3, <1>6, <1>7, <1>8, HonestGoes

\* The steps of an abort end what is active, and nothing else.
LEMMA AbortHonest ==
    ASSUME AInv, Orderly, Honest, NEW w \in Workers, workers[w].pc \in AbortPCs, Step(w),
           workers[w].kind \notin DeviceKinds
    PROVE  Honest'
<1>1. IInv /\ Alone
  BY DEF AInv, Orderly
<1>2. PICK next : Continue(w, next) /\ AbortWay(workers[w], next)
  BY <1>1, AbortIs
<1>3. next.kind \notin DeviceKinds
  BY <1>2 DEF AbortWay, Idle, DeviceKinds
<1>4. \/ CheckFinished(w) \/ AbortDocs(w) \/ Aggregate(w) \/ UpdateStats(w) \/ Finish(w)
  BY DEF Step, Respond, FindActive, FindInactive, FindNewer, FindExisting,
     InsertDeviceDeployment, IncrementDeviceCount, SaveRequest, Instructions,
     IncrementTotalSize, GetDeviceDeployment, UpdateStatus, FindDeployment, UpdateStatsInc,
     SetStatus, SaveLastStatus, GetHistory, MarkDeleted, DeleteLast, At, AbortPCs
<1>5. UNCHANGED devices
  BY <1>4 DEF CheckFinished, AbortDocs, Aggregate, UpdateStats, Finish, ReadOnly, Unchanged
<1>6. \A dev : Beside(dev)
  <2>1. CASE UNCHANGED docs
    BY <1>5, <2>1 DEF Beside
  <2>2. CASE AbortDocs(w)
    <3>1. /\ DOMAIN docs' = DOMAIN docs
          /\ \A i \in DOMAIN docs :
               \/ docs'[i] = docs[i]
               \/ /\ docs[i].active
                  /\ docs'[i] = [docs[i] EXCEPT !.status = "aborted", !.active = FALSE]
      BY <2>2 DEF AbortDocs
    <3>2. ASSUME NEW i \in DOMAIN docs
          PROVE  /\ docs'[i].dev = docs[i].dev /\ docs'[i].dep = docs[i].dep
                 /\ docs'[i].request = docs[i].request /\ docs'[i].image = docs[i].image
                 /\ \/ docs'[i].status = docs[i].status
                    \/ docs[i].status \in ActiveStatuses /\ docs'[i].status = "aborted"
      <4>1. docs[i] \in DocType /\ (docs[i].active => docs[i].status \in ActiveStatuses)
        BY <1>1, DocTyped DEF IInv, AInv, Consistent, Active
      <4>2. CASE docs'[i] = docs[i]
        BY <4>2
      <4>3. CASE /\ docs[i].active
                 /\ docs'[i] = [docs[i] EXCEPT !.status = "aborted", !.active = FALSE]
        <5>1. docs'[i].status = "aborted" /\ docs'[i].dev = docs[i].dev
                /\ docs'[i].dep = docs[i].dep /\ docs'[i].request = docs[i].request
                /\ docs'[i].image = docs[i].image
          BY <4>1, <4>3 DEF DocType
        <5> QED BY <4>1, <4>3, <5>1
      <4> QED BY <3>1, <4>2, <4>3
    <3> QED BY <1>5, <3>1, <3>2 DEF Beside
  <2> QED BY <1>4, <2>1, <2>2 DEF CheckFinished, Aggregate, UpdateStats, Finish, ReadOnly
<1> QED BY <1>1, <1>2, <1>3, <1>6, HonestGoes

\* A request that arrives knows what it must.
LEMMA RequestHonest ==
    ASSUME Obedient = TRUE, AInv, Ready, Orderly, Honest, NEW w \in Workers, Request(w), Plain'
    PROVE  Honest'
<1>1. IInv /\ Alone
  BY DEF AInv, Orderly
<1>2. /\ workers[w].pc = "idle" /\ UNCHANGED docs
      /\ \E next : /\ Continue(w, next)
                   /\ PollArrives(next) \/ ReportArrives(next) \/ AbortArrives(next)
  BY <1>1, RequestIs
<1>3. PICK next : /\ Continue(w, next)
                  /\ PollArrives(next) \/ ReportArrives(next) \/ AbortArrives(next)
  BY <1>2
<1>4. workers[w].kind \notin DeviceKinds
  BY <1>2 DEF Ready, Routine, DeviceKinds, PollPCs, ReportPCs, DevicePCs, AfterPCs, AbortPCs
<1>5. /\ \A dev \in Devices : devices'[dev].dep = devices[dev].dep
      /\ next.kind \in DeviceKinds => Sure(next)'
  <2>1. CASE PollArrives(next)
    <3>1. /\ next.pc = "find_active" /\ next.kind = "poll" /\ next.dev \in Devices
          /\ next.req \in Requests /\ UNCHANGED devices
      BY <2>1, PollArrivesIs
    <3> QED BY <3>1 DEF Sure, AfterPCs
  <2>2. CASE ReportArrives(next)
    <3>1. /\ next.pc = "get_dd" /\ next.kind = "report" /\ next.dev \in Devices
          /\ next.new \in Reports /\ MayReport(next.dev, next.dep, next.new)
          /\ devices' = IF devices[next.dev].dep = next.dep
                        THEN [devices EXCEPT ![next.dev].said = next.new] ELSE devices
      BY <2>2, ReportArrivesIs
    <3>2. devices[next.dev].dep = next.dep
      BY <3>1 DEF MayReport
    <3>3. devices \in [Devices -> DeviceType]
      BY <1>1 DEF IInv, TypeOK
    <3>4. \A dev \in Devices : devices'[dev].dep = devices[dev].dep
      BY <3>1, <3>2, <3>3 DEF DeviceType
    <3>5. next.new \in ReportStatuses
      BY <3>1, ReportsAssumption
    <3> QED BY <3>1, <3>2, <3>4, <3>5 DEF Sure, AfterPCs, ReadPCs
  <2>3. CASE AbortArrives(next)
    BY <2>3, AbortArrivesIs DEF DeviceKinds
  <2> QED BY <1>3, <2>1, <2>2, <2>3
<1>6. \A dev \in Devices : Beside(dev)
  BY <1>2, <1>5 DEF Beside
<1> QED BY <1>1, <1>3, <1>4, <1>5, <1>6, HonestGoes

\* A step that concerns neither devices nor requests.
LEMMA StillHonest ==
    ASSUME Honest, UNCHANGED <<docs, devices, workers>>
    PROVE  Honest'
<1>1. ASSUME NEW w \in Workers, workers'[w].kind \in DeviceKinds
      PROVE  Sure(workers[w])'
  <2>1. PICK job : job = workers[w] /\ workers'[w] = job
    OBVIOUS
  <2>2. Sure(job) /\ Beside(job.dev)
    BY <1>1, <2>1 DEF Honest, Beside
  <2>3. Sure(job)'
    BY <2>2, SureBeside
  <2> QED BY <2>1, <2>3 DEF Sure, Fresh, Given, Fits, DocsOf
<1>2. ASSUME NEW dev \in Devices
      PROVE  Carrying(dev)'
  <2>1. Carrying(dev) /\ Beside(dev)
    BY <1>2 DEF Honest, Beside
  <2> QED BY <2>1, CarryBeside DEF Closes
<1> QED BY <1>1, <1>2 DEF Honest

\* Every step keeps what devices and requests rely on.
LEMMA NextCInv ==
    ASSUME PerDevice = 1, Obedient = TRUE
    PROVE  CInv /\ [Next]_vars => CInv'
<1> SUFFICES ASSUME CInv, [Next]_vars, Calm' PROVE Honest'
  BY NextOInv DEF CInv
<1>1. Plain /\ failures = 0 /\ AInv /\ Ready /\ Orderly /\ Honest /\ Plain'
  BY Before DEF CInv, OInv, RInv, AInv, Calm
<1>2. CASE UNCHANGED vars \/ Create
  <2>1. UNCHANGED <<docs, devices, workers>>
    BY <1>2 DEF vars, Create, BuildDeployment, InsertDeployment
  <2> QED BY <1>1, <2>1, StillHonest
<1>3. ASSUME NEW w \in Workers, Request(w)
      PROVE  Honest'
  BY <1>1, <1>3, RequestHonest
<1>4. ASSUME NEW w \in Workers, Fail(w)
      PROVE  FALSE
  BY <1>1, <1>4, FailIs DEF Calm, Ready, AInv
<1>5. ASSUME NEW w \in Workers, Step(w)
      PROVE  Honest'
  <2>1. Routine(workers[w]) /\ workers[w].pc # "idle" /\ IInv
    BY <1>1, <1>5, StepAt DEF Ready, AInv
  <2>2. CASE workers[w].kind \notin DeviceKinds
    <3>1. workers[w].pc \in AbortPCs
      BY <2>1, <2>2 DEF Routine, DeviceKinds
    <3> QED BY <1>1, <1>5, <2>2, <3>1, AbortHonest
  <2>3. CASE workers[w].kind \in DeviceKinds
    <3>1. \/ Respond(w)
          \/ /\ workers[w].kind = "poll"
             /\ \/ FindActive(w) \/ FindInactive(w) \/ FindNewer(w) \/ FindExisting(w)
                \/ InsertDeviceDeployment(w) \/ IncrementDeviceCount(w)
                \/ SaveRequest(w) \/ Instructions(w) \/ IncrementTotalSize(w)
          \/ workers[w].kind = "report" /\ GetDeviceDeployment(w)
          \/ UpdateStatus(w) \/ FindDeployment(w) \/ UpdateStatsInc(w)
          \/ SetStatus(w) \/ SaveLastStatus(w)
      BY <1>5, <2>1, <2>3, DeviceStep
    <3> QED BY <1>1, <2>3, <3>1, RespondHonest, SearchHonest, InsertHonest, CountHonest,
               SaveRequestHonest, InstructionsHonest, UpdateHonest
  <2> QED BY <2>2, <2>3
<1> QED BY <1>2, <1>3, <1>4, <1>5 DEF Next

---------------------------------------------------------------------------
(* The finish of a deployment nobody interferes with.                       *)

FinishedDocs(d) == {i \in InDeployment(d) : docs[i].status \in FinishedStatuses}

\* Every device on the list has an outcome.
AllDone(d) ==
    \A dev \in Listed(d) : \E i \in DocsOf(dev, d) : docs[i].status \in FinishedStatuses

\* The counters say so.
Complete(d) ==
    MaxDevices(d) > 0 /\ CountedOutcomes(deployments[d].stats) >= MaxDevices(d)

\* Two disjoint finite sets.
LEMMA Disjoint ==
    ASSUME NEW S, NEW T, IsFiniteSet(S), IsFiniteSet(T), S \cap T = {}
    PROVE  /\ IsFiniteSet(S \union T)
           /\ Cardinality(S \union T) = Cardinality(S) + Cardinality(T)
<1>1. Cardinality(S) \in Nat /\ Cardinality(T) \in Nat /\ Cardinality(S \cap T) = 0
  BY FS_CardinalityType, FS_EmptySet
<1>2. /\ IsFiniteSet(S \union T)
      /\ Cardinality(S \union T) = Cardinality(S) + Cardinality(T) - Cardinality(S \cap T)
  BY FS_Union
<1> QED BY <1>1, <1>2

\* Device deployments with an outcome, by outcome.
LEMMA FinishedDocsCount ==
    ASSUME IInv, Ready, NEW d
    PROVE  /\ IsFiniteSet(FinishedDocs(d)) /\ Cardinality(FinishedDocs(d)) \in Nat
           /\ \A st : Cardinality(InStatus(d, st)) \in Nat
           /\ Cardinality(FinishedDocs(d)) =
                Cardinality(InStatus(d, "already-installed")) + Cardinality(InStatus(d, "success"))
                  + Cardinality(InStatus(d, "failure")) + Cardinality(InStatus(d, "noartifact"))
                  + Cardinality(InStatus(d, "decommissioned"))
                  + Cardinality(InStatus(d, "aborted"))
<1> DEFINE S1 == InStatus(d, "already-installed")
           S2 == InStatus(d, "success")
           S3 == InStatus(d, "failure")
           S4 == InStatus(d, "noartifact")
           S5 == InStatus(d, "decommissioned")
           S6 == InStatus(d, "aborted")
<1>1. \A st : IsFiniteSet(InStatus(d, st)) /\ Cardinality(InStatus(d, st)) \in Nat
  BY SizesFinite, FS_CardinalityType
<1>2. \A st, other : st # other => InStatus(d, st) \cap InStatus(d, other) = {}
  BY DEF InStatus
<1>3. /\ S1 \cap S2 = {} /\ (S1 \union S2) \cap S3 = {} /\ (S1 \union S2 \union S3) \cap S4 = {}
      /\ (S1 \union S2 \union S3 \union S4) \cap S5 = {}
      /\ (S1 \union S2 \union S3 \union S4 \union S5) \cap S6 = {}
  BY <1>2
<1>4. FinishedDocs(d) = S1 \union S2 \union S3 \union S4 \union S5 \union S6
  BY DEF FinishedDocs, InStatus, FinishedStatuses
<1> HIDE DEF S1, S2, S3, S4, S5, S6
<1>5. IsFiniteSet(S1 \union S2) /\ Cardinality(S1 \union S2) = Cardinality(S1) + Cardinality(S2)
  BY <1>1, <1>3, Disjoint DEF S1, S2
<1>6. /\ IsFiniteSet(S1 \union S2 \union S3)
      /\ Cardinality(S1 \union S2 \union S3) = Cardinality(S1 \union S2) + Cardinality(S3)
  <2>1. IsFiniteSet(S3)
    BY <1>1 DEF S3
  <2> QED BY <1>3, <1>5, <2>1, Disjoint
<1>7. /\ IsFiniteSet(S1 \union S2 \union S3 \union S4)
      /\ Cardinality(S1 \union S2 \union S3 \union S4)
           = Cardinality(S1 \union S2 \union S3) + Cardinality(S4)
  <2>1. IsFiniteSet(S4)
    BY <1>1 DEF S4
  <2> QED BY <1>3, <1>6, <2>1, Disjoint
<1>8. /\ IsFiniteSet(S1 \union S2 \union S3 \union S4 \union S5)
      /\ Cardinality(S1 \union S2 \union S3 \union S4 \union S5)
           = Cardinality(S1 \union S2 \union S3 \union S4) + Cardinality(S5)
  <2>1. IsFiniteSet(S5)
    BY <1>1 DEF S5
  <2> QED BY <1>3, <1>7, <2>1, Disjoint
<1>9. /\ IsFiniteSet(S1 \union S2 \union S3 \union S4 \union S5 \union S6)
      /\ Cardinality(S1 \union S2 \union S3 \union S4 \union S5 \union S6)
           = Cardinality(S1 \union S2 \union S3 \union S4 \union S5) + Cardinality(S6)
  <2>1. IsFiniteSet(S6)
    BY <1>1 DEF S6
  <2> QED BY <1>3, <1>8, <2>1, Disjoint
<1>10. /\ Cardinality(S1) \in Nat /\ Cardinality(S2) \in Nat /\ Cardinality(S3) \in Nat
       /\ Cardinality(S4) \in Nat /\ Cardinality(S5) \in Nat /\ Cardinality(S6) \in Nat
  BY <1>1 DEF S1, S2, S3, S4, S5, S6
<1>11. Cardinality(FinishedDocs(d)) =
         Cardinality(S1) + Cardinality(S2) + Cardinality(S3) + Cardinality(S4)
           + Cardinality(S5) + Cardinality(S6)
  BY <1>4, <1>5, <1>6, <1>7, <1>8, <1>9, <1>10
<1>12. IsFiniteSet(FinishedDocs(d)) /\ Cardinality(FinishedDocs(d)) \in Nat
  BY <1>4, <1>9, FS_CardinalityType
<1> QED BY <1>1, <1>11, <1>12 DEF S1, S2, S3, S4, S5, S6

\* What the counters say of outcomes, when no worker is to take one off again.
LEMMA OutcomesCounted ==
    ASSUME IInv, Ready, NEW d \in Deployments, Acct(d),
           \A st \in FinishedStatuses : Leaving(d, st) = {}
    PROVE  /\ CountedOutcomes(deployments[d].stats) \in Int
           /\ CountedOutcomes(deployments[d].stats) <= Cardinality(FinishedDocs(d))
           /\ Adjusting(d) = {} =>
                CountedOutcomes(deployments[d].stats) = Cardinality(FinishedDocs(d))
<1> DEFINE stats == deployments[d].stats
           In(st) == Cardinality(InStatus(d, st))
           En(st) == Cardinality(Entering(d, st))
<1>1. \A st : In(st) \in Nat /\ En(st) \in Nat
  BY SizesFinite, FS_CardinalityType
<1>2. \A st \in FinishedStatuses : st \in Statuses /\ st # "pending"
  BY DEF FinishedStatuses, Statuses, ActiveStatuses
<1>3. \A st \in FinishedStatuses : Cardinality(Leaving(d, st)) = 0
  BY FS_EmptySet
<1>4. ASSUME NEW st \in FinishedStatuses PROVE stats[st] = In(st) - En(st)
  <2>1. stats[st] = In(st) + Cardinality(Leaving(d, st)) - En(st) + 0
    BY <1>2, <1>4, ExpectedIs DEF Acct
  <2> QED BY <1>1, <1>3, <1>4, <2>1
<1>5. /\ "already-installed" \in FinishedStatuses /\ "success" \in FinishedStatuses
      /\ "failure" \in FinishedStatuses /\ "noartifact" \in FinishedStatuses
      /\ "decommissioned" \in FinishedStatuses /\ "aborted" \in FinishedStatuses
  BY DEF FinishedStatuses
<1>6. ASSUME Adjusting(d) = {} PROVE \A st : En(st) = 0
  BY <1>6, FS_EmptySet DEF Entering
<1> HIDE DEF stats, In, En
<1>7. CountedOutcomes(stats) =
        (In("already-installed") - En("already-installed")) + (In("success") - En("success"))
          + (In("failure") - En("failure")) + (In("noartifact") - En("noartifact"))
          + (In("decommissioned") - En("decommissioned")) + (In("aborted") - En("aborted"))
  BY <1>4, <1>5 DEF CountedOutcomes
<1>8. Cardinality(FinishedDocs(d)) =
        In("already-installed") + In("success") + In("failure") + In("noartifact")
          + In("decommissioned") + In("aborted")
  BY FinishedDocsCount DEF In
<1>9. /\ CountedOutcomes(stats) \in Int /\ CountedOutcomes(stats) <= Cardinality(FinishedDocs(d))
      /\ (\A st : En(st) = 0) => CountedOutcomes(stats) = Cardinality(FinishedDocs(d))
  BY <1>1, <1>7, <1>8
<1> QED BY <1>6, <1>9 DEF stats

\* Counters that are complete mean that all devices on the list are done.
LEMMA CompleteIsDone ==
    ASSUME IInv, Ready, Orderly, NEW d \in Deployments, Acct(d), Complete(d),
           \A st \in FinishedStatuses : Leaving(d, st) = {}
    PROVE  AllDone(d)
<1> DEFINE S == FinishedDocs(d)
           T == Listed(d)
           f == [i \in S |-> docs[i].dev]
<1>1. \A i \in S : i \in DOMAIN docs /\ docs[i].dep = d /\ docs[i].status \in FinishedStatuses
  BY DEF FinishedDocs, InDeployment
<1>2. \A i \in S : docs[i].dev \in T
  BY <1>1 DEF Orderly, AllListed
<1>3. \A i, j \in S : docs[i].dev = docs[j].dev => i = j
  <2> SUFFICES ASSUME NEW i \in S, NEW j \in S, docs[i].dev = docs[j].dev PROVE i = j
    OBVIOUS
  <2>1. PICK dev : dev = docs[i].dev
    OBVIOUS
  <2>2. i \in DocsOf(dev, d) /\ j \in DocsOf(dev, d)
    BY <1>1, <2>1 DEF DocsOf
  <2> QED BY <2>2, OneDoc DEF Orderly
<1>4. f \in Injection(S, T)
  BY <1>2, <1>3 DEF Injection, IsInjective
<1>5. MaxDevices(d) <= CountedOutcomes(deployments[d].stats)
        /\ CountedOutcomes(deployments[d].stats) <= Cardinality(S)
        /\ CountedOutcomes(deployments[d].stats) \in Int
  <2>1. MaxDevices(d) \in Nat
    BY ListedBound
  <2> QED BY <2>1, OutcomesCounted DEF Complete
<1>6. /\ IsFiniteSet(T) /\ Cardinality(T) \in Nat
      /\ MaxDevices(d) \in Nat /\ Cardinality(T) <= MaxDevices(d)
  BY ListedBound
<1>7. IsFiniteSet(S) /\ Cardinality(S) \in Nat
  BY FinishedDocsCount
<1> HIDE DEF S, T, f
<1>8. /\ Cardinality(S) <= Cardinality(T)
      /\ Cardinality(S) = Cardinality(T) <=> f \in Surjection(S, T)
  BY <1>4, <1>6, FS_Injection
<1>9. f \in Surjection(S, T)
  BY <1>5, <1>6, <1>7, <1>8
<1>10. \A dev \in T : \E i \in S : docs[i].dev = dev
  BY <1>9 DEF Surjection, f
<1>11. \A dev \in T : \E i \in DocsOf(dev, d) : docs[i].status \in FinishedStatuses
  BY <1>1, <1>10 DEF DocsOf
<1> QED BY <1>11 DEF AllDone, T

\* A list that names each device once is as long as it has devices.
LEMMA ListedAll ==
    ASSUME IInv, NEW d \in Deployments,
           \A i, j \in DOMAIN deployments[d].list :
             deployments[d].list[i] = deployments[d].list[j] => i = j
    PROVE  Cardinality(Listed(d)) = MaxDevices(d)
<1>1. PICK list : list = deployments[d].list
  OBVIOUS
<1>2. list \in Seq(Devices) /\ Len(list) \in Nat /\ DOMAIN list = 1..Len(list)
  BY <1>1 DEF IInv, TypeOK, DeploymentType
<1>3. list \in [DOMAIN list -> Devices] /\ Listed(d) = {list[i] : i \in DOMAIN list}
  BY <1>1, <1>2 DEF Listed
<1>4. list \in Surjection(DOMAIN list, Listed(d))
  BY <1>3 DEF Surjection
<1>5. list \in Injection(DOMAIN list, Listed(d))
  BY <1>1, <1>4 DEF Injection, IsInjective, Surjection
<1>6. IsFiniteSet(DOMAIN list) /\ Cardinality(DOMAIN list) = Len(list)
  BY <1>2, FS_Interval
<1>7. Cardinality(Listed(d)) = Cardinality(DOMAIN list)
  BY <1>4, <1>5, <1>6, FS_Surjection
<1> QED BY <1>1, <1>6, <1>7 DEF MaxDevices

\* When all devices are done and no worker is on its way, the counters are complete.
LEMMA DoneIsComplete ==
    ASSUME IInv, Ready, NEW d \in Deployments, Acct(d), AllDone(d),
           Cardinality(Listed(d)) = MaxDevices(d), MaxDevices(d) > 0, Adjusting(d) = {}
    PROVE  Complete(d)
<1> DEFINE S == FinishedDocs(d)
           T == Listed(d)
           U == {docs[i].dev : i \in S}
           f == [i \in S |-> docs[i].dev]
<1>1. \A st : Leaving(d, st) = {}
  BY DEF Leaving
<1>2. CountedOutcomes(deployments[d].stats) = Cardinality(S)
  BY <1>1, OutcomesCounted
<1>3. T \subseteq U
  BY DEF AllDone, FinishedDocs, InDeployment, DocsOf
<1>4. f \in Surjection(S, U)
  BY DEF Surjection
<1>5. IsFiniteSet(S) /\ Cardinality(S) \in Nat
  BY FinishedDocsCount
<1> HIDE DEF S, T, U, f
<1>6. IsFiniteSet(U) /\ Cardinality(U) <= Cardinality(S)
  BY <1>4, <1>5, FS_Surjection
<1>7. IsFiniteSet(T) /\ Cardinality(T) <= Cardinality(U)
  BY <1>3, <1>6, FS_Subset
<1>8. Cardinality(T) \in Nat /\ Cardinality(U) \in Nat
  BY <1>6, <1>7, FS_CardinalityType
<1>9. Cardinality(T) = MaxDevices(d)
  BY DEF T
<1> QED BY <1>2, <1>5, <1>6, <1>7, <1>8, <1>9 DEF Complete

\* Moving a device from a status that is no outcome takes no outcome away.
LEMMA OutcomesGrow ==
    ASSUME NEW stats \in StatsType, NEW from \in Statuses \ FinishedStatuses, NEW to \in Statuses,
           from # to
    PROVE  /\ CountedOutcomes(stats) \in Int /\ CountedOutcomes(StatsInc(stats, from, to)) \in Int
           /\ CountedOutcomes(stats) <= CountedOutcomes(StatsInc(stats, from, to))
<1> DEFINE less == [stats EXCEPT ![from] = @ - 1]
<1>2. less \in StatsType /\ \A st \in FinishedStatuses : less[st] = stats[st]
  BY DEF StatsType
<1>3. StatsInc(stats, from, to) = [less EXCEPT ![to] = @ + 1]
  <2>1. less[to] = stats[to]
    BY DEF StatsType
  <2> QED BY <2>1 DEF StatsInc
<1> HIDE DEF less
<1>4. PICK more : more = [less EXCEPT ![to] = @ + 1]
  OBVIOUS
<1>5. \A st \in Statuses : more[st] \in Int /\ less[st] \in Int /\ less[st] <= more[st]
  BY <1>2, <1>4 DEF StatsType
<1>6. /\ "already-installed" \in FinishedStatuses /\ "success" \in FinishedStatuses
      /\ "failure" \in FinishedStatuses /\ "noartifact" \in FinishedStatuses
      /\ "decommissioned" \in FinishedStatuses /\ "aborted" \in FinishedStatuses
      /\ FinishedStatuses \subseteq Statuses
  BY DEF FinishedStatuses, Statuses
<1>7. /\ CountedOutcomes(less) \in Int /\ CountedOutcomes(more) \in Int
      /\ CountedOutcomes(less) <= CountedOutcomes(more)
  BY <1>5, <1>6 DEF CountedOutcomes
<1>8. CountedOutcomes(less) = CountedOutcomes(stats)
  BY <1>2, <1>6 DEF CountedOutcomes
<1> QED BY <1>3, <1>4, <1>7, <1>8

\* No device deployment has been aborted.
NoneAborted == \A i \in DOMAIN docs : docs[i].status # "aborted"

\* An update replaces no outcome, and finds a deployment finished, or is about to finish
\* it, only when its counters are complete.
Backed(job, d) ==
    job.dep = d =>
        /\ job.pc \in {"find_deployment", "inc_stats"} => job.old \notin FinishedStatuses
        /\ job.pc = "inc_stats" /\ (job.was_finished \/ job.overall = "finished") => Complete(d)
        /\ job.pc = "set_status" /\ job.overall = "finished" => Complete(d)

\* Workers about to finish a deployment.
Finishing(d) ==
    {w \in Workers : /\ workers[w].dep = d
                     /\ workers[w].pc = "set_status" /\ workers[w].overall = "finished"}

\* A deployment is finished, or about to be, exactly when its counters are complete.
InTime(d) ==
    /\ deployments[d].finished => deployments[d].stage # "none" /\ Complete(d)
    /\ deployments[d].stage # "none" /\ Complete(d) =>
         deployments[d].finished \/ Finishing(d) # {}

Untroubled ==
    /\ NoneAborted
    /\ \A d \in Deployments : InTime(d) /\ \A w \in Workers : Backed(workers[w], d)

DInv == CInv /\ AcctInv /\ (Undisturbed => Untroubled)

\* Whether the counters are complete depends on them and on the list alone.
LEMMA CompleteSame ==
    ASSUME NEW d, CountersStay(d)
    PROVE  Complete(d)' <=> Complete(d)
BY DEF Complete, CountersStay, MaxDevices

\* What a worker holds stays backed, when the counters stay complete.
LEMMA BackedStays ==
    ASSUME NEW job, NEW d, Backed(job, d), Complete(d) => Complete(d)'
    PROVE  Backed(job, d)'
BY DEF Backed

\* Moving the counters of a device that had no outcome leaves complete ones complete.
LEMMA IncCompletes ==
    ASSUME IInv, NEW w \in Workers, workers[w].kind \in DeviceKinds, UpdateStatsInc(w),
           NEW d \in Deployments, Backed(workers[w], d)
    PROVE  /\ workers[w].dep # d => CountersStay(d)
           /\ workers[w].dep = d =>
                /\ MaxDevices(d)' = MaxDevices(d)
                /\ deployments'[d].stats = StatsAfter(workers[w])
           /\ Complete(d) => Complete(d)'
<1>1. PICK job : job = workers[w]
  OBVIOUS
<1>2. /\ job.pc = "inc_stats" /\ job.new \in Statuses /\ job.old \in Statuses
      /\ job.old # job.new
  BY <1>1, JobFacts DEF UpdateStatsInc, At, JobOK
<1>3. deployments' = [deployments EXCEPT ![job.dep].stats = StatsAfter(job)]
  BY <1>1, IncIs
<1>4. deployments \in [Deployments -> DeploymentType]
  BY DEF IInv, TypeOK
<1>5. CASE job.dep # d
  <2>1. CountersStay(d)
    BY <1>3, <1>4, <1>5 DEF CountersStay
  <2> QED BY <1>1, <1>5, <2>1, CompleteSame
<1>6. CASE job.dep = d
  <2>1. PICK from, to, stats, after :
          from = job.old /\ to = job.new /\ stats = deployments[d].stats /\ after = StatsAfter(job)
    OBVIOUS
  <2>2. /\ deployments'[d].list = deployments[d].list /\ deployments'[d].stats = after
        /\ stats \in StatsType
    BY <1>3, <1>4, <1>6, <2>1 DEF DeploymentType
  <2>3. after = StatsInc(stats, from, to)
    BY <1>6, <2>1 DEF StatsAfter
  <2>4. from \in Statuses \ FinishedStatuses /\ to \in Statuses /\ from # to
    BY <1>1, <1>2, <1>6, <2>1 DEF Backed
  <2>5. /\ CountedOutcomes(stats) \in Int /\ CountedOutcomes(after) \in Int
        /\ CountedOutcomes(stats) <= CountedOutcomes(after)
    BY <2>2, <2>3, <2>4, OutcomesGrow
  <2>6. MaxDevices(d)' = MaxDevices(d) /\ MaxDevices(d) \in Nat
    BY <2>2, ListedBound DEF MaxDevices
  <2>7. Complete(d) => Complete(d)'
    BY <2>1, <2>2, <2>5, <2>6 DEF Complete
  <2> QED BY <1>1, <1>6, <2>1, <2>2, <2>6, <2>7
<1> QED BY <1>1, <1>5, <1>6

\* No step of a device leaves complete counters incomplete.
LEMMA CompleteStays ==
    ASSUME IInv, Ready, NEW w \in Workers, workers[w].kind \in DeviceKinds, Step(w),
           NEW d \in Deployments, Backed(workers[w], d), Complete(d)
    PROVE  Complete(d)'
<1>1. CASE UpdateStatsInc(w)
  BY <1>1, IncCompletes
<1>2. CASE ~UpdateStatsInc(w)
  BY <1>2, StepCountersStay, CompleteSame DEF Ready
<1> QED BY <1>1, <1>2

\* The status an update of a device finds is not an outcome, where nothing is aborted.
LEMMA UpdateFinds ==
    ASSUME IInv, Orderly, NoneAborted, NEW w \in Workers, Sure(workers[w]),
           workers[w].pc = "update_status", NEW i, Writes(workers[w], i)
    PROVE  docs[i].status \in ActiveStatuses
<1>1. PICK job, dev, d : job = workers[w] /\ dev = job.dev /\ d = job.dep
  OBVIOUS
<1>2. PICK k \in DOMAIN docs : Fresh(job, k)
  BY <1>1 DEF Sure
<1>3. k \in DocsOf(dev, d) /\ docs[k].status \in ActiveStatuses
  BY <1>1, <1>2 DEF Fresh, NoneAborted
<1>4. i \in DocsOf(dev, d)
  BY <1>1 DEF Writes, NotDeleted
<1>5. i = k
  BY <1>3, <1>4, OneDoc DEF Orderly
<1> QED BY <1>3, <1>5

\* Devices abort nothing.
LEMMA StepAbortsNone ==
    ASSUME IInv, NoneAborted, NEW w \in Workers, Routine(workers[w]),
           workers[w].kind \in DeviceKinds, Step(w)
    PROVE  NoneAborted'
<1>1. CASE ~InsertDeviceDeployment(w) /\ ~UpdateStatus(w)
  BY <1>1, StepStatusesStay DEF StatusesStay, NoneAborted
<1>2. CASE InsertDeviceDeployment(w)
  <2>1. workers[w].kind = "poll"
    BY <1>2 DEF InsertDeviceDeployment, At, Routine, ReportPCs, AfterPCs, AbortPCs
  <2>2. docs' = Append(docs, NewDoc(workers[w])) /\ docs \in Seq(DocType)
    BY <1>2, <2>1, InsertIs DEF IInv, TypeOK
  <2>3. PICK doc : doc = NewDoc(workers[w])
    OBVIOUS
  <2>4. doc.status = "pending"
    BY <2>3 DEF NewDoc
  <2> QED BY <2>2, <2>3, <2>4 DEF NoneAborted
<1>3. CASE UpdateStatus(w)
  <2>1. PICK job : job = workers[w]
    OBVIOUS
  <2>2. PICK next : UpdateWay(job, next)
    BY <1>3, <2>1, UpdateIs
  <2>3. CASE UNCHANGED docs
    BY <2>3 DEF NoneAborted
  <2>4. ASSUME NEW i, Writes(job, i)
        PROVE  NoneAborted'
    <3>1. job.new # "aborted"
      BY <2>1, JobFacts DEF KindOK, DeviceKinds
    <3>2. docs' = [docs EXCEPT ![i].status = job.new, ![i].active = Active(job.new)]
      BY <2>4 DEF Writes
    <3>3. docs \in Seq(DocType) /\ \A k \in DOMAIN docs : docs[k] \in DocType
      BY DocTyped DEF IInv, TypeOK
    <3>4. DOMAIN docs' = DOMAIN docs
      BY <3>2, <3>3
    <3>5. ASSUME NEW k \in DOMAIN docs PROVE docs'[k].status # "aborted"
      <4>1. CASE k = i
        BY <3>1, <3>2, <3>3, <3>5, <4>1 DEF DocType
      <4>2. CASE k # i
        BY <3>2, <3>3, <3>5, <4>2 DEF NoneAborted
      <4> QED BY <4>1, <4>2
    <3> QED BY <3>4, <3>5 DEF NoneAborted
  <2> QED BY <2>2, <2>3, <2>4 DEF UpdateWay
<1> QED BY <1>1, <1>2, <1>3

\* What a worker holds stays backed through a step of a device.
LEMMA StepBacked ==
    ASSUME IInv, Ready, Orderly, Honest, NoneAborted, NEW w \in Workers,
           workers[w].kind \in DeviceKinds, Step(w), NEW d \in Deployments, InTime(d),
           \A v \in Workers : Backed(workers[v], d)
    PROVE  \A v \in Workers : Backed(workers[v], d)'
<1>1. PICK job : job = workers[w]
  OBVIOUS
<1>2. PICK next : Continue(w, next) /\ Came(w, next.pc)
  BY DeviceGoesOn
<1>3. workers'[w] = next /\ \A v \in Workers \ {w} : workers'[v] = workers[v]
  BY <1>2, OthersStay
<1>4. Complete(d) => Complete(d)'
  BY CompleteStays
<1>5. \A other : Continue(w, other) => other = next
  BY <1>3, OthersStay
<1>6. Backed(job, d)
  BY <1>1
<1>7. Backed(next, d)'
  <2> SUFFICES ASSUME next.dep = d
               PROVE  /\ next.pc \in {"find_deployment", "inc_stats"} =>
                           next.old \notin FinishedStatuses
                      /\ next.pc = "inc_stats" /\ (next.was_finished \/ next.overall = "finished")
                           => Complete(d)'
                      /\ next.pc = "set_status" /\ next.overall = "finished" => Complete(d)'
    BY DEF Backed
  <2>1. CASE next.pc = "find_deployment"
    <3>1. UpdateStatus(w)
      BY <1>2, <2>1 DEF Came
    <3>2. UpdateWay(job, next) /\ job.pc = "update_status" /\ Sure(job)
      BY <1>1, <1>5, <3>1, UpdateIs DEF UpdateStatus, At, Honest
    <3>3. PICK i : Writes(job, i) /\ next.old = docs[i].status
      BY <2>1, <3>2 DEF UpdateWay, Answered, Passed, Over
    <3>4. next.old \in ActiveStatuses
      BY <1>1, <3>2, <3>3, UpdateFinds
    <3> QED BY <2>1, <3>4 DEF ActiveStatuses, FinishedStatuses
  <2>2. CASE next.pc = "inc_stats"
    <3>1. FindDeployment(w)
      BY <1>2, <2>2 DEF Came
    <3>2. FindDeploymentWay(job, next) /\ job.pc = "find_deployment"
      BY <1>1, <1>5, <3>1, FindDeploymentIs DEF FindDeployment, At
    <3>3. /\ job.dep = d /\ next.old = job.old
          /\ next.was_finished = deployments[d].finished
          /\ next.overall = OverallStatus(d)
      BY <3>2 DEF FindDeploymentWay, Keeps
    <3>4. next.old \notin FinishedStatuses
      BY <1>6, <3>2, <3>3 DEF Backed
    <3>5. OverallStatus(d) = "finished" => deployments[d].finished \/ Complete(d)
      BY DEF OverallStatus, GetStatus, IsFinished, Complete
    <3>6. deployments[d].finished => Complete(d)
      BY DEF InTime
    <3> QED BY <1>4, <2>2, <3>3, <3>4, <3>5, <3>6
  <2>3. CASE next.pc = "set_status"
    <3>1. UpdateStatsInc(w)
      BY <1>2, <2>3 DEF Came
    <3>2. IncWay(job, next) /\ job.pc = "inc_stats"
      BY <1>1, <1>5, <3>1, IncIs DEF UpdateStatsInc, At
    <3>3. job.dep = d /\ next.overall = OverallAfter(job)
      BY <2>3, <3>2 DEF IncWay, Keeps, Passed, Over, Answered
    <3>4. MaxDevices(d)' = MaxDevices(d) /\ deployments'[d].stats = StatsAfter(job)
      BY <1>1, <1>6, <3>1, <3>3, IncCompletes
    <3>5. OverallAfter(job) = "finished" => job.was_finished \/ Complete(d)'
      BY <3>3, <3>4 DEF OverallAfter, GetStatus, IsFinished, Complete
    <3>6. job.was_finished => Complete(d)
      BY <1>6, <3>2, <3>3 DEF Backed
    <3> QED BY <1>4, <2>3, <3>3, <3>5, <3>6
  <2> QED BY <2>1, <2>2, <2>3
<1>8. ASSUME NEW v \in Workers PROVE Backed(workers[v], d)'
  <2>1. PICK held : held = workers'[v]
    OBVIOUS
  <2>2. Backed(held, d)'
    <3>1. CASE v = w
      BY <1>3, <1>7, <2>1, <3>1
    <3>2. CASE v # w
      <4>1. held = workers[v]
        BY <1>3, <2>1, <3>2
      <4> QED BY <1>4, <4>1, BackedStays
    <3> QED BY <3>1, <3>2
  <2> QED BY <2>1, <2>2 DEF Backed
<1> QED BY <1>8

\* A deployment is finished in time after a step of a device.
LEMMA StepInTime ==
    ASSUME IInv, Ready, NEW w \in Workers, workers[w].kind \in DeviceKinds, Step(w),
           NEW d \in Deployments, InTime(d), Backed(workers[w], d)
    PROVE  InTime(d)'
<1>1. PICK job : job = workers[w]
  OBVIOUS
<1>2. PICK next : Continue(w, next)
  BY DeviceGoesOn
<1>3. workers'[w] = next /\ \A v \in Workers \ {w} : workers'[v] = workers[v]
  BY <1>2, OthersStay
<1>4. Complete(d) => Complete(d)'
  BY CompleteStays
<1>5. /\ deployments'[d].stage = deployments[d].stage
      /\ deployments[d].finished => deployments'[d].finished
  BY StepKeepsDeployments
<1>6. SetStatus(w) <=> job.pc = "set_status"
  BY <1>1 DEF Step, Respond, FindActive, FindInactive, FindNewer, FindExisting,
     InsertDeviceDeployment, IncrementDeviceCount, SaveRequest, Instructions,
     IncrementTotalSize, GetDeviceDeployment, UpdateStatus, FindDeployment, UpdateStatsInc,
     SetStatus, SaveLastStatus, CheckFinished, AbortDocs, Aggregate, UpdateStats, Finish,
     GetHistory, MarkDeleted, DeleteLast, At
<1>7. deployments \in [Deployments -> DeploymentType]
  BY DEF IInv, TypeOK
<1>8. ASSUME deployments'[d].finished
      PROVE  deployments'[d].stage # "none" /\ Complete(d)'
  <2>1. CASE deployments[d].finished
    BY <1>4, <1>5, <2>1 DEF InTime
  <2>2. CASE ~deployments[d].finished
    <3>1. SetStatus(w)
      <4>1. \/ UNCHANGED deployments \/ IncrementDeviceCount(w) \/ IncrementTotalSize(w)
            \/ UpdateStatsInc(w) \/ SetStatus(w)
        BY DeviceStep DEF Ready, Respond, FindActive, FindInactive, FindNewer, FindExisting,
           InsertDeviceDeployment, SaveRequest, Instructions, GetDeviceDeployment,
           UpdateStatus, FindDeployment, SaveLastStatus, ReadOnly
      <4>2. ~UNCHANGED deployments
        BY <1>8, <2>2
      <4>3. ~IncrementDeviceCount(w)
        BY <1>7, <1>8, <2>2 DEF IncrementDeviceCount, DeploymentType
      <4>4. ~IncrementTotalSize(w)
        BY <1>7, <1>8, <2>2 DEF IncrementTotalSize, DeploymentType
      <4>5. ~UpdateStatsInc(w)
        BY <1>7, <1>8, <2>2, IncIs DEF DeploymentType
      <4> QED BY <4>1, <4>2, <4>3, <4>4, <4>5
    <3>2. deployments' = WithStatus(job.dep, job.overall)
      BY <1>1, <3>1 DEF SetStatus
    <3>3. job.dep = d /\ job.overall = "finished"
      BY <1>7, <1>8, <2>2, <3>2 DEF WithStatus, DeploymentType
    <3>4. Complete(d)
      BY <1>1, <1>6, <3>1, <3>3 DEF Backed
    <3>5. Stored(d)
      BY <1>1, <3>3 DEF Ready, Refers
    <3> QED BY <1>4, <1>5, <3>4, <3>5 DEF Stored
  <2> QED BY <2>1, <2>2
<1>9. ASSUME deployments'[d].stage # "none", Complete(d)', ~deployments'[d].finished
      PROVE  Finishing(d)' # {}
  <2>1. CASE Complete(d)
    <3>1. PICK v \in Workers : workers[v].dep = d /\ workers[v].pc = "set_status"
                                 /\ workers[v].overall = "finished"
      BY <1>5, <1>9, <2>1 DEF InTime, Finishing
    <3>2. v # w
      <4> SUFFICES ASSUME v = w PROVE FALSE
        OBVIOUS
      <4>1. deployments' = WithStatus(d, "finished")
        BY <1>1, <1>6, <3>1 DEF SetStatus
      <4> QED BY <1>7, <1>9, <4>1 DEF WithStatus, DeploymentType
    <3>3. workers'[v] = workers[v]
      BY <1>3, <3>2
    <3>4. v \in Finishing(d)'
      BY <3>1, <3>3 DEF Finishing
    <3> QED BY <3>4
  <2>2. CASE ~Complete(d)
    <3>1. ~CountersStay(d)
      BY <1>9, <2>2, CompleteSame
    <3>2. UpdateStatsInc(w)
      BY <3>1, StepCountersStay DEF Ready
    <3>3. job.dep = d /\ MaxDevices(d)' = MaxDevices(d) /\ deployments'[d].stats = StatsAfter(job)
      BY <1>1, <3>1, <3>2, IncCompletes
    <3>4. OverallAfter(job) = "finished"
      BY <1>9, <3>3 DEF OverallAfter, GetStatus, IsFinished, Complete
    <3>5. job.overall # "finished"
      BY <1>1, <2>2, <3>2, <3>3 DEF Backed, UpdateStatsInc, At
    <3>6. IncWay(job, next)
      BY <1>1, <1>2, <1>3, <3>2, IncIs, OthersStay
    <3>7. next.dep = d /\ next.pc = "set_status" /\ next.overall = "finished"
      BY <3>3, <3>4, <3>5, <3>6 DEF IncWay, Keeps
    <3>8. w \in Finishing(d)'
      BY <1>3, <3>7 DEF Finishing
    <3> QED BY <3>8
  <2> QED BY <2>1, <2>2
<1> QED BY <1>8, <1>9 DEF InTime

\* Nothing about a deployment changes that is neither built nor worked on.
LEMMA TroubleFree ==
    ASSUME NEW d, InTime(d), \A w \in Workers : Backed(workers[w], d),
           CountersStay(d), deployments'[d].finished = deployments[d].finished,
           deployments'[d].stage = "none" <=> deployments[d].stage = "none",
           \A w \in Workers :
             \/ workers'[w] = workers[w]
             \/ workers[w].pc = "idle" /\
                  workers'[w].pc \notin {"find_deployment", "inc_stats", "set_status"}
    PROVE  InTime(d)' /\ \A w \in Workers : Backed(workers[w], d)'
<1>1. Complete(d)' <=> Complete(d)
  BY CompleteSame
<1>2. Finishing(d)' = Finishing(d)
  BY DEF Finishing
<1>3. ASSUME NEW w \in Workers PROVE Backed(workers[w], d)'
  <2>1. PICK held : held = workers'[w]
    OBVIOUS
  <2>2. Backed(held, d)'
    BY <1>1, <2>1 DEF Backed
  <2> QED BY <2>1, <2>2 DEF Backed
<1> QED BY <1>1, <1>2, <1>3 DEF InTime

\* A deployment that is built, or stored, is not finished.
LEMMA CreateUntroubled ==
    ASSUME IInv, Ready, Create, Untroubled
    PROVE  Untroubled'
<1>1. UNCHANGED <<docs, workers>>
  BY CreateKeepsDeployments DEF Create, BuildDeployment, InsertDeployment
<1>2. NoneAborted'
  BY <1>1 DEF Untroubled, NoneAborted
<1>3. ASSUME NEW d \in Deployments
      PROVE  InTime(d)' /\ \A w \in Workers : Backed(workers[w], d)'
  <2>1. InTime(d) /\ (\A w \in Workers : Backed(workers[w], d)) /\ deployments[d] \in DeploymentType
    BY DEF Untroubled, IInv, TypeOK
  <2>2. CASE deployments'[d] = deployments[d]
    BY <1>1, <2>1, <2>2, TroubleFree DEF CountersStay
  <2>3. ASSUME deployments[d].stage = "none", NEW list \in DeviceLists,
               deployments'[d] = [deployments[d] EXCEPT !.stage = "built", !.list = list,
                                        !.stats = InitialStats(Len(list))]
        PROVE  InTime(d)' /\ \A w \in Workers : Backed(workers[w], d)'
    <3> DEFINE stats == InitialStats(Len(list))
    <3>1. CountedOutcomes(stats) = 0
      BY DEF CountedOutcomes, InitialStats, NewStats, Statuses, ActiveStatuses, FinishedStatuses
    <3> HIDE DEF stats
    <3>2. /\ deployments'[d].list = list /\ deployments'[d].stats = stats
          /\ deployments'[d].finished = deployments[d].finished
      BY <2>1, <2>3 DEF DeploymentType, stats
    <3>3. Len(list) \in Nat
      BY <2>3, ListsAssumption
    <3>4. ~Complete(d)'
      BY <3>1, <3>2, <3>3 DEF Complete, MaxDevices
    <3>5. InTime(d)'
      BY <2>1, <2>3, <3>2, <3>4 DEF InTime
    <3>6. \A w \in Workers : workers'[w].dep # d
      BY <1>1, <2>3 DEF Ready, Refers, Stored
    <3> QED BY <3>5, <3>6 DEF Backed
  <2>4. CASE /\ deployments[d].stage = "built"
             /\ deployments'[d] = [deployments[d] EXCEPT !.stage = "stored", !.active = TRUE]
    <3>1. /\ deployments'[d].list = deployments[d].list
          /\ deployments'[d].stats = deployments[d].stats
          /\ deployments'[d].finished = deployments[d].finished
          /\ deployments'[d].stage = "stored"
      BY <2>1, <2>4 DEF DeploymentType
    <3> QED BY <1>1, <2>1, <2>4, <3>1, TroubleFree DEF CountersStay
  <2> QED BY <2>2, <2>3, <2>4, CreateKeepsDeployments
<1> QED BY <1>2, <1>3 DEF Untroubled

\* Every step keeps all of this true, as long as only devices act and nothing fails.
LEMMA NextDInv ==
    ASSUME PerDevice = 1, Obedient = TRUE
    PROVE  DInv /\ [Next]_vars => DInv'
<1> SUFFICES ASSUME DInv, [Next]_vars, Undisturbed' PROVE Untroubled'
  BY NextCInv, NextAcctInv DEF DInv
<1>1. Undisturbed /\ IInv /\ Ready /\ Orderly /\ Honest /\ Untroubled
  BY Before DEF DInv, CInv, OInv, RInv, AInv, Calm, Plain, Undisturbed
<1>2. CASE Create
  BY <1>1, <1>2, CreateUntroubled
<1>3. CASE UNCHANGED vars
  <2>1. NoneAborted'
    BY <1>1, <1>3 DEF vars, Untroubled, NoneAborted
  <2>2. ASSUME NEW d \in Deployments
        PROVE  InTime(d)' /\ \A w \in Workers : Backed(workers[w], d)'
    BY <1>1, <1>3, TroubleFree DEF vars, Untroubled, CountersStay
  <2> QED BY <2>1, <2>2 DEF Untroubled
<1>4. ASSUME NEW w \in Workers, Request(w)
      PROVE  Untroubled'
  <2>1. /\ workers[w].pc = "idle" /\ UNCHANGED <<deployments, docs>>
        /\ \E next : /\ Continue(w, next)
                     /\ PollArrives(next) \/ ReportArrives(next) \/ AbortArrives(next)
    BY <1>1, <1>4, RequestIs DEF Plain, Undisturbed
  <2>2. PICK next : /\ Continue(w, next)
                    /\ PollArrives(next) \/ ReportArrives(next) \/ AbortArrives(next)
    BY <2>1
  <2>3. next.pc \notin {"find_deployment", "inc_stats", "set_status"}
    BY <2>2, PollArrivesIs, ReportArrivesIs, AbortArrivesIs
  <2>4. \A v \in Workers :
          \/ workers'[v] = workers[v]
          \/ workers[v].pc = "idle" /\
               workers'[v].pc \notin {"find_deployment", "inc_stats", "set_status"}
    BY <1>1, <2>1, <2>2, <2>3, OthersStay
  <2>5. NoneAborted'
    BY <1>1, <2>1 DEF Untroubled, NoneAborted
  <2>6. ASSUME NEW d \in Deployments
        PROVE  InTime(d)' /\ \A v \in Workers : Backed(workers[v], d)'
    BY <1>1, <2>1, <2>4, TroubleFree DEF Untroubled, CountersStay
  <2> QED BY <2>5, <2>6 DEF Untroubled
<1>5. ASSUME NEW w \in Workers, Fail(w)
      PROVE  FALSE
  BY <1>1, <1>5, FailIs DEF Ready, Undisturbed
<1>6. ASSUME NEW w \in Workers, Step(w)
      PROVE  Untroubled'
  <2>1. workers[w].kind \in DeviceKinds
    BY <1>1, <1>6, StepAt DEF Ready, Routine, Undisturbed, DeviceKinds
  <2>2. NoneAborted'
    BY <1>1, <1>6, <2>1, StepAbortsNone DEF Ready, Untroubled
  <2>3. ASSUME NEW d \in Deployments
        PROVE  InTime(d)' /\ \A v \in Workers : Backed(workers[v], d)'
    BY <1>1, <1>6, <2>1, StepInTime, StepBacked DEF Untroubled
  <2> QED BY <2>2, <2>3 DEF Untroubled
<1> QED BY <1>2, <1>3, <1>4, <1>5, <1>6 DEF Next

\* Nothing is amiss when the service starts.
LEMMA InitDInv == Init => DInv
<1> SUFFICES ASSUME Init PROVE DInv
  OBVIOUS
<1>1. /\ \A d \in Deployments : deployments[d].stage = "none" /\ deployments[d].finished = FALSE
      /\ docs = <<>> /\ workers = [w \in Workers |-> Idle]
      /\ \A dev \in Devices : devices[dev].dep = 0
  BY DEF Init
<1>2. RInv
  BY InitRInv
<1>3. \A w \in Workers : workers[w].pc = "idle" /\ workers[w].kind = "none" /\ workers[w].dep = 0
  BY <1>1 DEF Idle
<1>4. Orderly
  BY <1>1, <1>3 DEF Orderly, Alone, AllListed, DeliveredInOrder, DeviceKinds
<1>5. Honest
  BY <1>1, <1>3 DEF Honest, Carrying, DeviceKinds
<1>6. Untroubled
  BY <1>1, <1>3 DEF Untroubled, NoneAborted, InTime, Backed
<1> QED BY <1>1, <1>2, <1>4, <1>5, <1>6 DEF DInv, CInv, OInv, AcctInv

\* While only devices act, every device is done in a deployment whose counters are complete.
LEMMA CountedIsDone ==
    ASSUME DInv, Undisturbed, NEW d \in Deployments, deployments[d].stage # "none", Complete(d)
    PROVE  AllDone(d)
<1>1. IInv /\ Ready /\ Orderly /\ \A w \in Workers : Backed(workers[w], d)
  BY DEF DInv, Untroubled, CInv, OInv, RInv, AInv, Undisturbed, Plain
<1>2. Acct(d)
  BY DEF DInv, AcctInv
<1>3. \A st \in FinishedStatuses : Leaving(d, st) = {}
  BY <1>1 DEF Leaving, Adjusting, Backed
<1> QED BY <1>1, <1>2, <1>3, CompleteIsDone

\* A deployment only devices worked on gets its finish time when all its devices are done,
\* and they stay done (FinishedMeansDone): with devices that send one request at a time and
\* report on what they were given, any number of them at once.
THEOREM FinishedOnlyWhenDone ==
    ASSUME PerDevice = 1, Obedient = TRUE
    PROVE  Spec => []FinishedMeansDone
<1>1. ASSUME DInv, Undisturbed, NEW d \in Deployments, deployments[d].finished
      PROVE  \A dev \in Listed(d) : \E i \in DocsOf(dev, d) : docs[i].status \in FinishedStatuses
  <2>1. InTime(d)
    BY <1>1 DEF DInv, Untroubled
  <2>2. AllDone(d)
    BY <1>1, <2>1, CountedIsDone DEF InTime
  <2> QED BY <2>2 DEF AllDone
<1>2. DInv => FinishedMeansDone
  BY <1>1 DEF FinishedMeansDone
<1> QED BY <1>2, InitDInv, NextDInv, PTL DEF Spec

\* The list of a deployment is one that was submitted.
Submitted == \A d \in Deployments : deployments[d].stage # "none" => deployments[d].list \in DeviceLists

\* Every step keeps that.
LEMMA NextSubmitted == IInv /\ Submitted /\ [Next]_vars => Submitted'
<1> SUFFICES ASSUME IInv, Submitted, [Next]_vars, NEW d \in Deployments,
                    deployments'[d].stage # "none"
             PROVE  deployments'[d].list \in DeviceLists
  BY DEF Submitted
<1>1. deployments[d] \in DeploymentType /\ (deployments[d].stage # "none" =>
        deployments[d].list \in DeviceLists)
  BY DEF IInv, TypeOK, Submitted
<1>2. CASE deployments[d].stage # "none"
  BY <1>1, <1>2, StoredStays
<1>3. CASE deployments[d].stage = "none" /\ Create
  BY <1>1, <1>3, CreateKeepsDeployments DEF DeploymentType
<1>4. CASE deployments[d].stage = "none" /\ ~Create
  <2>1. ASSUME NEW w \in Workers, Step(w) PROVE FALSE
    BY <1>4, <2>1, StepKeepsDeployments
  <2>2. ASSUME NEW w \in Workers, Request(w) \/ Fail(w) PROVE UNCHANGED deployments
    BY <2>2 DEF Request, StartPoll, StartReport, StartAbort, StartDeviceWide,
       StartDeleteHistory, StartAdmin, Arrive, Fail
  <2>3. UNCHANGED deployments
    BY <1>4, <2>1, <2>2 DEF Next, vars
  <2> QED BY <1>4, <2>3
<1> QED BY <1>2, <1>3, <1>4

\* A deployment whose devices are all done has its finish time once the workers on it are
\* done (DoneMeansFinished), when no list names a device twice: the limit of a deployment
\* is the length of its list, and a device named twice has one device deployment.
THEOREM FinishedWhenDone ==
    ASSUME PerDevice = 1, Obedient = TRUE,
           \A list \in DeviceLists : \A i, j \in DOMAIN list : list[i] = list[j] => i = j
    PROVE  Spec => []DoneMeansFinished
<1>1. ASSUME DInv, Submitted, Undisturbed, NEW d \in Deployments, Stored(d), Updating(d) = {},
             \A dev \in Listed(d) : \E i \in DocsOf(dev, d) : docs[i].status \in FinishedStatuses
      PROVE  deployments[d].finished
  <2>1. IInv /\ Ready /\ InTime(d)
    BY <1>1 DEF DInv, Untroubled, CInv, OInv, RInv, AInv, Undisturbed, Plain
  <2>2. PICK list \in DeviceLists : list = deployments[d].list
    BY <1>1 DEF Submitted, Stored
  <2>3. Cardinality(Listed(d)) = MaxDevices(d)
    BY <2>1, <2>2, ListedAll
  <2>4. MaxDevices(d) > 0
    <3>1. list \in Seq(Devices) /\ list # <<>>
      BY ListsAssumption
    <3>2. Len(list) \in Nat /\ Len(list) # 0
      BY <3>1
    <3> QED BY <2>2, <3>2 DEF MaxDevices
  <2>5. Adjusting(d) = {} /\ Finishing(d) = {}
    BY <1>1 DEF Updating, Adjusting, Finishing
  <2>6. AllDone(d)
    BY <1>1 DEF AllDone
  <2>7. Acct(d)
    BY <1>1 DEF DInv, AcctInv, Stored
  <2>8. Complete(d)
    BY <2>1, <2>3, <2>4, <2>5, <2>6, <2>7, DoneIsComplete
  <2> QED BY <1>1, <2>1, <2>5, <2>8 DEF InTime, Stored
<1>2. DInv /\ Submitted => DoneMeansFinished
  BY <1>1 DEF DoneMeansFinished
<1>3. Init => DInv /\ Submitted
  BY InitDInv DEF Init, Submitted
<1>4. DInv /\ Submitted /\ [Next]_vars => (DInv /\ Submitted)'
  <2>1. DInv => IInv
    BY DEF DInv, CInv, OInv, RInv, AInv
  <2> QED BY <2>1, NextDInv, NextSubmitted
<1> QED BY <1>2, <1>3, <1>4, PTL DEF Spec

---------------------------------------------------------------------------
(* A settled deployment stays as it is.                                     *)

\* Where a request neither acts on a copy of a deployment nor is about to write to it.
FreePCs == {"idle", "respond", "get_dd", "check_finished", "find_newer"}

Holds(job, d) == job.dep = d /\ job.pc \notin FreePCs

\* A deployment and its device deployments are left alone.
LeftAlone(d) ==
    /\ deployments'[d] = deployments[d]
    /\ \A i \in DOMAIN docs :
         i \in DOMAIN docs' /\ docs'[i].dep = docs[i].dep /\ (docs[i].dep = d => docs'[i] = docs[i])
    /\ \A i \in DOMAIN docs' \ DOMAIN docs : docs'[i].dep # d

\* A request that does not hold a deployment does not write to it.
LEMMA OtherDeploymentsStay ==
    ASSUME IInv, NEW w \in Workers, Step(w), NEW d \in Deployments, ~Holds(workers[w], d)
    PROVE  deployments'[d] = deployments[d]
<1>0. deployments \in [Deployments -> DeploymentType]
  BY DEF IInv, TypeOK
<1>1. CASE UNCHANGED deployments
  BY <1>1
<1>2. CASE IncrementDeviceCount(w)
  BY <1>0, <1>2 DEF IncrementDeviceCount, At, Holds, FreePCs
<1>3. CASE IncrementTotalSize(w)
  BY <1>0, <1>3 DEF IncrementTotalSize, At, Holds, FreePCs
<1>4. CASE UpdateStatsInc(w)
  BY <1>0, <1>4 DEF UpdateStatsInc, At, Holds, FreePCs
<1>5. CASE UpdateStats(w)
  BY <1>0, <1>5 DEF UpdateStats, At, Holds, FreePCs
<1>6. CASE SetStatus(w) \/ Finish(w)
  BY <1>0, <1>6 DEF SetStatus, Finish, WithStatus, At, Holds, FreePCs
<1>7. \/ UNCHANGED deployments
      \/ IncrementDeviceCount(w) \/ IncrementTotalSize(w) \/ UpdateStatsInc(w)
      \/ UpdateStats(w) \/ SetStatus(w) \/ Finish(w)
  BY DEF Step, Respond, FindActive, FindInactive, FindNewer, FindExisting,
     InsertDeviceDeployment, SaveRequest, Instructions, GetDeviceDeployment, UpdateStatus,
     FindDeployment, SaveLastStatus, CheckFinished, AbortDocs, Aggregate, GetHistory,
     MarkDeleted, DeleteLast, ReadOnly
<1> QED BY <1>1, <1>2, <1>3, <1>4, <1>5, <1>6, <1>7

\* A request that does not hold a deployment leaves it alone.
LEMMA OthersLeaveAlone ==
    ASSUME IInv, NEW w \in Workers, Routine(workers[w]), Step(w), NEW d \in Deployments,
           ~Holds(workers[w], d),
           workers[w].pc = "save_request" =>
             workers[w].doc \in DocsOf(workers[w].dev, workers[w].dep)
    PROVE  LeftAlone(d)
<1> DEFINE job == workers[w]
<1>2. docs \in Seq(DocType) /\ \A i \in DOMAIN docs : docs[i] \in DocType
  BY DocTyped DEF IInv, TypeOK
<1>3. deployments'[d] = deployments[d]
  BY OtherDeploymentsStay
<1>4. /\ \A i \in DOMAIN docs : i \in DOMAIN docs' /\ docs'[i].dep = docs[i].dep
      /\ \/ DOMAIN docs' = DOMAIN docs
         \/ /\ InsertDeviceDeployment(w) /\ workers[w].kind = "poll"
            /\ docs' = Append(docs, NewDoc(workers[w]))
  BY DocsAfter
<1>5. ASSUME NEW i \in DOMAIN docs' \ DOMAIN docs
      PROVE  docs'[i].dep # d
  <2>1. /\ InsertDeviceDeployment(w) /\ docs' = Append(docs, NewDoc(job))
    BY <1>4, <1>5
  <2>2. job.dep # d
    BY <2>1 DEF InsertDeviceDeployment, At, Holds, FreePCs
  <2>3. PICK new : new = NewDoc(job)
    OBVIOUS
  <2>4. docs' = Append(docs, new) /\ new.dep # d
    BY <2>1, <2>2, <2>3 DEF NewDoc
  <2>5. docs'[i] = new
    BY <1>2, <1>5, <2>4
  <2> QED BY <2>4, <2>5
<1>6. ASSUME NEW i \in DOMAIN docs, docs[i].dep = d
      PROVE  docs'[i] = docs[i]
  <2>1. CASE UNCHANGED docs
    BY <2>1
  <2>2. CASE InsertDeviceDeployment(w)
    <3>1. PICK new : docs' = Append(docs, new)
      BY <2>2 DEF InsertDeviceDeployment
    <3> QED BY <1>2, <1>6, <3>1
  <2>3. CASE SaveRequest(w) /\ ~UNCHANGED docs
    <3>1. docs' = [docs EXCEPT ![job.doc].request = job.req] /\ job.pc = "save_request"
      BY <2>3 DEF SaveRequest, At
    <3>2. docs[job.doc].dep # d
      BY <3>1 DEF Holds, FreePCs, DocsOf
    <3> QED BY <1>2, <1>6, <3>1, <3>2
  <2>4. CASE Instructions(w) /\ ~UNCHANGED docs
    <3>1. PICK j \in NotDeleted(DocsOf(job.dev, job.dep)) : docs' = [docs EXCEPT ![j].image = TRUE]
      BY <2>4 DEF Instructions
    <3>2. docs[j].dep # d
      BY <2>4, <3>1 DEF Holds, FreePCs, NotDeleted, DocsOf, Instructions, At
    <3> QED BY <1>2, <1>6, <3>1, <3>2
  <2>5. CASE UpdateStatus(w) /\ ~UNCHANGED docs
    <3>1. PICK j \in NotDeleted(DocsOf(job.dev, job.dep)) :
            docs' = [docs EXCEPT ![j].status = job.new, ![j].active = Active(job.new)]
      BY <2>5 DEF UpdateStatus
    <3>2. docs[j].dep # d
      BY <2>5, <3>1 DEF Holds, FreePCs, NotDeleted, DocsOf, UpdateStatus, At
    <3> QED BY <1>2, <1>6, <3>1, <3>2
  <2>6. CASE AbortDocs(w)
    BY <1>2, <1>6, <2>6 DEF AbortDocs, At, Holds, FreePCs
  <2>7. ~MarkDeleted(w)
    BY DEF MarkDeleted, At, Routine, PollPCs, DevicePCs, ReportPCs, AfterPCs, AbortPCs
  <2>8. \/ UNCHANGED docs \/ InsertDeviceDeployment(w) \/ UpdateStatus(w)
        \/ AbortDocs(w) \/ SaveRequest(w) \/ Instructions(w)
    BY <2>7 DEF Step, Respond, FindActive, FindInactive, FindNewer, FindExisting,
       IncrementDeviceCount, IncrementTotalSize,
       GetDeviceDeployment, FindDeployment, UpdateStatsInc, SetStatus, SaveLastStatus,
       CheckFinished, Aggregate, UpdateStats, Finish, GetHistory, DeleteLast, ReadOnly
  <2> QED BY <2>1, <2>2, <2>3, <2>4, <2>5, <2>6, <2>8
<1> QED BY <1>3, <1>4, <1>5, <1>6 DEF LeftAlone

\* A report on a settled deployment is refused: its device deployment was aborted, else
\* the device would have heard how it ended.
LEMMA ReportsLetGo ==
    ASSUME IInv, Orderly, Honest, \A i \in DOMAIN docs : Consistent(docs[i]),
           NEW w \in Workers, workers[w].kind = "report", GetDeviceDeployment(w),
           NEW d \in Deployments, \A i \in InDeployment(d) : ~docs[i].active
    PROVE  \E next : Continue(w, next) /\ ~Holds(next, d)
<1> DEFINE job == workers[w]
<1>1. PICK next : Continue(w, next) /\ GetWay(job, next)
  BY GetIs
<1>2. CASE Answered(job, next, job.new, "refused")
  BY <1>1, <1>2 DEF Answered, Holds, FreePCs
<1>3. ASSUME NEW i \in NotDeleted(DocsOf(job.dev, job.dep)), NEW with \in WorkerType,
             Keeps(job, with), with.new = job.new, with.cur = docs[i].status,
             Begun(with, job.new, next)
      PROVE  ~Holds(next, d)
  <2> SUFFICES ASSUME Holds(next, d) PROVE FALSE
    OBVIOUS
  <2>1. /\ next.pc = "update_status" /\ Keeps(with, next)
        /\ docs[i].status \notin {"aborted", "decommissioned"}
    BY <1>3 DEF Begun, Answered, Holds, FreePCs
  <2>2. job.dep = d
    BY <1>3, <2>1 DEF Keeps, Holds
  <2>3. PICK dev \in Devices : dev = job.dev /\ devices[dev].dep = d
    BY <2>2 DEF Honest, Sure, DeviceKinds
  <2>4. d # 0
    BY NumDeploymentsAssumption DEF Deployments
  <2>5. PICK j \in DocsOf(dev, d) : docs[j].status \in OpenStatuses \/ Closing(dev, d)
    BY <2>3, <2>4 DEF Honest, Carrying
  <2>6. ~Closing(dev, d)
    <3> SUFFICES ASSUME NEW v \in Workers, workers[v].kind \in DeviceKinds,
                        workers[v].dev = dev, Closes(workers[v], d)
                 PROVE  FALSE
      BY DEF Closing
    <3>1. v = w
      BY <2>3 DEF Orderly, Alone, DeviceKinds
    <3> QED BY <3>1 DEF Closes, GetDeviceDeployment, At, AfterPCs
  <2>7. i \in DocsOf(dev, d)
    BY <1>3, <2>2, <2>3 DEF NotDeleted
  <2>8. i = j
    BY <2>5, <2>7, OneDoc DEF Orderly
  <2>9. ~docs[i].active /\ docs[i].status \in ActiveStatuses
    BY <2>1, <2>5, <2>6, <2>7, <2>8 DEF OpenStatuses, InDeployment, DocsOf
  <2> QED BY <2>7, <2>9 DEF Consistent, Active, DocsOf
<1> QED BY <1>1, <1>2, <1>3 DEF GetWay

\* No request that goes on comes to hold a settled deployment.
LEMMA NobodyTakesUp ==
    ASSUME IInv, Ready, Orderly, Honest, \A i \in DOMAIN docs : Consistent(docs[i]),
           NEW w \in Workers, Step(w), NEW d \in Deployments, Settled(d)
    PROVE  \E next : Continue(w, next) /\ ~Holds(next, d)
<1> DEFINE job == workers[w]
           Goal == \E next : Continue(w, next) /\ ~Holds(next, d)
<1>1. Routine(job) /\ job.pc # "idle"
  BY StepAt DEF Ready
<1>2. /\ deployments[d].finished /\ ~deployments[d].active
      /\ \A i \in InDeployment(d) : ~docs[i].active
      /\ ~Holds(job, d)
  BY DEF Settled, Holding, Holds, FreePCs
<1>3. CASE job.kind \notin DeviceKinds
  <2>1. job.pc \in AbortPCs
    BY <1>1, <1>3 DEF Routine, DeviceKinds
  <2>2. CASE job.dep = d
    <3>1. job.pc = "check_finished"
      BY <1>2, <2>1, <2>2 DEF Holds, FreePCs, AbortPCs
    <3>2. CheckFinished(w)
      BY <3>1 DEF Step, Respond, FindActive, FindInactive, FindNewer, FindExisting,
         InsertDeviceDeployment, IncrementDeviceCount, SaveRequest, Instructions,
         IncrementTotalSize, GetDeviceDeployment, UpdateStatus, FindDeployment, UpdateStatsInc,
         SetStatus, SaveLastStatus, AbortDocs, Aggregate, UpdateStats, Finish,
         GetHistory, MarkDeleted, DeleteLast, At
    <3>3. Continue(w, Idle)
      BY <1>2, <2>2, <3>2 DEF CheckFinished
    <3>4. ~Holds(Idle, d)
      BY DEF Idle, Holds, FreePCs
    <3> QED BY <3>3, <3>4
  <2>3. CASE job.dep # d
    <3>1. PICK next : Continue(w, next) /\ AbortWay(job, next)
      BY <2>1, AbortIs
    <3>2. ~Holds(next, d)
      BY <2>3, <3>1 DEF AbortWay, Holds, Idle, FreePCs
    <3> QED BY <3>1, <3>2
  <2> QED BY <2>2, <2>3
<1>4. CASE Respond(w)
  <2>1. Continue(w, Idle) /\ ~Holds(Idle, d)
    BY <1>4 DEF Respond, Idle, Holds, FreePCs
  <2> QED BY <2>1
<1>5. CASE job.kind = "poll" /\ FindActive(w)
  <2>1. PICK next : Continue(w, next) /\ FindActiveWay(job, next)
    BY <1>5, FindActiveIs
  <2>2. job.dep # d
    BY <1>2, <1>5 DEF FindActive, At, Holds, FreePCs
  <2>3. \A i \in OldestActive(job.dev) : docs[i].dep # d
    BY <1>2 DEF OldestActive, DeviceDocs, NotDeleted, InDeployment
  <2>4. ~Holds(next, d)
    BY <2>1, <2>2, <2>3 DEF FindActiveWay, Holds
  <2> QED BY <2>1, <2>4
<1>6. CASE FindInactive(w)
  <2>1. PICK next : Continue(w, next) /\ next.pc = "find_newer"
    BY <1>6, FindInactiveIs DEF FindInactiveWay
  <2> QED BY <2>1 DEF Holds, FreePCs
<1>7. CASE job.kind = "poll" /\ FindNewer(w)
  <2>1. PICK next : Continue(w, next) /\ FindNewerWay(job, next)
    BY <1>7, FindNewerIs
  <2>2. d \notin NewerActive(job.dev, job.after)
    BY <1>2 DEF NewerActive
  <2>3. ~Holds(next, d)
    BY <2>1, <2>2 DEF FindNewerWay, Answered, Holds, FreePCs
  <2> QED BY <2>1, <2>3
<1>8. CASE job.kind = "report" /\ GetDeviceDeployment(w)
  BY <1>2, <1>8, ReportsLetGo
<1>9. ASSUME NEW next, Continue(w, next), next.dep = job.dep \/ next.pc = "respond",
             job.pc \notin FreePCs
      PROVE  Goal
  BY <1>2, <1>9 DEF Holds, FreePCs
<1>10. CASE job.kind \in DeviceKinds /\ FindExisting(w)
  BY <1>9, <1>10, FindExistingIs DEF FindExistingWay, Keeps, FindExisting, At, FreePCs
<1>11. CASE job.kind = "poll" /\ InsertDeviceDeployment(w)
  BY <1>9, <1>11, InsertIs DEF InsertWay, Keeps, InsertDeviceDeployment, At, FreePCs
<1>12. CASE job.kind = "poll" /\ IncrementDeviceCount(w)
  BY <1>9, <1>12, CountIs DEF Keeps, IncrementDeviceCount, At, FreePCs
<1>13. \A st, next : Begun(job, st, next) => next.dep = job.dep
  BY DEF Begun, Answered, Keeps
<1>14. CASE job.kind \in DeviceKinds /\ SaveRequest(w)
  BY <1>9, <1>13, <1>14, SaveRequestIs DEF SaveRequestWay, Keeps, SaveRequest, At, FreePCs
<1>15. CASE job.kind \in DeviceKinds /\ Instructions(w)
  <2>1. PICK next : /\ Continue(w, next)
                    /\ InstructionsWay(job, next) \/ Assigning(job, next)
    BY <1>15, InstructionsIs
  <2>2. next.dep = job.dep
    BY <1>13, <2>1 DEF InstructionsWay, Assigning, InstructedBy, Answered, Keeps
  <2> QED BY <1>9, <1>15, <2>1, <2>2 DEF Instructions, At, FreePCs
<1>16. CASE IncrementTotalSize(w)
  BY <1>9, <1>16, TotalSizeIs DEF Answered, IncrementTotalSize, At, FreePCs
<1>17. \A next : Passed(job, next) \/ Over(job, next) => next.dep = job.dep
  BY DEF Passed, Over, Answered, Keeps
<1>18. CASE job.kind \in DeviceKinds /\ UpdateStatus(w)
  BY <1>9, <1>17, <1>18, UpdateIs DEF UpdateWay, Answered, Keeps, UpdateStatus, At, FreePCs
<1>19. CASE FindDeployment(w)
  BY <1>9, <1>19, FindDeploymentIs DEF FindDeploymentWay, Keeps, FindDeployment, At, FreePCs
<1>20. CASE job.kind \in DeviceKinds /\ UpdateStatsInc(w)
  BY <1>9, <1>17, <1>20, IncIs DEF IncWay, Keeps, UpdateStatsInc, At, FreePCs
<1>21. CASE job.kind \in DeviceKinds /\ SetStatus(w)
  BY <1>9, <1>17, <1>21, SetStatusIs DEF SetStatus, At, FreePCs
<1>22. CASE job.kind \in DeviceKinds /\ SaveLastStatus(w)
  BY <1>9, <1>17, <1>22, SaveLastIs DEF SaveLastStatus, At, FreePCs
<1>23. CASE job.kind \in DeviceKinds
  <2>1. \/ Respond(w)
        \/ /\ job.kind = "poll"
           /\ \/ FindActive(w) \/ FindInactive(w) \/ FindNewer(w) \/ FindExisting(w)
              \/ InsertDeviceDeployment(w) \/ IncrementDeviceCount(w)
              \/ SaveRequest(w) \/ Instructions(w) \/ IncrementTotalSize(w)
        \/ job.kind = "report" /\ GetDeviceDeployment(w)
        \/ UpdateStatus(w) \/ FindDeployment(w) \/ UpdateStatsInc(w)
        \/ SetStatus(w) \/ SaveLastStatus(w)
    BY <1>1, <1>23, DeviceStep
  <2> QED BY <1>4, <1>5, <1>6, <1>7, <1>8, <1>10, <1>11, <1>12, <1>14, <1>15, <1>16, <1>18,
             <1>19, <1>20, <1>21, <1>22, <1>23, <2>1
<1> QED BY <1>3, <1>23

\* A finish time is that of a stored deployment, and no request was cut short.
FinishedStored ==
    /\ failures = 0
    /\ \A d \in Deployments : deployments[d].finished => Stored(d)

\* Every step keeps that, where requests are not cut short.
LEMMA NextFinishedStored ==
    ASSUME MaxFailures = 0
    PROVE  IInv /\ Ready /\ FinishedStored /\ [Next]_vars => FinishedStored'
<1> SUFFICES ASSUME IInv, Ready, FinishedStored, [Next]_vars PROVE FinishedStored'
  OBVIOUS
<1>1. deployments \in [Deployments -> DeploymentType]
  BY DEF IInv, TypeOK
<1>2. CASE UNCHANGED vars
  BY <1>2 DEF vars, FinishedStored, Stored
<1>3. CASE Create
  <2>1. ASSUME NEW d \in Deployments, deployments'[d].finished
        PROVE  deployments'[d].stage = "stored"
    <3>1. deployments[d].finished
      BY <1>1, <1>3, <2>1, CreateKeepsDeployments DEF DeploymentType
    <3>2. Stored(d)
      BY <3>1 DEF FinishedStored
    <3> QED BY <3>2, StoredStays DEF Stored
  <2>2. failures' = failures
    BY <1>3 DEF Create, BuildDeployment, InsertDeployment
  <2> QED BY <2>1, <2>2 DEF FinishedStored, Stored
<1>4. ASSUME NEW w \in Workers, Request(w)
      PROVE  FinishedStored'
  <2>1. UNCHANGED <<deployments, failures>>
    BY <1>4 DEF Request, StartPoll, StartReport, StartDeviceWide, StartDeleteHistory,
       StartAbort, StartAdmin, Arrive
  <2> QED BY <2>1 DEF FinishedStored, Stored
<1>5. ASSUME NEW w \in Workers, Fail(w)
      PROVE  FALSE
  BY <1>5 DEF Fail, FinishedStored
<1>6. ASSUME NEW w \in Workers, Step(w)
      PROVE  FinishedStored'
  <2>1. ASSUME NEW d \in Deployments, deployments'[d].finished
        PROVE  deployments'[d].stage = "stored"
    <3>1. CASE deployments[d].finished
      BY <2>1, <3>1, StoredStays DEF FinishedStored, Stored
    <3>2. CASE workers[w].dep = d
      BY <2>1, <3>2, StoredStays DEF Ready, Refers, Stored
    <3>3. CASE ~deployments[d].finished /\ workers[w].dep # d
      <4>1. Routine(workers[w])
        BY DEF Ready
      <4>2. deployments'[d] = deployments[d]
        BY <1>6, <3>3, <4>1, OtherDeploymentsStay DEF Holds
      <4> QED BY <2>1, <3>3, <4>2
    <3> QED BY <3>1, <3>2, <3>3
  <2>2. failures' = failures
    BY <1>6 DEF Step, Respond, FindActive, FindInactive, FindNewer, FindExisting,
       InsertDeviceDeployment, IncrementDeviceCount, SaveRequest, Instructions,
       IncrementTotalSize, GetDeviceDeployment, UpdateStatus, FindDeployment, UpdateStatsInc,
       SetStatus, SaveLastStatus, CheckFinished, AbortDocs, Aggregate, UpdateStats, Finish,
       GetHistory, MarkDeleted, DeleteLast, ReadOnly, Unchanged
  <2> QED BY <2>1, <2>2 DEF FinishedStored, Stored
<1> QED BY <1>2, <1>3, <1>4, <1>5, <1>6 DEF Next

\* A deployment left alone, that nobody comes to hold, stays settled as it was.
LEMMA SettledStays ==
    ASSUME IInv, NEW d \in Deployments, Settled(d), LeftAlone(d),
           \A w \in Workers : ~Holds(workers'[w], d)
    PROVE  Settled(d)' /\ Outcomes(d)' = Outcomes(d)
<1>1. InDeployment(d)' = InDeployment(d) /\ \A i \in InDeployment(d) : docs'[i] = docs[i]
  BY DEF LeftAlone, InDeployment
<1>2. Outcomes(d)' = Outcomes(d)
  BY <1>1 DEF Outcomes
<1>3. Holding(d)' = {}
  BY DEF Holding, Holds, FreePCs
<1>4. deployments'[d].finished /\ ~deployments'[d].active
  BY DEF Settled, LeftAlone
<1>5. \A i \in InDeployment(d)' : ~docs'[i].active
  BY <1>1 DEF Settled
<1> QED BY <1>2, <1>3, <1>4, <1>5 DEF Settled

\* What the steps of the proof have in common.
SettledInv == CInv /\ FinishedStored

\* A settled deployment is final (SettledIsFinal): once it is finished, no device is active
\* in it and no request in flight holds it any more, no later poll, no report of a device
\* that has not heard of an abort and no further abort changes it, with any number of
\* devices and requests at once, each device sending one request at a time and reporting on
\* what it was given.  A report that read its device deployment before the abort is one
\* that holds the deployment; until it is through the deployment is not settled.
THEOREM SettledForGood ==
    ASSUME PerDevice = 1, Obedient = TRUE, MaxFailures = 0,
           Kinds \subseteq DeviceKinds \union {"abort"}
    PROVE  Spec => SettledIsFinal
<1>1. Plain
  BY DEF Plain
<1>2. SettledInv => IInv /\ Ready /\ Orderly /\ Honest /\ FinishedStored
                      /\ \A i \in DOMAIN docs : Consistent(docs[i])
  BY <1>1 DEF SettledInv, FinishedStored, CInv, OInv, RInv, AInv, Calm
<1>3. Init => SettledInv
  BY InitDInv DEF Init, SettledInv, FinishedStored, DInv
<1>4. SettledInv /\ [Next]_vars => SettledInv'
  BY <1>2, NextCInv, NextFinishedStored DEF SettledInv
<1>5. ASSUME SettledInv, [Next]_vars, NEW d \in Deployments, Settled(d)
      PROVE  Settled(d)' /\ deployments'[d] = deployments[d] /\ Outcomes(d)' = Outcomes(d)
  <2>1. IInv /\ Ready /\ Orderly /\ Honest /\ FinishedStored
          /\ \A i \in DOMAIN docs : Consistent(docs[i])
    BY <1>2, <1>5
  <2>2. \A w \in Workers : ~Holds(workers[w], d)
    BY <1>5 DEF Settled, Holding, Holds, FreePCs
  <2>3. LeftAlone(d) /\ \A w \in Workers : ~Holds(workers'[w], d)
    <3>1. CASE UNCHANGED vars
      BY <2>2, <3>1 DEF vars, LeftAlone
    <3>2. CASE Create
      <4>1. Stored(d)
        BY <1>5, <2>1 DEF FinishedStored, Settled
      <4>2. deployments'[d] = deployments[d] /\ UNCHANGED <<docs, workers>>
        BY <2>1, <3>2, <4>1, CreateKeepsDeployments DEF Stored
      <4> QED BY <2>2, <4>2 DEF LeftAlone
    <3>3. ASSUME NEW w \in Workers, Request(w)
          PROVE  LeftAlone(d) /\ \A v \in Workers : ~Holds(workers'[v], d)
      <4>1. PICK next : /\ Continue(w, next)
                        /\ PollArrives(next) \/ ReportArrives(next) \/ AbortArrives(next)
        BY <1>1, <2>1, <3>3, RequestIs DEF Plain
      <4>2. UNCHANGED <<deployments, docs>>
        BY <3>3 DEF Request, StartPoll, StartReport, StartDeviceWide, StartDeleteHistory,
           StartAbort, StartAdmin, Arrive
      <4>3. ~Holds(next, d)
        <5>1. CASE PollArrives(next)
          <6>1. d # 0
            BY NumDeploymentsAssumption DEF Deployments
          <6> QED BY <5>1, <6>1, PollArrivesIs DEF Holds
        <5>2. CASE ReportArrives(next)
          BY <5>2, ReportArrivesIs DEF Holds, FreePCs
        <5>3. CASE AbortArrives(next)
          BY <5>3, AbortArrivesIs DEF Holds, FreePCs
        <5> QED BY <4>1, <5>1, <5>2, <5>3
      <4>4. \A v \in Workers : workers'[v] = IF v = w THEN next ELSE workers[v]
        BY <2>1, <4>1, OthersStay
      <4> QED BY <2>2, <4>2, <4>3, <4>4 DEF LeftAlone
    <3>4. ASSUME NEW w \in Workers, Fail(w)
          PROVE  FALSE
      BY <2>1, <3>4 DEF Fail, FinishedStored
    <3>5. ASSUME NEW w \in Workers, Step(w)
          PROVE  LeftAlone(d) /\ \A v \in Workers : ~Holds(workers'[v], d)
      <4>1. Routine(workers[w])
        BY <2>1 DEF Ready
      <4>2. workers[w].pc = "save_request" =>
              workers[w].doc \in DocsOf(workers[w].dev, workers[w].dep)
        <5> SUFFICES ASSUME workers[w].pc = "save_request"
                     PROVE  workers[w].doc \in DocsOf(workers[w].dev, workers[w].dep)
          OBVIOUS
        <5>1. workers[w].kind \in DeviceKinds
          BY <4>1 DEF Routine, AbortPCs, DeviceKinds
        <5> QED BY <2>1, <5>1 DEF Honest, Sure, Fresh
      <4>3. LeftAlone(d)
        BY <2>1, <2>2, <3>5, <4>1, <4>2, OthersLeaveAlone
      <4>4. PICK next : Continue(w, next) /\ ~Holds(next, d)
        BY <1>5, <2>1, <3>5, NobodyTakesUp
      <4>5. \A v \in Workers : workers'[v] = IF v = w THEN next ELSE workers[v]
        BY <2>1, <4>4, OthersStay
      <4> QED BY <2>2, <4>3, <4>4, <4>5
    <3> QED BY <1>5, <3>1, <3>2, <3>3, <3>4, <3>5 DEF Next
  <2>4. Settled(d)' /\ Outcomes(d)' = Outcomes(d)
    BY <1>5, <2>1, <2>3, SettledStays
  <2> QED BY <2>3, <2>4 DEF LeftAlone
<1>6. SettledInv /\ [Next]_vars =>
        [\A d \in Deployments : Settled(d) =>
           Settled(d)' /\ deployments'[d] = deployments[d] /\ Outcomes(d)' = Outcomes(d)]_vars
  BY <1>5
<1>7. Spec => []SettledInv
  BY <1>3, <1>4, PTL DEF Spec
<1> QED BY <1>6, <1>7, PTL DEF Spec, SettledIsFinal

---------------------------------------------------------------------------
(* The handlers as the lifecycle of device deployments.                     *)

\* What a reader of the lifecycle sees.
ListedIn(d) == IF Stored(d) THEN Listed(d) ELSE {}
ListedView == [d \in Deployments |-> ListedIn(d)]
ClosedView == [d \in Deployments |-> deployments[d].finished]
OutcomeView == [d \in Deployments |-> [dev \in Devices |-> OutcomeOf(dev, d)]]

\* No update sets a device back to "pending".
NoneSetBack == \A w \in Workers : workers[w].pc = "update_status" => workers[w].new # "pending"

\* A deployment that is finished has the outcome of every device on its list.
ClosedDone == \A d \in Deployments : deployments[d].finished => AllDone(d)

\* The outcome of a device with a device deployment is the status of that one.
OutcomesRead ==
    \A dev, d : /\ DocsOf(dev, d) = {} => OutcomeOf(dev, d) = "none"
                /\ \A i \in DocsOf(dev, d) : OutcomeOf(dev, d) = docs[i].status

\* That is so while a device has one device deployment in a deployment.
LEMMA OutcomeIs == IInv /\ DeliveredInOrder => OutcomesRead
<1>1. ASSUME IInv, DeliveredInOrder, NEW dev, NEW d, NEW i \in DocsOf(dev, d)
      PROVE  OutcomeOf(dev, d) = docs[i].status
  <2>1. (CHOOSE j \in DocsOf(dev, d) : TRUE) \in DocsOf(dev, d)
    BY <1>1
  <2>2. (CHOOSE j \in DocsOf(dev, d) : TRUE) = i
    BY <1>1, <2>1, OneDoc
  <2>3. DocsOf(dev, d) # {}
    BY <1>1
  <2> QED BY <2>2, <2>3 DEF OutcomeOf
<1>2. ASSUME NEW dev, NEW d, DocsOf(dev, d) = {}
      PROVE  OutcomeOf(dev, d) = "none"
  BY <1>2 DEF OutcomeOf
<1> QED BY <1>1, <1>2 DEF OutcomesRead

\* And after a step.
LEMMA OutcomeIsNext == (IInv /\ DeliveredInOrder => OutcomesRead)'
BY OutcomeIs, PTL

\* Device deployments that stay with their device and status leave the outcomes.
LEMMA OutcomeStays ==
    ASSUME OutcomesRead, OutcomesRead', StatusesStay,
           \A i \in DOMAIN docs : docs'[i].dev = docs[i].dev, NEW dev, NEW d
    PROVE  OutcomeOf(dev, d)' = OutcomeOf(dev, d)
<1>1. DocsOf(dev, d)' = DocsOf(dev, d)
  BY DEF DocsOf, StatusesStay
<1>2. CASE DocsOf(dev, d) = {}
  <2>1. DocsOf(dev, d)' = {}
    BY <1>1, <1>2
  <2>2. OutcomeOf(dev, d)' = "none" /\ OutcomeOf(dev, d) = "none"
    BY <1>2, <2>1 DEF OutcomesRead
  <2> QED BY <2>2
<1>3. ASSUME NEW i \in DocsOf(dev, d)
      PROVE  OutcomeOf(dev, d)' = OutcomeOf(dev, d)
  <2>1. i \in DocsOf(dev, d)' /\ docs'[i].status = docs[i].status
    BY <1>1 DEF StatusesStay, DocsOf
  <2>2. OutcomeOf(dev, d)' = docs'[i].status
    BY <2>1 DEF OutcomesRead
  <2>3. OutcomeOf(dev, d) = docs[i].status
    BY DEF OutcomesRead
  <2> QED BY <2>1, <2>2, <2>3
<1> QED BY <1>2, <1>3

\* A device deployment that comes in gives its device a status in its deployment.
LEMMA OutcomeComesIn ==
    ASSUME IInv, OutcomesRead, OutcomesRead', NEW new, docs' = Append(docs, new),
           NEW dev, NEW d
    PROVE  OutcomeOf(dev, d)' = IF new.dev = dev /\ new.dep = d THEN new.status
                                ELSE OutcomeOf(dev, d)
<1>1. /\ Len(docs) \in Nat /\ DOMAIN docs = 1..Len(docs) /\ DOMAIN docs' = 1..(Len(docs) + 1)
      /\ docs'[Len(docs) + 1] = new /\ \A i \in DOMAIN docs : docs'[i] = docs[i]
  BY DEF IInv, TypeOK
<1>2. CASE new.dev = dev /\ new.dep = d
  <2>1. Len(docs) + 1 \in DocsOf(dev, d)'
    BY <1>1, <1>2 DEF DocsOf
  <2> QED BY <1>1, <1>2, <2>1 DEF OutcomesRead
<1>3. CASE ~(new.dev = dev /\ new.dep = d)
  <2>1. \A i : i \in DocsOf(dev, d)' <=> i \in DocsOf(dev, d)
    BY <1>1, <1>3 DEF DocsOf
  <2>2. CASE DocsOf(dev, d) = {}
    <3>1. DocsOf(dev, d)' = {}
      BY <2>1, <2>2
    <3> QED BY <1>3, <2>2, <3>1 DEF OutcomesRead
  <2>3. ASSUME NEW i \in DocsOf(dev, d)
        PROVE  OutcomeOf(dev, d)' = OutcomeOf(dev, d)
    <3>1. i \in DocsOf(dev, d)' /\ docs'[i] = docs[i]
      BY <1>1, <2>1 DEF DocsOf
    <3>2. OutcomeOf(dev, d)' = docs'[i].status
      BY <3>1 DEF OutcomesRead
    <3>3. OutcomeOf(dev, d) = docs[i].status
      BY DEF OutcomesRead
    <3> QED BY <3>1, <3>2, <3>3
  <2> QED BY <1>3, <2>2, <2>3
<1> QED BY <1>2, <1>3

\* A status that is written becomes the status of its device in its deployment.
LEMMA OutcomeWritten ==
    ASSUME IInv, OutcomesRead, OutcomesRead', NEW i \in DOMAIN docs, NEW st \in Statuses,
           docs' = [docs EXCEPT ![i].status = st, ![i].active = Active(st)]
    PROVE  \A dev, d : OutcomeOf(dev, d)' = IF docs[i].dev = dev /\ docs[i].dep = d THEN st
                                            ELSE OutcomeOf(dev, d)
<1> SUFFICES ASSUME NEW dev, NEW d
             PROVE  OutcomeOf(dev, d)' = IF docs[i].dev = dev /\ docs[i].dep = d THEN st
                                         ELSE OutcomeOf(dev, d)
  OBVIOUS
<1>1. docs \in Seq(DocType) /\ \A j \in DOMAIN docs : docs[j] \in DocType
  BY DocTyped DEF IInv, TypeOK
<1>2. DOMAIN docs' = DOMAIN docs /\ \A j \in DOMAIN docs : j # i => docs'[j] = docs[j]
  BY <1>1
<1>3. docs'[i].dev = docs[i].dev /\ docs'[i].dep = docs[i].dep /\ docs'[i].status = st
  BY <1>1 DEF DocType
<1>4. \A j : j \in DocsOf(dev, d)' <=> j \in DocsOf(dev, d)
  BY <1>2, <1>3 DEF DocsOf
<1>5. CASE docs[i].dev = dev /\ docs[i].dep = d
  <2>1. i \in DocsOf(dev, d)'
    BY <1>4, <1>5 DEF DocsOf
  <2> QED BY <1>3, <1>5, <2>1 DEF OutcomesRead
<1>6. CASE ~(docs[i].dev = dev /\ docs[i].dep = d)
  <2>1. CASE DocsOf(dev, d) = {}
    <3>1. DocsOf(dev, d)' = {}
      BY <1>4, <2>1
    <3> QED BY <1>6, <2>1, <3>1 DEF OutcomesRead
  <2>2. ASSUME NEW j \in DocsOf(dev, d)
        PROVE  OutcomeOf(dev, d)' = OutcomeOf(dev, d)
    <3>1. j \in DocsOf(dev, d)' /\ docs'[j] = docs[j]
      BY <1>2, <1>4, <1>6 DEF DocsOf
    <3>2. OutcomeOf(dev, d)' = docs'[j].status
      BY <3>1 DEF OutcomesRead
    <3>3. OutcomeOf(dev, d) = docs[j].status
      BY DEF OutcomesRead
    <3> QED BY <3>1, <3>2, <3>3
  <2> QED BY <1>6, <2>1, <2>2
<1> QED BY <1>5, <1>6

\* A request moves on to an update to an outcome or to what a device reports.
LEMMA StepSetsNoneBack ==
    ASSUME IInv, Ready, Honest, NEW w \in Workers, workers[w].kind \in DeviceKinds, Step(w)
    PROVE  \E next : Continue(w, next) /\ (next.pc = "update_status" => next.new # "pending")
<1> DEFINE job == workers[w]
           Fine(next) == next.pc = "update_status" => next.new # "pending"
           Goal == \E next : Continue(w, next) /\ Fine(next)
<1>1. Routine(job)
  BY DEF Ready
<1>2. \A held, st, next : Begun(held, st, next) /\ st # "pending" => Fine(next)
  BY DEF Begun, Answered
<1>3. \A next : Passed(job, next) \/ Over(job, next) => Fine(next)
  BY DEF Passed, Over, Answered
<1>4. CASE Respond(w)
  <2>1. Continue(w, Idle) /\ Fine(Idle)
    BY <1>4 DEF Respond, Idle
  <2> QED BY <2>1
<1>5. CASE job.kind = "poll" /\ FindActive(w)
  BY <1>5, FindActiveIs DEF FindActiveWay
<1>6. CASE FindInactive(w)
  BY <1>6, FindInactiveIs DEF FindInactiveWay
<1>7. CASE job.kind = "poll" /\ FindNewer(w)
  BY <1>7, FindNewerIs DEF FindNewerWay, Answered
<1>8. CASE FindExisting(w)
  BY <1>8, FindExistingIs DEF FindExistingWay
<1>9. CASE job.kind = "poll" /\ InsertDeviceDeployment(w)
  <2>1. PICK next : Continue(w, next) /\ next.pc = IF job.first THEN "inc_count" ELSE "save_request"
    BY <1>9, InsertIs DEF InsertWay
  <2>2. Fine(next)
    BY <2>1
  <2> QED BY <2>1, <2>2
<1>10. CASE job.kind = "poll" /\ IncrementDeviceCount(w)
  BY <1>10, CountIs
<1>11. CASE SaveRequest(w)
  <2>1. PICK next : Continue(w, next) /\ SaveRequestWay(job, next)
    BY <1>11, SaveRequestIs
  <2>2. Fine(next)
    BY <1>2, <2>1 DEF SaveRequestWay
  <2> QED BY <2>1, <2>2
<1>12. CASE Instructions(w)
  <2>1. PICK next : Continue(w, next) /\ (InstructionsWay(job, next) \/ Assigning(job, next))
    BY <1>12, InstructionsIs
  <2>2. \A b : InstructedBy(job, b, next) => Fine(next)
    BY <1>2 DEF InstructedBy, Answered
  <2>3. Fine(next)
    BY <1>2, <2>1, <2>2 DEF InstructionsWay, Assigning, Answered
  <2> QED BY <2>1, <2>3
<1>13. CASE IncrementTotalSize(w)
  BY <1>13, TotalSizeIs DEF Answered
<1>14. CASE job.kind = "report" /\ GetDeviceDeployment(w)
  <2>1. PICK next : Continue(w, next) /\ GetWay(job, next)
    BY <1>14, GetIs
  <2>2. job.new \in ReportStatuses
    BY <1>14 DEF Honest, Sure, GetDeviceDeployment, At
  <2>3. job.new # "pending"
    BY <2>2 DEF ReportStatuses
  <2>4. Fine(next)
    BY <1>2, <2>1, <2>3 DEF GetWay, Answered
  <2> QED BY <2>1, <2>4
<1>15. CASE UpdateStatus(w)
  <2>1. PICK next : Continue(w, next) /\ UpdateWay(job, next)
    BY <1>15, UpdateIs
  <2>2. Fine(next)
    BY <1>3, <2>1 DEF UpdateWay, Answered
  <2> QED BY <2>1, <2>2
<1>16. CASE FindDeployment(w)
  BY <1>16, FindDeploymentIs DEF FindDeploymentWay
<1>17. CASE UpdateStatsInc(w)
  <2>1. PICK next : Continue(w, next) /\ IncWay(job, next)
    BY <1>17, IncIs
  <2>2. Fine(next)
    BY <1>3, <2>1 DEF IncWay
  <2> QED BY <2>1, <2>2
<1>18. CASE SetStatus(w)
  BY <1>3, <1>18, SetStatusIs
<1>19. CASE SaveLastStatus(w)
  BY <1>3, <1>19, SaveLastIs
<1> QED BY <1>1, <1>4, <1>5, <1>6, <1>7, <1>8, <1>9, <1>10, <1>11, <1>12, <1>13, <1>14, <1>15,
           <1>16, <1>17, <1>18, <1>19, DeviceStep

\* So no step makes a request set a device back, while only devices act and nothing fails.
LEMMA NextNoneSetBack ==
    ASSUME IInv, Ready, Honest, Undisturbed, Undisturbed', NoneSetBack, [Next]_vars
    PROVE  NoneSetBack'
<1>1. CASE UNCHANGED vars \/ Create
  <2>1. UNCHANGED workers
    BY <1>1 DEF vars, Create, BuildDeployment, InsertDeployment
  <2> QED BY <2>1 DEF NoneSetBack
<1>2. ASSUME NEW w \in Workers, NEW next, Continue(w, next),
             next.pc = "update_status" => next.new # "pending"
      PROVE  NoneSetBack'
  <2>1. \A v \in Workers : workers'[v] = IF v = w THEN next ELSE workers[v]
    BY <1>2, OthersStay
  <2> QED BY <1>2, <2>1 DEF NoneSetBack
<1>3. ASSUME NEW w \in Workers, Request(w)
      PROVE  NoneSetBack'
  <2>1. PICK next : /\ Continue(w, next)
                    /\ PollArrives(next) \/ ReportArrives(next) \/ AbortArrives(next)
    BY <1>3, RequestIs DEF Plain, Undisturbed
  <2>2. next.pc # "update_status"
    BY <2>1, PollArrivesIs, ReportArrivesIs, AbortArrivesIs
  <2> QED BY <1>2, <2>1, <2>2
<1>4. ASSUME NEW w \in Workers, Fail(w)
      PROVE  FALSE
  BY <1>4, FailIs DEF Ready, Undisturbed
<1>5. ASSUME NEW w \in Workers, Step(w)
      PROVE  NoneSetBack'
  <2>1. workers[w].kind \in DeviceKinds
    BY <1>5, StepAt DEF Ready, Routine, Undisturbed, DeviceKinds
  <2> QED BY <1>2, <1>5, <2>1, StepSetsNoneBack
<1> QED BY <1>1, <1>3, <1>4, <1>5 DEF Next

\* What holds while only devices act and nothing fails.
LInv == DInv /\ Submitted /\ NoneSetBack /\ Undisturbed

\* Every step keeps that, where no operator acts and no request is cut short.
LEMMA NextLInv ==
    ASSUME PerDevice = 1, Obedient = TRUE, MaxFailures = 0, Kinds \subseteq DeviceKinds
    PROVE  LInv /\ [Next]_vars => LInv'
<1> SUFFICES ASSUME LInv, [Next]_vars PROVE LInv'
  OBVIOUS
<1>1. IInv /\ Ready /\ Honest /\ Undisturbed
  BY DEF LInv, DInv, CInv, OInv, RInv, AInv, Calm, Plain, Undisturbed
<1>2. Undisturbed'
  <2>1. CASE UNCHANGED vars \/ Create
    BY <1>1, <2>1 DEF vars, Create, BuildDeployment, InsertDeployment, Undisturbed
  <2>2. ASSUME NEW w \in Workers, Request(w)
        PROVE  UNCHANGED <<admin, failures>>
    <3>1. ASSUME NEW job, StartAdmin(w, job) PROVE job.kind \in DeviceKinds
      BY <3>1 DEF StartAdmin, Arrive
    <3>2. ASSUME NEW d \in Deployments
          PROVE  ~StartAbort(w, d)
      <4>1. [Idle EXCEPT !.pc = "check_finished", !.kind = "abort", !.dep = d].kind = "abort"
        BY DEF Idle
      <4> QED BY <3>1, <4>1 DEF StartAbort, DeviceKinds
    <3>3. ASSUME NEW kind \in DeviceWideKinds, NEW dev \in Devices
          PROVE  ~StartDeviceWide(w, kind, dev)
      <4>1. [Idle EXCEPT !.pc = "find_active", !.kind = kind, !.dev = dev].kind = kind
        BY DEF Idle
      <4> QED BY <3>1, <4>1 DEF StartDeviceWide, DeviceKinds, DeviceWideKinds
    <3>4. ASSUME NEW dev \in Devices
          PROVE  ~StartDeleteHistory(w, dev)
      <4>1. [Idle EXCEPT !.pc = "get_history", !.kind = "delete_history", !.dev = dev].kind
              = "delete_history"
        BY DEF Idle
      <4> QED BY <3>1, <4>1 DEF StartDeleteHistory, DeviceKinds
    <3> QED BY <2>2, <3>2, <3>3, <3>4 DEF Request, StartPoll, StartReport, Arrive
  <2>3. ASSUME NEW w \in Workers, Fail(w)
        PROVE  FALSE
    BY <1>1, <2>3 DEF Fail, Undisturbed
  <2>4. ASSUME NEW w \in Workers, Step(w)
        PROVE  UNCHANGED <<admin, failures>>
    BY <2>4 DEF Step, Respond, FindActive, FindInactive, FindNewer, FindExisting,
       InsertDeviceDeployment, IncrementDeviceCount, SaveRequest, Instructions,
       IncrementTotalSize, GetDeviceDeployment, UpdateStatus, FindDeployment, UpdateStatsInc,
       SetStatus, SaveLastStatus, CheckFinished, AbortDocs, Aggregate, UpdateStats, Finish,
       GetHistory, MarkDeleted, DeleteLast, ReadOnly, Unchanged
  <2> QED BY <1>1, <2>1, <2>2, <2>3, <2>4 DEF Next, Undisturbed
<1> QED BY <1>1, <1>2, NextDInv, NextSubmitted, NextNoneSetBack DEF LInv

\* Between two steps nothing of the lifecycle moves, unless one of its three parts does.
LEMMA LifecycleStutters ==
    ASSUME \A d \in Deployments : ListedIn(d)' = ListedIn(d),
           \A d \in Deployments : deployments'[d].finished = deployments[d].finished,
           \A d \in Deployments, dev \in Devices : OutcomeOf(dev, d)' = OutcomeOf(dev, d)
    PROVE  UNCHANGED Lifecycle!vars
<1>1. ListedView' = ListedView
  BY DEF ListedView
<1>2. ClosedView' = ClosedView
  BY DEF ClosedView
<1>3. OutcomeView' = OutcomeView
  BY DEF OutcomeView
<1> QED BY <1>1, <1>2, <1>3 DEF Lifecycle!vars, ListedView, ListedIn, ClosedView, OutcomeView

\* Storing a deployment opens it.
LEMMA InsertOpens ==
    ASSUME IInv, Submitted, OutcomesRead, OutcomesRead', NEW d \in Deployments, InsertDeployment(d)
    PROVE  Lifecycle!Next
<1>1. deployments \in [Deployments -> DeploymentType]
  BY DEF IInv, TypeOK
<1>2. /\ deployments[d].stage = "built"
      /\ deployments'[d] = [deployments[d] EXCEPT !.stage = "stored", !.active = TRUE]
      /\ \A e \in Deployments \ {d} : deployments'[e] = deployments[e]
      /\ UNCHANGED docs
  BY <1>1 DEF InsertDeployment
<1>3. /\ deployments'[d].stage = "stored" /\ deployments'[d].list = deployments[d].list
      /\ deployments'[d].finished = deployments[d].finished
  BY <1>1, <1>2 DEF DeploymentType
<1>4. PICK S : S = Listed(d)
  OBVIOUS
<1>5. S \subseteq Devices /\ S # {}
  <2>1. deployments[d].list \in DeviceLists
    BY <1>2 DEF Submitted
  <2>2. deployments[d].list \in Seq(Devices) /\ deployments[d].list # <<>>
    BY <2>1, ListsAssumption
  <2>3. PICK list \in Seq(Devices) : list = deployments[d].list /\ list # <<>>
    BY <2>2
  <2>4. 1 \in DOMAIN list /\ \A i \in DOMAIN list : list[i] \in Devices
    BY <2>3
  <2> QED BY <1>4, <2>3, <2>4 DEF Listed
<1>6. ListedIn(d) = {} /\ ListedIn(d)' = S
  BY <1>2, <1>3, <1>4 DEF ListedIn, Listed, Stored
<1>7. \A e \in Deployments \ {d} : ListedIn(e)' = ListedIn(e)
  BY <1>2 DEF ListedIn, Listed, Stored
<1>8. ListedView' = [ListedView EXCEPT ![d] = S]
  BY <1>6, <1>7 DEF ListedView
<1>9. ClosedView' = ClosedView
  BY <1>2, <1>3 DEF ClosedView
<1>10. OutcomeView' = OutcomeView
  <2>1. StatusesStay /\ \A i \in DOMAIN docs : docs'[i].dev = docs[i].dev
    BY <1>2 DEF StatusesStay
  <2>2. \A e \in Deployments, dev \in Devices : OutcomeOf(dev, e)' = OutcomeOf(dev, e)
    BY <2>1, OutcomeStays
  <2> QED BY <2>2 DEF OutcomeView
<1>11. ListedView[d] = {}
  BY <1>6 DEF ListedView
<1>12. Lifecycle!Open(d, S)
  BY <1>5, <1>8, <1>9, <1>10, <1>11
     DEF Lifecycle!Open, ListedView, ListedIn, ClosedView, OutcomeView
<1> QED BY <1>5, <1>12 DEF Lifecycle!Next, Lifecycle!Deployments, Deployments

\* A poll that inserts a device deployment starts the device in a deployment.
LEMMA InsertStarts ==
    ASSUME IInv, Ready, Orderly, \A i \in DOMAIN docs : Consistent(docs[i]), ClosedDone,
           OutcomesRead, OutcomesRead',
           NEW w \in Workers, workers[w].kind = "poll", InsertDeviceDeployment(w)
    PROVE  Lifecycle!Next
<1>1. PICK job : job = workers[w]
  OBVIOUS
<1>2. /\ job.pc = "insert" /\ UNCHANGED deployments
      /\ docs' = Append(docs, NewDoc(job))
  BY <1>1, InsertIs DEF InsertDeviceDeployment, At
<1>3. PICK dev \in Devices, d \in Deployments : dev = job.dev /\ d = job.dep
  BY <1>1, <1>2, JobFacts DEF JobOK, DevicePCs
<1>4. OverUpTo(dev, d - 1) /\ dev \in Listed(d) /\ Stored(d)
  BY <1>1, <1>2, <1>3 DEF Orderly, Searching, Ready, Refers
<1>5. \A e \in Deployments : e \in Nat
  BY NumDeploymentsAssumption DEF Deployments
<1>6. \A e \in Deployments : e >= d => DocsOf(dev, e) = {}
  BY <1>4, <1>5 DEF OverUpTo, DocsOf
<1>7. ~deployments[d].finished
  BY <1>4, <1>5, <1>6 DEF ClosedDone, AllDone
<1>8. ASSUME NEW e \in Deployments
      PROVE  OutcomeOf(dev, e) \notin ActiveStatuses
  <2>1. CASE DocsOf(dev, e) = {}
    <3>1. OutcomeOf(dev, e) = "none"
      BY <2>1 DEF OutcomesRead
    <3> QED BY <3>1 DEF ActiveStatuses
  <2>2. ASSUME NEW i \in DocsOf(dev, e)
        PROVE  OutcomeOf(dev, e) \notin ActiveStatuses
    <3>1. i \in DOMAIN docs /\ ~docs[i].active
      BY <1>4 DEF OverUpTo, DocsOf
    <3>2. OutcomeOf(dev, e) = docs[i].status
      BY DEF OutcomesRead
    <3> QED BY <3>1, <3>2 DEF Consistent, Active
  <2> QED BY <2>1, <2>2
<1>9. \A e \in Deployments : e >= d => OutcomeOf(dev, e) = "none"
  BY <1>6 DEF OutcomesRead
<1>10. \A e \in Deployments, b \in Devices :
         OutcomeOf(b, e)' = IF dev = b /\ d = e THEN "pending" ELSE OutcomeOf(b, e)
  <2>1. PICK new : new = NewDoc(job)
    OBVIOUS
  <2>2. new.dev = dev /\ new.dep = d /\ new.status = "pending" /\ docs' = Append(docs, new)
    BY <1>2, <1>3, <2>1 DEF NewDoc
  <2> QED BY <2>2, OutcomeComesIn
<1>11. OutcomeView' = [OutcomeView EXCEPT ![d][dev] = "pending"]
  BY <1>10 DEF OutcomeView
<1>12. ListedView' = ListedView /\ ClosedView' = ClosedView
  BY <1>2 DEF ListedView, ListedIn, Listed, Stored, ClosedView
<1>13. dev \in ListedView[d] /\ ~ClosedView[d]
  BY <1>4, <1>7 DEF ListedView, ListedIn, ClosedView
<1>14. \A e \in Deployments : dev \notin Lifecycle!ActiveIn(e)
  BY <1>8 DEF Lifecycle!ActiveIn, ActiveStatuses, Lifecycle!ActiveStatuses
<1>15. \A e \in Deployments : e >= d => OutcomeView[e][dev] = "none"
  BY <1>9 DEF OutcomeView
<1>16. Lifecycle!Start(dev, d, "pending")
  BY <1>11, <1>12, <1>13, <1>14, <1>15 DEF Lifecycle!Start, Lifecycle!Deployments, Deployments,
     Lifecycle!NotStarted, ListedView, ListedIn, ClosedView, OutcomeView
<1> QED BY <1>16 DEF Lifecycle!Next, Lifecycle!Deployments, Deployments

\* An update changes the status of a device that is active in the deployment, or nothing.
LEMMA UpdateChanges ==
    ASSUME IInv, Ready, Orderly, Honest, ClosedDone, NoneAborted, NoneSetBack,
           OutcomesRead, OutcomesRead',
           NEW w \in Workers, workers[w].kind \in DeviceKinds, UpdateStatus(w)
    PROVE  [Lifecycle!Next]_Lifecycle!vars
<1>1. PICK job : job = workers[w]
  OBVIOUS
<1>2. job.pc = "update_status" /\ UNCHANGED deployments
  BY <1>1 DEF UpdateStatus, At
<1>3. CASE UNCHANGED docs
  <2>1. StatusesStay /\ \A i \in DOMAIN docs : docs'[i].dev = docs[i].dev
    BY <1>3 DEF StatusesStay
  <2>2. \A d \in Deployments, dev \in Devices : OutcomeOf(dev, d)' = OutcomeOf(dev, d)
    BY <2>1, OutcomeStays
  <2> QED BY <1>2, <2>2, LifecycleStutters DEF ListedIn, Listed, Stored
<1>4. ASSUME NEW i, Writes(job, i)
      PROVE  Lifecycle!Next
  <2>1. PICK dev \in Devices, st \in Statuses : dev = job.dev /\ st = job.new
    BY <1>1, <1>2, JobFacts DEF JobOK, DevicePCs
  <2>2. PICK d : d = job.dep
    OBVIOUS
  <2>3. i \in DocsOf(dev, d) /\ i \in DOMAIN docs /\ docs[i].dev = dev /\ docs[i].dep = d
    BY <1>4, <2>1, <2>2 DEF Writes, NotDeleted, DocsOf
  <2>4. d \in Deployments /\ dev \in Listed(d)
    BY <2>3, DocTyped DEF Orderly, AllListed, IInv
  <2>5. docs[i].status \in ActiveStatuses
    <3>1. PICK j : Fresh(job, j)
      BY <1>1, <1>2 DEF Honest, Sure
    <3>2. j \in DocsOf(dev, d) /\ docs[j].status \in ActiveStatuses \union {"aborted"}
      BY <2>1, <2>2, <3>1 DEF Fresh
    <3>3. j = i
      BY <2>3, <3>2, OneDoc DEF Orderly
    <3> QED BY <2>3, <3>2, <3>3 DEF NoneAborted
  <2>6. ~deployments[d].finished
    <3> SUFFICES ASSUME deployments[d].finished PROVE FALSE
      OBVIOUS
    <3>1. PICK k \in DocsOf(dev, d) : docs[k].status \in FinishedStatuses
      BY <2>4 DEF ClosedDone, AllDone
    <3>2. k = i
      BY <2>3, <3>1, OneDoc DEF Orderly
    <3> QED BY <2>5, <3>1, <3>2 DEF ActiveStatuses, FinishedStatuses
  <2>7. st # "pending"
    BY <1>1, <1>2, <2>1 DEF NoneSetBack
  <2>8. \A e \in Deployments, b \in Devices :
          OutcomeOf(b, e)' = IF dev = b /\ d = e THEN st ELSE OutcomeOf(b, e)
    <3>1. docs' = [docs EXCEPT ![i].status = st, ![i].active = Active(st)]
      BY <1>4, <2>1 DEF Writes
    <3>2. \A b, e : OutcomeOf(b, e)' = IF docs[i].dev = b /\ docs[i].dep = e THEN st
                                       ELSE OutcomeOf(b, e)
      BY <2>3, <3>1, OutcomeWritten
    <3> QED BY <2>3, <3>2
  <2>9. OutcomeView' = [OutcomeView EXCEPT ![d][dev] = st]
    BY <2>8 DEF OutcomeView
  <2>10. ListedView' = ListedView /\ ClosedView' = ClosedView /\ ~ClosedView[d]
    BY <1>2, <2>4, <2>6 DEF ListedView, ListedIn, Listed, Stored, ClosedView
  <2>11. dev \in Lifecycle!ActiveIn(d)
    <3>1. OutcomeOf(dev, d) \in ActiveStatuses
      BY <2>3, <2>5 DEF OutcomesRead
    <3> QED BY <2>4, <3>1 DEF Lifecycle!ActiveIn, ActiveStatuses, Lifecycle!ActiveStatuses
  <2>12. Lifecycle!Change(dev, d, st)
    BY <2>9, <2>10, <2>11 DEF Lifecycle!Change, ListedView, ListedIn, ClosedView, OutcomeView
  <2>13. Lifecycle!Statuses = Statuses
    BY DEF Lifecycle!Statuses, Statuses, Lifecycle!ActiveStatuses, ActiveStatuses,
       Lifecycle!FinishedStatuses, FinishedStatuses
  <2> QED BY <2>4, <2>7, <2>12, <2>13 DEF Lifecycle!Next, Lifecycle!Deployments, Deployments
<1> QED BY <1>1, <1>3, <1>4, UpdateIs DEF UpdateWay

\* Setting the status of a deployment closes it, or changes nothing of the lifecycle.
LEMMA SetStatusCloses ==
    ASSUME LInv, OutcomesRead, OutcomesRead', NEW w \in Workers, SetStatus(w)
    PROVE  [Lifecycle!Next]_Lifecycle!vars
<1>1. PICK job : job = workers[w]
  OBVIOUS
<1>2. /\ IInv /\ Ready /\ Orderly /\ Untroubled /\ DInv /\ Undisturbed /\ Submitted
      /\ deployments \in [Deployments -> DeploymentType]
  BY DEF LInv, DInv, CInv, OInv, RInv, AInv, Undisturbed, Plain, IInv, TypeOK
<1>3. PICK d, st : d = job.dep /\ st = job.overall
  OBVIOUS
<1>4. /\ job.pc = "set_status" /\ UNCHANGED docs
      /\ deployments' = [deployments EXCEPT ![d].status = st, ![d].active = st # "finished",
                                            ![d].finished = @ \/ st = "finished"]
  BY <1>1, <1>3 DEF SetStatus, At, WithStatus
<1>5. /\ \A e \in Deployments \ {d} : deployments'[e] = deployments[e]
      /\ d \in Deployments =>
           /\ deployments'[d].stage = deployments[d].stage
           /\ deployments'[d].list = deployments[d].list
           /\ deployments'[d].finished = (deployments[d].finished \/ st = "finished")
  BY <1>2, <1>4 DEF DeploymentType
<1>6. \A e \in Deployments : ListedIn(e)' = ListedIn(e)
  BY <1>5 DEF ListedIn, Listed, Stored
<1>7. \A e \in Deployments, dev \in Devices : OutcomeOf(dev, e)' = OutcomeOf(dev, e)
  <2>1. StatusesStay /\ \A i \in DOMAIN docs : docs'[i].dev = docs[i].dev
    BY <1>4 DEF StatusesStay
  <2> QED BY <2>1, OutcomeStays
<1>8. CASE \A e \in Deployments : deployments'[e].finished = deployments[e].finished
  BY <1>6, <1>7, <1>8, LifecycleStutters
<1>9. CASE ~(\A e \in Deployments : deployments'[e].finished = deployments[e].finished)
  <2>1. d \in Deployments /\ st = "finished" /\ deployments'[d].finished = TRUE
    BY <1>2, <1>5, <1>9 DEF DeploymentType
  <2>2. Complete(d)
    BY <1>1, <1>2, <1>3, <1>4, <2>1 DEF Untroubled, Backed
  <2>3. Stored(d)
    BY <1>1, <1>2, <1>3, <2>1 DEF Ready, Refers
  <2>4. AllDone(d)
    BY <1>2, <2>1, <2>2, <2>3, CountedIsDone DEF Stored
  <2>5. ASSUME NEW dev \in Devices
        PROVE  OutcomeOf(dev, d) \notin ActiveStatuses
    <3>1. CASE DocsOf(dev, d) = {}
      <4>1. OutcomeOf(dev, d) = "none"
        BY <3>1 DEF OutcomesRead
      <4> QED BY <4>1 DEF ActiveStatuses
    <3>2. ASSUME NEW i \in DocsOf(dev, d)
          PROVE  OutcomeOf(dev, d) \notin ActiveStatuses
      <4>1. dev \in Listed(d)
        BY <1>2 DEF Orderly, AllListed, DocsOf
      <4>2. PICK k \in DocsOf(dev, d) : docs[k].status \in FinishedStatuses
        BY <2>4, <4>1 DEF AllDone
      <4>3. OutcomeOf(dev, d) \in FinishedStatuses
        BY <4>2 DEF OutcomesRead
      <4> QED BY <4>3 DEF ActiveStatuses, FinishedStatuses
    <3> QED BY <3>1, <3>2
  <2>6. ListedView[d] # {}
    <3>1. deployments[d].list \in DeviceLists
      BY <1>2, <2>1, <2>3 DEF Submitted, Stored
    <3>2. PICK list \in Seq(Devices) : list = deployments[d].list /\ list # <<>>
      BY <3>1, ListsAssumption
    <3>3. 1 \in DOMAIN list
      BY <3>2
    <3> QED BY <2>1, <2>3, <3>2, <3>3 DEF ListedView, ListedIn, Listed
  <2>7. Lifecycle!ActiveIn(d) = {}
    BY <2>1, <2>5 DEF Lifecycle!ActiveIn, ActiveStatuses, Lifecycle!ActiveStatuses
  <2>8. ClosedView' = [ClosedView EXCEPT ![d] = TRUE]
    BY <1>5, <2>1 DEF ClosedView
  <2>9. ListedView' = ListedView /\ OutcomeView' = OutcomeView
    BY <1>6, <1>7 DEF ListedView, OutcomeView
  <2>10. Lifecycle!Close(d)
    BY <2>6, <2>7, <2>8, <2>9 DEF Lifecycle!Close, ListedView, ListedIn, ClosedView, OutcomeView
  <2> QED BY <2>1, <2>10 DEF Lifecycle!Next, Lifecycle!Deployments, Deployments
<1> QED BY <1>8, <1>9

\* Every step is one of the lifecycle, or none.
LEMMA LifecycleStep ==
    ASSUME LInv, LInv', [Next]_vars
    PROVE  [Lifecycle!Next]_Lifecycle!vars
<1>1. /\ IInv /\ Ready /\ Orderly /\ Honest /\ Untroubled /\ DInv /\ Undisturbed /\ Submitted
      /\ NoneSetBack /\ \A i \in DOMAIN docs : Consistent(docs[i])
  BY DEF LInv, DInv, CInv, OInv, RInv, AInv, Calm, Plain, Undisturbed
<1>2. IInv' /\ DeliveredInOrder'
  BY DEF LInv, DInv, CInv, OInv, RInv, AInv, Orderly, Plain, Undisturbed
<1>3. OutcomesRead /\ OutcomesRead'
  BY <1>1, <1>2, OutcomeIs, OutcomeIsNext DEF Orderly
<1>4. ClosedDone
  BY <1>1, CountedIsDone DEF ClosedDone, Untroubled, InTime
<1>5. ASSUME StatusesStay, \A i \in DOMAIN docs : docs'[i].dev = docs[i].dev,
             \A d \in Deployments : ListedIn(d)' = ListedIn(d),
             \A d \in Deployments : deployments'[d].finished = deployments[d].finished
      PROVE  UNCHANGED Lifecycle!vars
  <2>1. \A d \in Deployments, dev \in Devices : OutcomeOf(dev, d)' = OutcomeOf(dev, d)
    BY <1>3, <1>5, OutcomeStays
  <2> QED BY <1>5, <2>1, LifecycleStutters
<1>6. CASE UNCHANGED <<deployments, docs>>
  BY <1>5, <1>6 DEF StatusesStay, ListedIn, Listed, Stored
<1>7. ASSUME NEW list \in DeviceLists, BuildDeployment(list)
      PROVE  UNCHANGED Lifecycle!vars
  <2>1. deployments \in [Deployments -> DeploymentType] /\ Len(list) \in Nat
    BY <1>1, <1>7, ListsAssumption DEF IInv, TypeOK
  <2>2. ASSUME NEW d \in Deployments
        PROVE  /\ ListedIn(d)' = ListedIn(d)
               /\ deployments'[d].finished = deployments[d].finished
    <3>1. \/ deployments'[d] = deployments[d]
          \/ /\ deployments[d].stage = "none"
             /\ deployments'[d].stage = "built"
             /\ deployments'[d].finished = deployments[d].finished
      <4> DEFINE stats == InitialStats(Len(list))
      <4>1. PICK e \in Deployments :
              /\ deployments[e].stage = "none"
              /\ deployments' = [deployments EXCEPT ![e].stage = "built", ![e].list = list,
                                                 ![e].stats = stats]
        BY <1>7 DEF BuildDeployment
      <4> HIDE DEF stats
      <4> QED BY <2>1, <4>1 DEF DeploymentType
    <3> QED BY <3>1 DEF ListedIn, Listed, Stored
  <2>3. UNCHANGED docs
    BY <1>7 DEF BuildDeployment
  <2> QED BY <1>5, <2>2, <2>3 DEF StatusesStay
<1>8. ASSUME NEW w \in Workers, Step(w)
      PROVE  [Lifecycle!Next]_Lifecycle!vars
  <2>1. Routine(workers[w]) /\ workers[w].kind \in DeviceKinds
    BY <1>1, <1>8, StepAt DEF Ready, Routine, Undisturbed, DeviceKinds
  <2>2. CASE InsertDeviceDeployment(w)
    <3>1. workers[w].kind = "poll"
      BY <2>1, <2>2 DEF InsertDeviceDeployment, At, Routine, ReportPCs, AfterPCs, AbortPCs,
         DeviceKinds
    <3> QED BY <1>1, <1>3, <1>4, <2>2, <3>1, InsertStarts
  <2>3. CASE UpdateStatus(w)
    BY <1>1, <1>3, <1>4, <2>1, <2>3, UpdateChanges DEF Untroubled
  <2>4. CASE SetStatus(w)
    BY <1>3, <2>4, SetStatusCloses
  <2>5. CASE ~InsertDeviceDeployment(w) /\ ~UpdateStatus(w) /\ ~SetStatus(w)
    <3>1. StatusesStay
      BY <1>1, <1>8, <2>1, <2>5, StepStatusesStay
    <3>2. \A i \in DOMAIN docs : docs'[i].dev = docs[i].dev
      BY <1>1, <1>8, <2>1, DocsAfter
    <3>3. ASSUME NEW d \in Deployments
          PROVE  /\ ListedIn(d)' = ListedIn(d)
                 /\ deployments'[d].finished = deployments[d].finished
      <4>1. /\ deployments'[d].stage = deployments[d].stage
            /\ deployments'[d].list = deployments[d].list
        BY <1>1, <1>8, StepKeepsDeployments
      <4>2. deployments'[d].finished = deployments[d].finished
        <5>1. deployments \in [Deployments -> DeploymentType]
          BY <1>1 DEF IInv, TypeOK
        <5>2. CASE UNCHANGED deployments
          BY <5>2
        <5>3. CASE IncrementDeviceCount(w)
          BY <5>1, <5>3 DEF IncrementDeviceCount, DeploymentType
        <5>4. CASE IncrementTotalSize(w)
          BY <5>1, <5>4 DEF IncrementTotalSize, DeploymentType
        <5>5. CASE UpdateStatsInc(w)
          BY <5>1, <5>5 DEF UpdateStatsInc, DeploymentType
        <5>6. \/ UNCHANGED deployments \/ IncrementDeviceCount(w) \/ IncrementTotalSize(w)
              \/ UpdateStatsInc(w)
          BY <1>1, <1>8, <2>1, <2>5, DeviceStep DEF Respond, FindActive, FindInactive,
             FindNewer, FindExisting, SaveRequest, Instructions, GetDeviceDeployment,
             FindDeployment, SaveLastStatus, ReadOnly
        <5> QED BY <5>2, <5>3, <5>4, <5>5, <5>6
      <4> QED BY <4>1, <4>2 DEF ListedIn, Listed, Stored
    <3> QED BY <1>5, <3>1, <3>2, <3>3
  <2> QED BY <2>2, <2>3, <2>4, <2>5
<1>9. ASSUME NEW w \in Workers, Request(w) \/ Fail(w)
      PROVE  UNCHANGED <<deployments, docs>>
  BY <1>9 DEF Request, StartPoll, StartReport, StartDeviceWide, StartDeleteHistory,
     StartAbort, StartAdmin, Arrive, Fail
<1>10. ASSUME NEW d \in Deployments, InsertDeployment(d)
       PROVE  Lifecycle!Next
  BY <1>1, <1>3, <1>10, InsertOpens
<1>11. CASE UNCHANGED vars
  BY <1>6, <1>11 DEF vars
<1> QED BY <1>6, <1>7, <1>8, <1>9, <1>10, <1>11 DEF Next, Create

\* At first no deployment is open.
LEMMA LifecycleInit == Init => Lifecycle!Init
<1> SUFFICES ASSUME Init PROVE Lifecycle!Init
  OBVIOUS
<1>1. docs = <<>> /\ \A d \in Deployments : deployments[d].stage = "none" /\ ~deployments[d].finished
  BY DEF Init
<1>2. \A d \in Deployments, dev \in Devices : OutcomeOf(dev, d) = "none"
  BY <1>1 DEF OutcomeOf, DocsOf
<1>3. /\ ListedView = [d \in Deployments |-> {}] /\ ClosedView = [d \in Deployments |-> FALSE]
      /\ OutcomeView = [d \in Deployments |-> [dev \in Devices |-> "none"]]
  BY <1>1, <1>2 DEF ListedView, ListedIn, Stored, ClosedView, OutcomeView, Init
<1> QED BY <1>3 DEF Lifecycle!Init, Lifecycle!Deployments, Lifecycle!NotStarted, Deployments,
   ListedView, ListedIn, ClosedView, OutcomeView

\* The handlers implement the lifecycle of device deployments (ImplementsLifecycle): with any
\* number of devices that send one request at a time and report on what they were given, in
\* any interleaving of their polls and reports, each device goes through the deployments that
\* list it in order and one at a time, an outcome is final, and a deployment that is closed
\* takes in no device and changes no more.
THEOREM LifecycleImplemented ==
    ASSUME PerDevice = 1, Obedient = TRUE, MaxFailures = 0, Kinds \subseteq DeviceKinds
    PROVE  Spec => ImplementsLifecycle
<1>1. Init => LInv
  <2>1. Init => Submitted /\ NoneSetBack /\ Undisturbed
    BY DEF Init, Submitted, NoneSetBack, Undisturbed, Idle
  <2> QED BY <2>1, InitDInv DEF LInv
<1>2. LInv /\ [Next]_vars => LInv'
  BY NextLInv
<1>3. LInv /\ LInv' /\ [Next]_vars => [Lifecycle!Next]_Lifecycle!vars
  BY LifecycleStep
<1> QED BY <1>1, <1>2, <1>3, LifecycleInit, PTL DEF Spec, ImplementsLifecycle, Lifecycle!Spec
=============================================================================
