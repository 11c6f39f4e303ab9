# Verification of the Mender server

TLA+ models of the back end of the Mender server (`src/backend`), the TLC runs that check them
and the theorems TLAPS proves about them. The back end is a set of Go services over MongoDB; the
services call each other over HTTP and leave work that spans several of them to the workflows
service, which takes jobs from a NATS stream. There are no locks and, with two exceptions noted
below, no transactions: a handler is a sequence of single-document operations that interleaves
with the handlers of other requests. Most of what can go wrong goes wrong between two of them,
and that is what the models are about.

## The system

| Component | State | Operations | What makes it hard |
|---|---|---|---|
| deployments: device deployments (`services/deployments/app`, `store/mongo`, `model`) | deployments with their counters, device deployments, last statuses | a device polls and reports; an operator creates, aborts (a deployment, or those of one device), decommissions, resets a history | devices of one deployment report at the same time; a report meets an abort; requests are repeated or cut short; counters, overall status and finish time are separate writes |
| deployments: artifacts, uploads, releases | artifacts, upload intents, releases, stored objects | upload, generate, edit, delete, clean up | deletion against use, an upload that takes longer than its link, an object without metadata and the other way round |
| deviceauth (`services/deviceauth`) | devices, authentication sets, tokens, limits; a Redis cache of tokens and check-in times | authentication request, preauthorize, accept, reject, delete a set, verify, revoke, decommission, delete | two operators, or an operator and a device, on one device; optimistic updates by revision; a cache invalidated before the database; a limit checked on a count |
| inventory (`services/inventory`) | attributes, groups, the status of each device with a revision | merge attributes, upsert statuses, delete | status events arrive late, twice or out of order |
| workflows (`services/workflows`) | jobs and their progress; the NATS stream | submit, fetch, execute tasks, retry | delivery at least once, a lost acknowledgement, a job that stops half way |
| deviceconnect (`services/deviceconnect`) | connection status of devices, sessions | connect, disconnect, open a session, forward messages | a new connection replaces an old one that is still being closed |
| deviceconfig (`services/deviceconfig`) | wanted and reported configuration | set, deploy, report | the configuration and the deployment that carries it live in two services |
| useradm (`services/useradm`) | users, sessions, access tokens | log in, log out, issue and revoke tokens | limits checked on a count; user changes against tokens |
| iot-manager (`services/iot-manager`) | integrations, devices in them, an event log | provision, decommission, forward status changes | work done in the background after the answer |
| create-artifact-worker, shared packages, generated clients, web interface | none of their own | | |

How they interact: a device authenticates with deviceauth and gets a token; the gateway has every
later request verified by deviceauth. A change of the status of a device starts the job
`provision_device` or `update_device_status`, which tells inventory (with the revision of the
device) and iot-manager; `provision_device` ends with a PATCH of the device in deviceauth.
Decommissioning starts `decommission_device`, which goes through deployments, deviceconnect,
deviceconfig, iot-manager, inventory and at last deviceauth. deviceconfig creates deployments of
type "configuration". deployments asks inventory for the devices of a group and workflows for the
generation of artifacts and configurations.

What makes each component correct: the counters and the status of a deployment follow what its
devices did, deployments reach a device in order and one at a time, an outcome is final, a
deployment ends; a device has the status its authentication sets give it, at most as many devices
are accepted as the limit allows, who was refused is not let in, and the other services can tell
the latest status; the inventory ends with that status whatever the delivery; an artifact in use is
not deleted, an upload is stored once or not at all; a device is connected when its latest
connection is; a configuration that was deployed is the one that was wanted.

## Modules

| Module | Content |
|---|---|
| `DeploymentModel` | pure part of the deployments service: statuses, counters, overall status (`model/deployment.go`, `model/device_deployment.go`) |
| `DeploymentLifecycle` | abstract specification: what the service promises of device deployments |
| `DeviceDeployments` | polls, reports, aborts, decommissioning, resets; refinement mapping to `DeploymentLifecycle` |
| `DeviceDeployments_proofs` | theorems about `DeviceDeployments`: types, conservation of the counters, aborts |
| `DeviceDeployments_traffic` | theorems about `DeviceDeployments` that follow a request over its steps: accounting of the counters, order of delivery, device limit, finish, what stays once it is settled, refinement of `DeploymentLifecycle` |
| `DeviceDeployments_serial` | theorems about `DeviceDeployments` with requests one after the other, those of operators included: the counters of finished deployments, refinement of `DeploymentLifecycle` |
| `DeviceAuth` | deviceauth: admission, sets, tokens, cache, deletion, announcements |
| `DeviceAuth_proofs` | theorems about `DeviceAuth` |
| `StatusBoard` | abstract specification: what the inventory shows of the announced statuses |
| `StatusPipeline` | jobs from deviceauth through the queue and the workers of workflows to inventory, deviceconnect, deviceconfig, iot-manager and back to deviceauth; refinement mapping to `StatusBoard` |
| `StatusPipeline_proofs` | theorems about `StatusPipeline` |
| `Artifacts` | uploads, upload links, the cleanup routine, releases, deletions, the artifacts of deployments |
| `Artifacts_proofs` | theorems about `Artifacts` |
| `DeviceConnection` | the connections of a device to several instances of deviceconnect, its stored status, shutdown |
| `DeviceConnection_proofs` | theorems about `DeviceConnection` |
| `Pipe` | abstract specification: one direction of a stream |
| `Stream` | the stream between a user and a device over NATS; refinement mapping of each direction to `Pipe` |
| `Stream_proofs` | theorems about `Stream` |
| `MC...` | values for TLC of the module named |

`DeviceAuth` and `StatusPipeline` meet at the announcements: `EventsTellStatus` says of the first that whoever
obeys the announcement with the greatest revision has the status of the device, whatever handlers run beside each
other; the second takes that for granted (a status is written and gets the next revision in one step) and has
what can happen to the announcements afterwards. `StatusPipeline` is in itself the composition of deviceauth's side of a
job, workflows, inventory and the three other services that keep a document of a device.
`DeviceConnection` and `Stream` meet at the handler of a connection, which forwards the messages of a stream;
neither uses the state of the other.

### How a model corresponds to the code

Both detailed modules are built alike. A *worker* is a goroutine of the HTTP server with one
request. Its local variables are a record: the parameters of the request, the copies of documents
the handler has read, and `pc`, the database (or cache, or job) operation it executes next. One
action is one such operation together with the computation up to the next: the guards and early
returns of the Go code are in the *continuations* (`BeginUpdate`, `PastCounters`, `SetKnown`,
`BeginSetUpdate`, ...), which say where a request goes on. So whatever the code decides on a copy
it read before is decided on that copy in the model, and other workers run in between. A request
that is cut short (`Fail`) stands for an error of the database, of another service, or a crash: the
worker is idle again, what it wrote stays.

`DeviceDeployments`. `deployments` is the collection of that name; a deployment is first built in
memory, with its creation time, and stored later (`BuildDeployment`, `InsertDeployment`), so that
identifiers are creation times but deployments may be stored in another order. `docs` is the
collection "devices", the device deployments, in the order of insertion; `lastStatus` the collection
of last statuses. `devices` is what the client on the device knows: the deployment it was given and
what it reported last. A poll is the chain `FindActive`, `FindInactive`, `FindNewer`, `FindExisting`,
`InsertDeviceDeployment`, `IncrementDeviceCount`, `SaveRequest`, `Instructions`,
`IncrementTotalSize`; a report, and a poll that ends in "noartifact" or "already-installed", is
`GetDeviceDeployment`, `UpdateStatus`, `FindDeployment`, `UpdateStatsInc`, `SetStatus`,
`SaveLastStatus`; an abort is `CheckFinished`, `AbortDocs`, `Aggregate`, `UpdateStats`, `Finish`.
Abstracted: what artifacts are (`Matching` and `Installed` say whether one fits what a device states of
itself, and whether it runs it already), substates, logs, times, phases of the on-premise build, links.

`DeviceAuth`. `devices`, `authSets` and `tokens` are the collections, `cache` the cached token per
device, `events` the jobs that announce a status, `decommissions` the jobs that delete devices.
A token is named by its authentication set, as in the code (`jti` is the identifier of the set and
`AddToken` replaces), but the cache compares the token itself: `issued` counts the tokens a device was given for a set, up to
`Several`, and of a set with several the one presented may or may not be the one in the cache (`CheckToken`).
Identity data and keys are model values; the unique indices of the database are what
`AddDevice` and `AddSet` test. The cached value after an invalidation is `Marker`. Check-ins are
modelled for the revision they count, not for the time. Left out: a request that names a set and
the identifier of another device, external device tags, changes of limits, deletion of all the
tokens of a tenant, the jobs that only carry attributes.

`StatusPipeline`. `auth` has, per device, the statuses it had by revision (`log`), and whether each was announced;
`unsent` are jobs a handler of deviceauth is about to submit, `jobs` the queue, `workers` the goroutines that execute
jobs task by task (`task`, `attempt`), `known` the documents in deviceconnect, deviceconfig and iot-manager,
`background` the goroutines of iot-manager. A task is one action: the call and what the called handler does to
its database. An unanswered call (`BrokenCall`), an answer that says "error" (`ServerError`), a lost acknowledgement, a
watcher that stops reporting progress (`LoseWatch`) and a crash are faults. The statuses below 400 and the
"statusCodes" of the workflow definitions are `Tolerated`. Bodies, templates and the other workflows are left out.

`Artifacts`. The artifacts are all of one name, the name of the release. `file` and `tmp` are the objects in the
storage, `images` the metadata, `intents` the upload links, `cleaner` the routine that cleans up (`CleanupExpiredUploads`),
`release` the document of the release. An artifact is its type here, since two artifacts of one name conflict if they are for
the same type of device. `GoStale` and `MissHeartbeat` are the passage of time: a link whose heartbeat is old
belongs to a dead routine, or (a fault) to a slow one. Left out: parsing, checksums, quotas, generated artifacts.

`DeviceConnection`. `conns` are the handlers of the connections the device opened, on whichever instances; `registered` the
map of cancel functions of an instance, `doc` the document of the device. `device` is the connection the device holds. A handler is
`Open`, `Register`, `SetDeviceConnected`, `Leave`, `SetDeviceDisconnected`, `UnregisterConnectionCancelHandle`, each
an operation on the registry or on the database. A shutdown (`StartShutdown`, `CancelNext`, `EndShutdown`, `Exit`) is driven by its ticker: it
cancels one handle after the other, gives the lock back after a last interval and lets the process end, whether or not the
handlers are through; time is left out, so that any number of their steps fits in between. `sure` records that nothing has happened the
properties exempt: a failed operation, a crash, a connection stored after a newer one, and a handler that stored the last status and was still
there when its process ended.

`Stream`. `ends` is the shared state of a `natsStream`, `inbox` its `msgChan`. `threads` are the goroutines of an end: the one that calls
`Send`, the one that calls `Recv`, and `main`, the handler of the request, which closes when it returns; in a device's connection that is the listener,
whose `Close` closes its streams (nats.go:407-424, device.go:147-151). Either end may be the first to close, at any time, both may at once, and an end
may be closed by two of its threads (`MayClose`): the user's by `main` and by the thread in `Send` (management.go:672-677), the
device's by `main` and by the thread in `Recv`, whose deferred call closes after a failed write to the websocket (device.go:314, 337-345). The loop of
`Close` takes messages as the other two do. `Cancel` is the end of the context of `Send` or `Recv`: of a device with its connection, of a user when the
handler has returned. `handleMessage` is split where another goroutine can get in between: the message is taken (`TakeData`), compared
and pushed (`Push`, `Skip`), counted and acknowledged (`Count`). The goroutines share `remoteSeq` without a lock.
When two of an end handle data at the same time, copies of one message or two messages, `raced` is set and the behaviour ends: the properties are about what happens
until then, and what may happen after it is described below. NATS is external: order is kept per subscription, a full
subscription loses messages, messages may be lost, a request without a subscriber is refused. Left out: the handshake, the message by which a user's handler stops a
terminal before it closes, the Close inside `handleMessage` after a violation (which does not happen, `NoViolation`), and a second stream
of the connection; a further Close by the goroutine of a device is stood for by that of `main`.

Definitions called "faulty variant" are plausible bugs in the definition that follows them; with
the faulty variant in its place, the property it is meant for is violated. No specification uses them.

## Runs

| Run | Configuration | What it shows |
|---|---|---|
| traffic | one deployment, two devices, two workers, three kinds of devices (the artifact fits; it is installed already; none fits), reports installing, success, failure, one abort | `StatsAccounting`, `FinishedMeansDone`, `DoneMeansFinished` until the operator acts; `SettledIsFinal`, `AbortKeepsOutcomes` in any case |
| order | two deployments on the same two devices, two workers | `FullMeansServed`, `DeliveredInOrder`, `ImplementsLifecycle`, `EveryDeploymentFinishes` |
| failures | one device with two requests at once (a retry beside its original) that reports whenever it likes, forced installation, one request cut short, one decommissioning or reset | `StatsConserved`; `StatsAccounting` until then |
| serial | one worker, deployments for one or both devices, one of them a configuration, two operator requests of all kinds but resets | `FinishedStatsExact`, `ImplementsLifecycle` |
| auth_traffic | two devices one after the other under one identity and key, two workers, all kinds of requests, expiring tokens, two operator requests | `EventsTellStatus`, `TypeOK` |
| auth_serial | one worker, two identities, two keys, three sets, several expiring tokens of a set, a limit of one, three operator requests of all kinds but forced preauthorization and deletion of tokens, without the jobs that delete a device or mark it as provisioned | `StatusFollowsSets`, `LimitRespected`, `CachedIsStored` |
| auth_liveness | no cache, one set, two workers, two operator requests, one request cut short | `AcceptedGetsIn` |
| status | one device, three jobs, two workers, one retry per task, one fault, a device that writes its own attributes | `InventoryFollows`, `AcceptedIsProvisioned`, `DecommissionForgets`, `BoardHonest` |
| status_liveness | two jobs, one worker, two faults | `StatusArrives`, `EveryJobEnds` |
| uploads | two artifacts of two types, one deployment, two workers, three requests of all kinds, links that expire, the cleanup routine, one fault | `OneProcessor`, `ProcessedMeansClean`, `ImageHasFile`, `ReleaseListsArtifacts`, `DeploymentsGetArtifacts`, `LinksSettle` |
| connection | two connections, two instances, two faults, provisioning, deletion, shutdown, crashes | `StatusTellsConnection`, `OneHandlerPerInstance`, `DeletedStaysDeleted`, `OfflineIsShown` |
| stream | two messages to the device and one to the user, numbers modulo 3, an inbox of two, a receive channel of one, one lost message, contexts that end; or one message to the device and three calls of Close, of one round each, by any of the threads of both ends | `NoViolation`, `SendCanReturn`, `PeerLearns`, `IsPipe` |

Why the bounds are enough. The races of the deployments service are between two handlers: two devices on
the counters of a deployment, or a retry beside its original, or an operator beside a device; two
workers give every interleaving of two. Two devices are the least for "the last report" to be a
race, and two deployments the least for an order. `MaxAdmin` bounds the operator's requests, `MaxFailures`
the requests cut short, `MaxSize` how far handed out artifacts are counted, `PerDevice` how many requests of
one device run at once (1: a client that waits for its answer). In deviceauth, two sets of a device are the
least for one to displace the other, two devices under one identity the least for a deletion and a
comeback, `MaxRevision` bounds how many check-ins and provisioning PATCHes disturb the optimistic
writes (status changes count further), `NumDevices` and `NumSets` the identifiers ever used. Where identifiers
run out the request that needs one ends. In the status pipeline three jobs are the least for a late one to
meet two newer ones, `NumJobs` and `MaxRevision` bound submissions and status changes, `Retries` is 1 where workflows has
several, `MaxFaults` bounds everything that goes wrong. For uploads two artifacts are the least for a conflict and a
release that keeps one of two, `MaxRequests` bounds the requests; the same link can be asked for by all of them. Two
connections are the least for an old one to meet a new one, on the same instance or on another, and two faults the least for
a crash beside a failed write. In a stream, 3 is the least modulus for which the next number, the last one and another one
differ, and with two messages one way the numbers begin again; `InboxSize` and `RecvSize` are 8 and 4 in the code and small
here so that they fill up; `MaxCopies` bounds the copies of one message nobody has taken yet. `MaxCloses` bounds the calls of Close: with three, both ends close at
once and one of them by two of its threads. All traffic with every Close is too many states: the constraint `MCClosing` ends a behaviour in which a stream
begins to be closed after a second message or a loss; the theorems cover all of it together. The theorems below
are the answer for what they cover: they have no such bounds. Symmetry (workers; also
identities and keys in `DeviceAuth`) is used for safety only. Where a finite number of jobs, requests, connections or
messages comes to an end the system stops, and the configuration switches the deadlock check off.

Conditions in the properties. Properties conditional on `Undisturbed` or `failures = 0` are conditional because the code does not
keep them otherwise: an abort beside a report makes counters drift, and a crash between two writes is
never made up for. Those of `auth_serial` are for requests one after the other, for the same reason: two
acceptances at once exceed the limit or leave a device with two accepted sets, which
`getDeviceStatus` then reports as broken. A forced preauthorization is excluded there because it leaves the
status of the device alone (FIXME in devauth.go), the deletion of tokens because it forgets the cache. `Unruly`,
`failed`, `interrupted` and `crossed` in `StatusPipeline`, `overlap` in `Artifacts`, `sure` in `DeviceConnection`, `missed` and
`raced` in `Stream` record what the code does not make up for; each is one of the points under "Where the code differs from its documents" or
a plain consequence of at-least-once delivery.

Fairness. `HandlersRun` and the first conjunct of `FairSpec` in `DeviceAuth`: weak fairness of every
worker, a goroutine runs its handler to the end. `ClientsAct`: strong fairness of the devices' polls and
final reports, and of their authentication requests, because the client repeats them at an interval for as long
as it runs, whatever the answers. `StatusPipeline`: weak fairness of the submission, of fetching, of working and of
redelivery (the queue redelivers after AckWait), because the services and the queue run for good and are restarted; none of faults. `Artifacts`: of
the requests, of the cleanup routine, which runs at an interval, and of time. `DeviceConnection`: of the handlers, which
notice a dead connection by the ping timeout, and of the steps of a shutdown, which its ticker drives; nothing in it waits for a handler. Nothing is assumed of
operators, of faults or of the network. `EveryDeploymentFinishes` is not claimed with aborts or failures: a report cut short between
the counters and the overall status may leave the deployment open. `AcceptedGetsIn` does include a
failure; the authentication request that comes next makes up for it. No liveness is claimed of a stream: an acknowledgement
that is lost is never repeated. `SendCanReturn` and `PeerLearns` state as invariants what keeps a stream going otherwise.

Refinements. `ImplementsLifecycle`: a device deployment is mapped to the status of a device in a deployment, the finish
time to "closed", and a deployment lists its devices once it is stored. With requests of different devices at once
and with all requests one after the other every step is a step of `DeploymentLifecycle` or changes nothing there;
with an abort beside a poll or a report it is not. `BoardHonest`: the history of statuses of a device is what was
announced, and its document in the inventory what the board shows; a delivery is a step of `StatusBoard` only if it goes
forward. `IsPipe`: calls of Send begun and returned, the receive channel and what Recv returned are the
state of a `Pipe`; a message that is repeated, lost, dropped or acknowledged changes nothing there.

## Proofs

All theorems hold for every value of the constants that satisfies the assumptions named in the modules (`...Assumption`), which TLC
evaluates in every run: any number of devices, workers, jobs, requests, messages and faults, any interleaving.

`DeviceDeployments_proofs`

- `Invariant`, `TypeCorrect`: `Spec => []TypeOK`. `TypeOK` is not inductive: it does not say that a worker
  about to insert a device deployment has a device and a deployment at hand, or that a worker about to move counters
  has two different statuses. `IInv` adds `JobOK`, which says for each position what the local variables are; the
  proof has a lemma per continuation (it returns a well-formed request) and one per action.
- `CountersConserved`: without the abort of a whole deployment among the kinds of requests,
  `Spec => []StatsConserved`. `SInv` adds that the sum is right from the moment a deployment is built. The only step that
  touches counters is `UpdateStatsInc`, which moves one from `old` to `new`; `JobOK` gives `old # new`. (The abort
  replaces all counters by an aggregation of the device deployments, which is not a matter of moving one.)
- `OutcomesKept`: without the abort of the deployments of a device, `Spec => AbortKeepsOutcomes`. `AInv` adds that the
  flag "active" of a device deployment agrees with its status, since the abort of a deployment selects by the flag, and
  that no request carries "aborted" as the status to write.

`DeviceDeployments_traffic`, on top of `IInv` and `AInv`

- `CountersAccountedFor`: `Spec => []StatsAccounting`, that is until an operator acts or a request is cut short (`Undisturbed`), and for any number of
  polls and reports until then, several of one device at once included. After an abort, a decommissioning, a reset or an error between two writes the counters may differ for good, and nothing is
  claimed. `Acct(d)` says of each counter, not only of their sum,
  what it differs by from the number of device deployments in that status: by the updates that have written the status
  and not moved the counter yet. The steps of the proof are about cardinalities of `InStatus` and `Adjusting`, which
  gain or lose one element (`RInv` has where each kind of request may be).
- `DeliveredInOrderAlways` and `FullMeansServedAlways`, with `PerDevice = 1` and requests of devices and aborts of deployments only
  (both hypotheses are needed: two polls of a device at once insert out of order and count the device twice, and the deletion of a history
  takes device deployments away that stay counted). `Orderly` (`OInv`) says of each worker with a deployment in hand that everything older and
  active for its device was dealt with; `CountedOnce` (`FInv`) that the device count is
  the number of devices with a device deployment, give or take the worker between its insertion and the increment.
- `FinishedOnlyWhenDone` and `FinishedWhenDone`, with `PerDevice = 1` and `Obedient = TRUE`: any number of devices, each with one request in flight,
  that report on what they were given. `Honest` (`CInv`) says that a worker's copy of a device deployment still is what is stored, since
  nobody else writes it; `Untroubled` (`DInv`) that a worker that may set the finish time has seen counters that were complete (`InTime`) and that a
  counter a worker has moved or will move is backed by a device deployment (`Backed`). `FinishedWhenDone` also needs that no list of devices names
  a device twice: the limit of a deployment is the length of its list, a device named twice gets one device deployment, and such a deployment
  never finishes; the code does not look for repetitions.
- `SettledForGood`: `Spec => SettledIsFinal`, with `PerDevice = 1`, `Obedient = TRUE`, `MaxFailures = 0` and requests of devices and aborts of
  deployments only. It is about a deployment that is finished, has no active device and is not held by any request in flight (`Settled`). A report or a poll that
  read it before an abort holds it: what such a request may still change is the race described under "Where the code differs", and the theorem
  says nothing of it. What it excludes is that a request begun after that gets far enough to change anything. A request that does not hold a deployment in its local variables leaves it alone (`OthersLeaveAlone`); a poll looks for an
  active deployment, which a finished one is not (`FinishedStored`, `NobodyTakesUp`); and a report that began before is on a device deployment that was aborted,
  since by `Honest` its device would have carried on otherwise, and is refused (`ReportsLetGo`).
- `LifecycleImplemented`: `Spec => ImplementsLifecycle`, with the same hypotheses and requests of devices only: any number of devices, one request of each
  in flight. An insertion is the start of a device, an update is its change of status, the write that finishes a deployment is its close,
  and all other steps stutter (`LifecycleStep`). That no closed deployment changes is `SettledStays`; that it closes only with every outcome known follows from its
  counters and `FinishedOnlyWhenDone` (`ClosedDone`); that an outcome is never left again from `Honest`.
  TLC finds each of the two properties violated on the instance of `traffic`, or a small variant of it, when any of these hypotheses is dropped.

`DeviceDeployments_serial`, on top of `DeviceDeployments_traffic`, for all requests but the reset of a history (`Serial`: one request handler,
`Obedient = TRUE`, `MaxFailures = 0`, "delete_history" not in `Kinds`), of any number of devices and operators, in any order

- `FinishedExactly`: `Spec => []FinishedStatsExact`. The counters of an unfinished deployment are not the numbers of its device deployments:
  `updateDeviceDeploymentsStatus` inserts an aborted or decommissioned one that is counted nowhere, and the counters go on having its device as "pending". What the
  counters are of is the device deployments whose devices have asked for them, those with a request (`Taken`): `Ledger(d)` says that they
  come to the outcomes of those, with everyone else pending (`Tally`), once the request in flight has moved what it is about to move (`StatsToBe`); that an abort that has
  dealt with its device deployments leaves none active, and holds their numbers once it has aggregated them; and that a request that is to finish the deployment has found it exact and
  over. An abort finishes with an aggregation, which is exact. An update finishes only when the outcomes in the counters are
  as many as the devices on the list; since the device deployments are of different listed devices (`DocsBound`), all of them were taken then,
  and what was not counted is nothing (`TallyComplete`). `SerialInv` adds what this needs of the store (`Store`: a device is active in
  its last device deployment only, which has a request unless a poll is between inserting it and storing that), of the request
  (`Prepared`: what it has looked up is still so, as nobody else writes) and of devices (`Honest`, now also with deployments ended behind a
  device's back). The counters of each step are cardinalities that gain, lose or move one element.
- `LifecycleImplementedSerially`: `Spec => ImplementsLifecycle` under the same hypotheses, where `LifecycleImplemented` has requests of devices only but
  any number at once. `LifeInv` is `SerialInv` with the lists as submitted and no update that sets a device back. There is a lemma per step that
  shows: an insertion starts a device, as "pending" or with the outcome an operator gives (`LifeStarts`), an update changes a
  status (`LifeChanges`), an abort ends all that is active (`LifeAborts`), a write of the status of a deployment closes it only when the `Ledger` has nobody active in it (`LifeCloses`).
  TLC finds each of the two properties violated on the instance of `serial` with two requests at once, with devices that report on anything and with
  resets of histories, and the first one with a request cut short; the second one holds there with one request cut short, which is not proved.

`DeviceAuth_proofs`

- `TypeCorrect`: `Spec => []TypeOK`. `Inv` adds, per request, what its kind and its position say of its local variables
  (`KindOK`, `Allowed`), with the sets known, and that a token was only ever handed out for a set that has a device
  (`SetsOK`); a verification relies on that when it looks its device up in the cache.
- `AnnouncedStatus`: `Spec => []EventsTellStatus`, for any number of requests of devices and operators at once.
  `EventsInv` looks at a device together with its announcements, those included that a request still has to make: nothing is announced of a device that does not exist yet, and
  every announcement has a revision of at least 1 and at most that of the device. The write of a status compares the revision, so
  it announces one that is greater than all announced before; every other write of a device counts a revision
  and leaves the status alone. The creation of a preauthorized device may stay unannounced (its set exists already): then
  nothing is announced of it, or what is has a greater revision (`ToldDropped`).
- `StatusFollows`, `LimitNeverExceeded` and `CacheVouchesRightly`: `Spec => []StatusFollowsSets`, `[]LimitRespected` and `[]CachedIsStored`, with one
  worker, so that requests come one after the other, of any number of devices and operators, in any order. `SerialInv` says that the only
  request is in its `Situation`: `World` (a device per identity, every set with its device, only marked devices are deleted by the job, the limit), which
  holds at every step; `Proper` of every device, which says that it has the status of its sets and that a cached token of it is of a set of its own, and which
  a request may break of its own device only, at the positions `Loose` lists; and `Here`, what the request has done so far: that its copies
  are what is stored, that it has asked for the limit before it accepts, that the cache was emptied before the set loses its acceptance.
  There is a lemma per continuation (`Fits...`: a request that has done this much is in its situation where it goes on) and one per step (`...Serves`).
  For the cache `RecordsInv` adds that the token in the cache is stored, or else tokens expire and its set has several (`Vouched`): the deletion of an expired
  token, which goes by the set, is the only step that takes the record of a token that stays cached. A request about to delete a token deletes one that is not cached, or of
  such a set (`Doomed`); one that has deleted the records with an accepted set, and sees to the cache next, is the exception in between (`Revoking`).
  The hypotheses: no failures (for the first: only as long as there was none), no forced preauthorization (which writes a set without looking at its device), and for
  the cache no deletion of tokens on demand (which leaves the cache alone). TLC finds each of the three properties violated on the instance of `auth_serial`
  without them, except that there the limit holds with forced preauthorization too: this is not proved.

`StatusPipeline_proofs`

- `TypeCorrect`, and `InventoryHonest`: `Spec => BoardHonest`, the refinement of `StatusBoard`. The argument: every job in
  the queue, about to be submitted or in the hands of a worker carries a revision its device has had, with the status of that revision,
  so that whichever of them is executed, how often and when, shows an announced status; and the write in the inventory is
  refused unless the revision is greater. Deletions, first writes by devices and the creation of a document by a late event are
  steps of the board too.
- `InventoryAgrees`: `Spec => []InventoryFollows`. `Agreement` says of each revision of a device that the job that tells it and the
  inventory have the same status for it; `Reported`, that every revision given out has arrived, is under way (queued, about to be submitted
  or in the hands of a worker before the task that writes it), or is excused by an error of that very job.
- `AcceptedGetsProvisioned`: `Spec => []AcceptedIsProvisioned`. `Provisions` follows the job of the latest revision, when it is "accepted": it is under way, or the services
  its tasks so far have called have the device.
- `DecommissionedIsForgotten`: `Spec => []DecommissionForgets`. `Forgets` says which services have forgotten a device a worker is decommissioning, by the
  number of its task, and that nothing else is under way with the device, as long as nothing crossed the removal.

`Artifacts_proofs`

- `TypeCorrect`.
- `NothingLeftBehind`: `Spec => []ProcessedMeansClean`, with crashes, late heartbeats and failures. The
  invariant says that only the cleanup routine settles a link, that it deletes the object before, and that nobody can
  upload with a link that has expired, which it has before it is cleaned up.
- `OneProcessorOnly`: `Spec => []OneProcessor`. Until a fault, a link is "processing" exactly when one worker
  processes it (`Attended`), and is never stale.
- `FilesKept`: `Spec => []ImageHasFile`. `FilesOK` says who may store or delete the file of an artifact: an upload that
  holds the link or the new identifier, alone, until the metadata is there, and deletions from then on; an identifier is never used again.
- `ReleaseAgrees` and `DeploymentsAgree`: `Spec => []ReleaseListsArtifacts`, `Spec => []DeploymentsGetArtifacts`, for any number of workers. `Ordered` looks
  at requests as far as they did overlap (`overlap`): uploads at once may leave the release and the metadata apart only by what each of them has inserted and still
  has to add; with one request at a time it says at each position what the request has read, and who still has to assign artifacts to deployments.

`DeviceConnection_proofs`

- `TypeCorrect`, `OneHandler` (`OneHandlerPerInstance`): who registers cancels all who are registered, and a handler that
  runs uncancelled is registered.
- `StaysDeleted` (`DeletedStaysDeleted`): the disconnect only updates a document that exists, with its version.
- `StatusHonest` (`StatusTellsConnection`): the device opens one connection after the other, each handler that has stored its status
  holds a version of its own (`VersionsOK`), and the newest one holds the version of the document, as long as nothing
  happened that `sure` records: so no other disconnect matches.

`Stream_proofs`

- `TypeCorrect`, `NumbersHold` (`NoViolation`) and `StreamIsPipe` (`IsPipe`), for every modulus from 3, all channel sizes, any
  number of messages, repetitions, losses and closes, until two threads of an end handle data messages at the same time: copies of one message, or a
  copy of the last one beside the next. Both theorems stop there, and the second case is one in which the code does end the stream for a violation of the protocol. The invariant `Orderly` of a direction says that there is a number `c` of messages
  counted such that the sender is at `c` or `c + 1`, the numbers of both ends follow from it modulo `SeqMod`, every copy under way or in
  hand is of message `c` or `c + 1` and copies are in order, and the acknowledgement, if there is one, is of the message
  being sent and the only one. With a modulus of 2 the last message could not be told from the next one.
- `StreamInOrder`: `Spec => [](\A e \in Ends : Direction(e)!InOrder)`. What was delivered, and what still waits in the receive channel, are the messages in order, each once,
  and what is confirmed has arrived. `InSequence` adds to this property of a `Pipe` that one message is on its way at most; the steps of a pipe keep it, and by
  `DirectionSteps` a stream takes no others. A stream whose threads raced takes no further step in the model.
- `SendAlwaysCanReturn`: `Spec => []SendCanReturn`, until two threads of an end raced. `Answerable` says of a call of Send under way that its acknowledgement has
  arrived, is under way or is about to be published, or was lost or dropped (the model counts these), or that the other end still waits for the number of
  the message, so that the next repetition is answered.
- `PeerAlwaysLearns`: `Spec => []PeerLearns`, for any number of closes, begun by either end or by both at once, by any of the threads that close in the code, until a
  farewell or its answer was lost or two threads raced. `Farewell` says that a farewell is only under way from an end that has begun to close, its answer only from one that is closed; that
  the other end of one that has begun to close is closed or has the farewell in its subscription; and that an end is closed only if one of the two has begun to.

Model-checked only: everything under fairness (beyond the prover: `EveryDeploymentFinishes`, `AcceptedGetsIn`, `StatusArrives`,
`EveryJobEnds`, `LinksSettle`, `OfflineIsShown`). Every invariant and every other action property of the runs is
stated by a theorem, under the hypotheses given above.

## Where the code differs from its documents

Met while modelling, by reading or in instances of these modules that are not kept as runs. Paths are under `src/backend`.

Device deployments:

- A report read before an abort and written after it replaces "aborted", which `devices_v1.yaml:70-71` says cannot be changed: the status is
  checked on a copy, the write comes later and is unconditional (`UpdateDeviceDeploymentStatus` in app.go).
- `management_v1.yaml:581` promises to abort all active and pending deployments of a device. The code
  aborts the oldest active device deployment and inserts an aborted one for a single newer deployment (app.go:2084).
- `model/deployment.go:169` says "active is true for unfinished deployments". Two last reports may leave a
  finished deployment active and in progress (app.go:1738).
- A poll that found a deployment active may insert its device deployment after an abort (`management_v1.yaml:315`; app.go:1474).
- Resetting a history does not make a device eligible again for deployments whose device count is full
  (`management_v1.yaml:671-672`; app.go:1468), and does not delete its last status: the query filters
  "deviceid", the key is "_id" (datastore_mongo.go:2170).
- "Decommission deployments for devices and update deployment stats" (api_deployments.go:2067): the decommissioned device deployment
  that is inserted for a deployment the device has not taken up yet adds to the device count, but no counter is moved (app.go:2089); the device stays "pending" in the statistics.
- A report cut short before the counters leaves them behind for good (model/deployment.go:161; app.go:1732).
- Two polls of one device at once insert two device deployments and count the device twice (deployment.go:172; app.go:1508); so
  does a device that is repeated in the list a caller submits (deployment.go:175).
- A deployment stored after a newer one was delivered to a device never reaches that device (app.go:1205, 1463).
- `AbortDeployment` in the API handler lacks a return after its 400 (api_deployments.go:1366).
- `IsNotPending` leaves out "decommissioned" (model/deployment.go); the total size counts artifacts handed out twice, or never.

Artifacts:

- An artifact deleted while a deployment is created, or two uploads of the same name at once beside a deployment, leave a
  deployment without an artifact it should have, or with one that is gone (app.go:708, 493).
- An error between the deletion of the file and that of the metadata leaves metadata without a file (app.go:725). The deletion of
  releases removes metadata and leaves the files (app_releases.go).
- A heartbeat that is late lets a second request process the same upload; its conflict then deletes the file of the first.
- Two deletions of one artifact at once take it off the count of the release twice.
- `handleArtifact` leaves its goroutine behind when the metadata is invalid (app.go:439-441): the pipe is not closed.
- The cleanup routine ends its round at a link that has gone meanwhile, and ends for good at any other error (app_cmd.go).
- "Expired" is the expiry of the link plus a reserve; uploads that skip the verification are not cleaned up.

deviceauth:

- `internal_v1.yaml:51-52` says verification checks revocation, and `pkg/redis/redis.go:234-235`
  that a reader of the invalidation marker should stop caching. `Throttle` takes the marker for a miss and
  `VerifyToken` caches the token after its checks, over the marker (devauth.go:1268, cache.go:240).
- A status whose optimistic write finds another revision is dropped without an error (devauth.go:476-485), for
  instance because of a check-in in between; the next authentication request makes up for it (`AcceptedGetsIn`).
- An error between the write of a status and the submission of its job loses the announcement (devauth.go:489).
- The deletion of the tokens of one device leaves the cached token (devauth.go:1486), and so do the rejection of a
  set by the acceptance of another (devauth.go:889) and the deletion of a set that is not accepted at that time.
- An expired token is deleted by its `jti`, which a token issued since for the same set shares (devauth.go:1188, 1274). The cache compares
  tokens as they are (cache.go:237), so that the newer token stays cached, and is accepted from there, after its record is gone.
- An authentication request beside the deletion of its device may leave a set without a device. The device that
  comes back finds that set, has none of its own, and no operator can accept it; verification deletes such a set only if
  it was accepted (devauth.go:585, 1234). The status of a set can still be changed while its device is being decommissioned.

Status events and workflows:

- A job is acknowledged whatever its result; an unanswered call ends it without the retries its tasks have (processor/process.go:89,
  worker/worker_group.go:256). A `provision_device` that is delivered again after its first task was done fails at that task, and the
  services after it never hear of the device.
- A job that cannot be published is answered with 500 and then 201 (api/http/workflow.go:224-235).
- A device that writes its attributes before its status arrives gets a document without a revision, with which every later status conflicts
  (`UpsertRemoveDeviceAttributes`; `store/datastore.go:99-104` has the rule).
- A status event that arrives after the deletion of the device brings its document back.
- The bulk upsert of statuses shares one `update` map between its models (inventory datastore_mongo.go:467). deviceauth sends
  one device at a time, so that only other callers meet it.
- iot-manager provisions and decommissions after it has answered, in any order (app.go:237).

deviceconnect and streams:

- A connection that is registered and cancelled before it stores its status still stores it, after the newer one: the device is shown
  as disconnected, in the end, while the newer one lives (api/http/device.go:183: the context of the request, not the one that is cancelled).
- A connection whose status cannot be stored returns without closing the websocket. A crash leaves "connected". A device that is
  deleted keeps its connection, and one that connects late brings its document back.
- A shutdown that ends before a handler has set the status back leaves "connected" (app.go:207-217, server.go:95-103): it waits for its ticker, not for the handlers.
- `TestNATSStreamSlowConsumerNoDrop` says "Every forward message arrives exactly once and in order". `Send` and `Recv` both
  handle messages and share `remoteSeq` without a lock: two copies of a message, taken by both at the same time, may both be taken for
  the expected one (pkg/stream/nats.go). Then the message is delivered twice and the numbers are off by one. Or one thread holds a copy
  of message n-1 while the other counts message n: the difference is 2, the stream is closed and the call returns `ErrProtocol` (nats.go:204-212).
- A lost acknowledgement is not repeated: a copy of the last message is ignored, and its sender repeats it until its context ends.
- `Recv` does not look whether the stream is closed. `Close` that meets a refusal, as one of two that cross may, returns without ending the subscription, as does a
  handshake that fails (a shadowed error). The listener touches its map of connections without its lock.

## Plan

Done: `DeviceDeployments` (with its abstract specification, runs and proofs), `DeviceAuth`, `StatusPipeline` with
`StatusBoard`, `Artifacts`, `DeviceConnection`, `Stream` with `Pipe`, and proofs about each of them.

What would come next, in this order:

1. `ImplementsLifecycle` and the limit on accepted devices under the weaker hypotheses TLC finds sufficient: with requests cut short, and with forced
   preauthorization.
2. The handshake of a stream, and the sessions of users in deviceconnect, composed with `DeviceConnection` and `Stream`.
3. deviceconfig: the two writes of a configuration and the job of its deployment, composed with the configuration deployments of
   `DeviceDeployments`. useradm and iot-manager: limits checked before a write, check and removal of an integration.

## Not modelled

The models cover the core logic of the back end; measured in lines they are a small part of it, since most of the
repository is code without a state of its own: clients generated from the API documents (about half of the Go code),
HTTP parsing and error rendering, the drivers of object storage, data types with their validation and marshalling, migrations, the web
interface in TypeScript. Modelling such code line by line would only repeat it. Of what has state, these are left out:

- deviceconfig, useradm: documents written one at a time, with the hazards listed in the plan.
- iot-manager but for its background work: calls to cloud services and web hooks.
- Inventory but for the status of devices: attributes with their limits, groups, filters, search.
- Workflows but for jobs about devices: other workflows, templates and conditions of tasks, the loading of definitions.
- The sessions of deviceconnect: file transfer, terminal recording and playback, the limit on their number.
- The handshake of a stream, the length of time-outs, and what follows the race on its numbers.
- Multi-tenancy (every query is for one tenant; a model is one tenant), phases and limits that exist only in other
  editions, metrics and logging.
