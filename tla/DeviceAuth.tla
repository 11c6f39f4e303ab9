----------------------------- MODULE DeviceAuth -----------------------------
(***************************************************************************)
(* The deviceauth service: how a device asks for admission, how an         *)
(* operator accepts, rejects, preauthorizes, removes or decommissions it,  *)
(* how tokens are issued, verified and revoked, and how the status of a    *)
(* device follows its authentication sets and is announced to the other    *)
(* services (services/deviceauth/devauth, store/mongo, cache).             *)
(*                                                                         *)
(* A request is served by a worker (a goroutine of the HTTP server).  One  *)
(* step of a worker is one operation on the database, on the cache or on   *)
(* the workflows service, with the computation up to the next one.         *)
(***************************************************************************)
EXTENDS Integers, FiniteSets

CONSTANTS
    NumDevices,   \* bound on the devices ever stored; identifiers are 1, 2, ...
    NumSets,      \* bound on the authentication sets ever stored
    Identities,   \* identity data
    Keys,         \* public keys
    NoIdentity,   \* no identity
    NoKey,        \* no key
    Workers,      \* request handlers that may run at the same time
    Kinds,        \* the kinds of requests that arrive
    CacheOn,      \* the service runs with a cache
    DeviceLimit,  \* how many devices may be accepted
    Expiry,       \* tokens expire
    MaxRevision,  \* bound up to which check-ins and the like are counted
    MaxAdmin,     \* bound on the requests of operators
    MaxFailures   \* bound on the requests cut short by an error or a crash

DeviceIds == 1..NumDevices
SetIds == 1..NumSets

AdminKinds ==
    {"set_status", "delete_set", "decommission", "preauthorize", "force",
     "revoke", "delete_tokens"}
OtherKinds == {"auth", "verify", "delete_device", "patch"}

ASSUME SizesAssumption == NumDevices \in Nat /\ NumSets \in Nat
ASSUME NamesAssumption == NoIdentity \notin Identities /\ NoKey \notin Keys
ASSUME KindsAssumption == Kinds \subseteq AdminKinds \union OtherKinds
ASSUME SettingsAssumption == CacheOn \in BOOLEAN /\ Expiry \in BOOLEAN
ASSUME BoundsAssumption ==
    /\ DeviceLimit \in Nat
    /\ MaxRevision \in Nat
    /\ MaxAdmin \in Nat
    /\ MaxFailures \in Nat

VARIABLES
    devices,        \* the collection "devices"
    authSets,       \* the collection "auth_sets"
    tokens,         \* the collection "tokens", by "_id": the set of the token
    cache,          \* the cached token of each device
    issued,         \* how many tokens of each set its device has received
    events,         \* the jobs that announce the status of a device
    decommissions,  \* devices for which the job decommission_device was submitted
    workers,        \* the requests in flight
    admin,          \* requests of operators so far
    failures        \* requests cut short so far

store == <<devices, authSets, tokens, cache, events, decommissions>>
vars == <<devices, authSets, tokens, cache, issued, events, decommissions,
          workers, admin, failures>>

---------------------------------------------------------------------------
(* Statuses.                                                               *)

SetStatuses == {"pending", "accepted", "rejected", "preauthorized"}
DeviceStatuses == SetStatuses \union {"noauth"}
NoStatus == "null"

Weight ==
    [noauth |-> 0, rejected |-> 1, pending |-> 2, preauthorized |-> 3, accepted |-> 4]

\* Faulty variant of Heaviest: without statuses, the result is not initialized.
HeaviestOrNone(S) ==
    IF S = {} THEN NoStatus ELSE CHOOSE st \in S : \A x \in S : Weight[x] <= Weight[st]

\* DeviceStatusFromAuthSetStatuses; getDeviceStatus orders the statuses alike.
Heaviest(S) ==
    IF S = {} THEN "noauth" ELSE CHOOSE st \in S : \A x \in S : Weight[x] <= Weight[st]

ValidTransition(from, to) ==
    \/ to = "accepted" /\ from \in {"rejected", "pending"}
    \/ to = "pending" /\ from # "preauthorized"
    \/ to = "rejected" /\ from \in {"pending", "accepted"}

---------------------------------------------------------------------------
(* State.                                                                  *)

Stages == {"none", "stored", "deleted"}

DeviceType ==
    [stage: Stages, identity: Identities \union {NoIdentity}, status: DeviceStatuses,
     decommissioning: BOOLEAN, revision: Nat]

\* A set belongs to the device it was stored with.
AuthSetType ==
    [stage: Stages, dev: DeviceIds \union {0}, identity: Identities \union {NoIdentity},
     key: Keys \union {NoKey}, status: SetStatuses]

\* A token carries the set as "jti" and its device as "sub".  A set gets a new
\* one at every authentication; from the second on they are several.
Several == 2

\* What the cache holds for a device: nothing, a token of a set, or the value
\* InvalidateCache leaves.
NoToken == 0
Marker == -1
CacheType == SetIds \union {NoToken, Marker}

EventType ==
    [dev: DeviceIds, status: DeviceStatuses \union {"decommissioned"}, revision: Nat]

PCs ==
    {"idle", "find_preauthorized", "get_preauthorized_device", "count_accepted",
     "reject_others", "update_set", "update_device", "submit",
     "add_device", "find_device", "add_set", "find_set", "aggregate",
     "add_token", "check_in",
     "throttle", "get_token", "get_set", "get_device", "cache_token",
     "status_get_set", "status_get_device", "invalidate", "delete_tokens",
     "deletion_get_set", "delete_set", "deletion_get_device", "submit_gone",
     "delete_device", "delete_sets", "flag", "submit_decommission",
     "add_preauthorized_device", "find_existing_device", "add_preauthorized_set",
     "upsert_set", "revoke_get_token", "delete_token", "patch"}

\* The local variables of a request: its parameters (kind, identity, key), the
\* device and the set it works on (dev, set), its copies of their fields
\* (dstatus, revision, sstatus), the status it is to write (new), whether that
\* concerns the device (changes), what it fetched from the cache (cached).
WorkerType ==
    [pc: PCs, kind: Kinds \union {"none"},
     identity: Identities \union {NoIdentity}, key: Keys \union {NoKey},
     dev: DeviceIds \union {0}, set: SetIds \union {0},
     dstatus: DeviceStatuses, revision: Nat, sstatus: SetStatuses \union {NoStatus},
     new: DeviceStatuses \union {NoStatus}, changes: BOOLEAN, cached: CacheType]

Idle ==
    [pc |-> "idle", kind |-> "none", identity |-> NoIdentity, key |-> NoKey,
     dev |-> 0, set |-> 0, dstatus |-> "noauth", revision |-> 0,
     sstatus |-> NoStatus, new |-> NoStatus, changes |-> FALSE, cached |-> NoToken]

Stored(d) == d \in DeviceIds /\ devices[d].stage = "stored"
StoredSets == {s \in SetIds : authSets[s].stage = "stored"}
SetsOf(d) == {s \in StoredSets : authSets[s].dev = d}

---------------------------------------------------------------------------
(* Queries.                                                                *)

\* The indices on the identity, and on the identity with the key, are unique.
DeviceWith(identity) == {d \in DeviceIds : Stored(d) /\ devices[d].identity = identity}
SetWith(identity, key) ==
    {s \in StoredSets : authSets[s].identity = identity /\ authSets[s].key = key}

InSetStatus(d, st) == {s \in SetsOf(d) : authSets[s].status = st}

\* getDeviceStatus gives up on a device with two accepted, or two
\* preauthorized, sets.
Broken(d) ==
    \/ Cardinality(InSetStatus(d, "accepted")) > 1
    \/ Cardinality(InSetStatus(d, "preauthorized")) > 1

\* aggregateDeviceStatus
Aggregated(d) == Heaviest({authSets[s].status : s \in SetsOf(d)})

\* Faulty variant of Admits: off by one.
AdmitsOneMore ==
    Cardinality({d \in DeviceIds : Stored(d) /\ devices[d].status = "accepted"}) <= DeviceLimit

\* canAcceptDevice
Admits ==
    Cardinality({d \in DeviceIds : Stored(d) /\ devices[d].status = "accepted"}) + 1
        <= DeviceLimit

NewDevices == {d \in DeviceIds : devices[d].stage = "none"}
NewSets == {s \in SetIds : authSets[s].stage = "none"}
Least(S) == CHOOSE n \in S : \A m \in S : n <= m

---------------------------------------------------------------------------
(* Continuations of a request.                                             *)

WithDevice(job, d) ==
    [job EXCEPT !.dev = d, !.dstatus = devices[d].status, !.revision = devices[d].revision]

WithSet(job, s) == [job EXCEPT !.set = s, !.sstatus = authSets[s].status]

\* An authentication request ends with a token if its set is accepted.
DeviceDone(job) ==
    IF job.kind = "auth" /\ job.sstatus = "accepted"
    THEN [job EXCEPT !.pc = "add_token"] ELSE Idle

\* updateDeviceStatus: nothing to do if the copy has the status.
BeginDeviceUpdate(job) ==
    IF job.dstatus = job.new THEN DeviceDone(job)
    ELSE [job EXCEPT !.pc = "update_device"]

\* Faulty variant of SetKnown: what is stored of the device is left as it is.
SetKnownOnly(job) == DeviceDone(job)

\* processAuthRequest, with the device and the set at hand.
SetKnown(job) ==
    IF Heaviest({job.sstatus, job.dstatus}) = job.dstatus THEN DeviceDone(job)
    ELSE [job EXCEPT !.pc = "aggregate"]

\* The limit counts if the device is not accepted yet.
Admit(job) ==
    [job EXCEPT !.pc = IF job.dstatus = "accepted" THEN "reject_others"
                       ELSE "count_accepted"]

\* cacheDeleteToken does nothing without a cache.
AfterInvalidate(job) ==
    CASE job.kind = "set_status" -> [job EXCEPT !.pc = "delete_tokens"]
      [] job.kind = "delete_set" -> [job EXCEPT !.pc = "aggregate"]
      [] job.kind = "decommission" -> [job EXCEPT !.pc = "flag"]
      [] job.kind = "revoke" -> [job EXCEPT !.pc = "delete_token"]
      [] OTHER -> Idle

Invalidating(job) ==
    IF CacheOn THEN [job EXCEPT !.pc = "invalidate"] ELSE AfterInvalidate(job)

\* updateAuthSetStatus, for an operator who does not accept the set.
BeginSetUpdate(job) ==
    IF job.sstatus = "accepted" THEN Invalidating(job) ELSE [job EXCEPT !.pc = "update_set"]

AfterSetUpdate(job) ==
    IF job.kind = "set_status" /\ ~job.changes THEN Idle
    ELSE IF job.new = "accepted" THEN BeginDeviceUpdate(job)
    ELSE [job EXCEPT !.pc = "aggregate"]

\* deleteAuthSet, past the deletion of the set.
AfterSetDeletion(job) ==
    IF job.sstatus = "accepted" THEN [job EXCEPT !.pc = "delete_tokens"]
    ELSE [job EXCEPT !.pc = "aggregate"]

AfterTokens(job) ==
    CASE job.kind = "set_status" -> [job EXCEPT !.pc = "update_set"]
      [] job.kind \in {"delete_set", "verify"} -> Invalidating(job)
      [] job.kind = "delete_device" -> [job EXCEPT !.pc = "delete_device"]
      [] OTHER -> Idle

---------------------------------------------------------------------------
At(w, pc) == workers[w].pc = pc

Continue(w, job) == workers' = [workers EXCEPT ![w] = job]

Unchanged == UNCHANGED <<issued, admin, failures>>
ReadOnly == UNCHANGED <<store, issued, admin, failures>>

\* updateDevice: every update counts as a revision.
Revised(d, update) == [devices EXCEPT ![d] = [update EXCEPT !.revision = @ + 1]]

---------------------------------------------------------------------------
(* Requests arrive.                                                        *)

Start(w, job) ==
    /\ At(w, "idle")
    /\ job.kind \in Kinds
    /\ workers' = [workers EXCEPT ![w] = job]
    /\ admin' = IF job.kind \in AdminKinds THEN admin + 1 ELSE admin
    /\ admin' <= MaxAdmin
    /\ UNCHANGED <<store, issued, failures>>

\* A device asks for admission with its identity and key.
StartAuth(w, identity, key) ==
    Start(w, [Idle EXCEPT !.pc = "find_preauthorized", !.kind = "auth",
                          !.identity = identity, !.key = key, !.new = "accepted"])

\* The API gateway has the token of a request verified.
StartVerify(w, s) ==
    /\ issued[s] > 0
    /\ Start(w, [Idle EXCEPT !.pc = "throttle", !.kind = "verify", !.set = s,
                             !.dev = authSets[s].dev])

StartSetStatus(w, s, status) ==
    /\ s \in StoredSets
    /\ status \in {"accepted", "rejected", "pending"}
    /\ Start(w, [Idle EXCEPT !.pc = "status_get_set", !.kind = "set_status",
                             !.dev = authSets[s].dev, !.set = s, !.new = status])

StartDeleteSet(w, s) ==
    /\ s \in StoredSets
    /\ Start(w, [Idle EXCEPT !.pc = "deletion_get_set", !.kind = "delete_set",
                             !.dev = authSets[s].dev, !.set = s])

StartDecommission(w, d) ==
    /\ Stored(d)
    /\ Start(w, Invalidating([Idle EXCEPT !.kind = "decommission", !.dev = d]))

\* The job decommission_device deletes the device, possibly several times.
StartDeleteDevice(w, d) ==
    /\ d \in decommissions
    /\ Start(w, [Idle EXCEPT !.pc = "delete_sets", !.kind = "delete_device", !.dev = d])

StartPreauthorize(w, kind, identity, key) ==
    /\ kind \in {"preauthorize", "force"}
    /\ Start(w, [Idle EXCEPT !.pc = "add_preauthorized_device", !.kind = kind,
                             !.identity = identity, !.key = key, !.new = "preauthorized"])

StartRevoke(w, s) ==
    /\ issued[s] > 0
    /\ Start(w, [Idle EXCEPT !.pc = "revoke_get_token", !.kind = "revoke",
                             !.dev = authSets[s].dev, !.set = s])

StartDeleteTokens(w, d) ==
    /\ Stored(d)
    /\ Start(w, [Idle EXCEPT !.pc = "delete_tokens", !.kind = "delete_tokens", !.dev = d])

\* The job provision_device marks a device as provisioned.
StartPatch(w, d) ==
    /\ \E e \in events : e.dev = d /\ e.status = "accepted"
    /\ Start(w, [Idle EXCEPT !.pc = "patch", !.kind = "patch", !.dev = d])

---------------------------------------------------------------------------
(* Admission of a device.                                                  *)

\* processPreAuthRequest
FindPreauthorized(w) ==
    LET job == workers[w]
        found == {s \in SetWith(job.identity, job.key) : authSets[s].status = "preauthorized"}
    IN /\ At(w, "find_preauthorized")
       /\ \/ found = {} /\ Continue(w, [job EXCEPT !.pc = "add_device", !.new = NoStatus])
          \/ \E s \in found :
               Continue(w, [WithSet(job, s) EXCEPT !.pc = "get_preauthorized_device",
                                                   !.dev = authSets[s].dev])
       /\ ReadOnly

\* handlePreAuthDevice
GetPreauthorizedDevice(w) ==
    LET job == workers[w]
    IN /\ At(w, "get_preauthorized_device")
       /\ Continue(w, IF ~Stored(job.dev) \/ devices[job.dev].decommissioning THEN Idle
                      ELSE Admit(WithDevice(job, job.dev)))
       /\ ReadOnly

CountAccepted(w) ==
    /\ At(w, "count_accepted")
    /\ Continue(w, IF Admits THEN [workers[w] EXCEPT !.pc = "reject_others"] ELSE Idle)
    /\ ReadOnly

\* RejectAuthSetsForDevice; the tokens of the rejected sets stay.
RejectOthers(w) ==
    LET job == workers[w]
        others == InSetStatus(job.dev, "accepted") \ {job.set}
    IN /\ At(w, "reject_others")
       /\ authSets' = [s \in SetIds |-> IF s \in others
                                        THEN [authSets[s] EXCEPT !.status = "rejected"]
                                        ELSE authSets[s]]
       /\ Continue(w, [job EXCEPT !.pc = "update_set"])
       /\ UNCHANGED <<devices, tokens, cache, events, decommissions>>
       /\ Unchanged

\* UpdateAuthSetById; an error ends the request if the set is gone.
UpdateSet(w) ==
    LET job == workers[w]
        there == job.set \in StoredSets
    IN /\ At(w, "update_set")
       /\ authSets' = IF there THEN [authSets EXCEPT ![job.set].status = job.new] ELSE authSets
       /\ Continue(w, IF there THEN AfterSetUpdate([job EXCEPT !.sstatus = job.new]) ELSE Idle)
       /\ UNCHANGED <<devices, tokens, cache, events, decommissions>>
       /\ Unchanged

\* Faulty variant of UpdateDeviceWithRevision: the revision is not compared.
UpdateDeviceAnyRevision(w) ==
    LET job == workers[w]
    IN /\ At(w, "update_device")
       /\ \/ /\ Stored(job.dev)
             /\ devices' = Revised(job.dev, [devices[job.dev] EXCEPT !.status = job.new])
             /\ Continue(w, [job EXCEPT !.pc = "submit", !.dstatus = job.new,
                                        !.revision = job.revision + 1])
          \/ /\ ~Stored(job.dev)
             /\ devices' = devices
             /\ Continue(w, DeviceDone(job))
       /\ UNCHANGED <<authSets, tokens, cache, events, decommissions>>
       /\ Unchanged

\* The status is written if the device still has the revision of the copy;
\* otherwise nothing is written, nothing announced, and the request goes on.
UpdateDeviceWithRevision(w) ==
    LET job == workers[w]
        current == Stored(job.dev) /\ devices[job.dev].revision = job.revision
    IN /\ At(w, "update_device")
       /\ \/ /\ current
             /\ devices' = Revised(job.dev, [devices[job.dev] EXCEPT !.status = job.new])
             /\ Continue(w, [job EXCEPT !.pc = "submit", !.dstatus = job.new,
                                        !.revision = job.revision + 1])
          \/ /\ ~current
             /\ devices' = devices
             /\ Continue(w, DeviceDone(job))
       /\ UNCHANGED <<authSets, tokens, cache, events, decommissions>>
       /\ Unchanged

\* StartWorkflow of update_device_status or provision_device.
Submit(w) ==
    LET job == workers[w]
    IN /\ At(w, "submit")
       /\ events' = events \union
            {[dev |-> job.dev, status |-> job.new, revision |-> job.revision]}
       /\ Continue(w, DeviceDone(job))
       /\ UNCHANGED <<devices, authSets, tokens, cache, decommissions>>
       /\ Unchanged

NewDevice(identity, status) ==
    [stage |-> "stored", identity |-> identity, status |-> status,
     decommissioning |-> FALSE, revision |-> 1]

\* AddDevice fails quietly if there is a device with the identity; without an
\* identifier left (the bound) the request ends.
AddDevice(w) ==
    LET job == workers[w]
        add == DeviceWith(job.identity) = {}
    IN /\ At(w, "add_device")
       /\ devices' = IF add /\ NewDevices # {}
                     THEN [devices EXCEPT ![Least(NewDevices)] = NewDevice(job.identity, "noauth")]
                     ELSE devices
       /\ Continue(w, IF add /\ NewDevices = {} THEN Idle ELSE [job EXCEPT !.pc = "find_device"])
       /\ UNCHANGED <<authSets, tokens, cache, events, decommissions>>
       /\ Unchanged

\* getDeviceFromAuthRequest, past the insertion.
FindDevice(w) ==
    LET job == workers[w]
        found == {d \in DeviceWith(job.identity) : ~devices[d].decommissioning}
    IN /\ At(w, "find_device")
       /\ \/ found = {} /\ Continue(w, Idle)
          \/ \E d \in found : Continue(w, [WithDevice(job, d) EXCEPT !.pc = "add_set"])
       /\ ReadOnly

NewSet(job, status) ==
    [stage |-> "stored", dev |-> job.dev, identity |-> job.identity, key |-> job.key,
     status |-> status]

\* AddAuthSet of processAuthRequest.
AddSet(w) ==
    LET job == workers[w]
        s == Least(NewSets)
    IN /\ At(w, "add_set")
       /\ \/ /\ SetWith(job.identity, job.key) # {}
             /\ authSets' = authSets
             /\ Continue(w, [job EXCEPT !.pc = "find_set"])
          \/ /\ SetWith(job.identity, job.key) = {} /\ NewSets # {}
             /\ authSets' = [authSets EXCEPT ![s] = NewSet(job, "pending")]
             /\ Continue(w, SetKnown([job EXCEPT !.set = s, !.sstatus = "pending"]))
          \/ /\ SetWith(job.identity, job.key) = {} /\ NewSets = {}
             /\ authSets' = authSets
             /\ Continue(w, Idle)
       /\ UNCHANGED <<devices, tokens, cache, events, decommissions>>
       /\ Unchanged

\* GetAuthSetByIdDataHashKey; the set may belong to a device deleted since.
FindSet(w) ==
    LET job == workers[w]
        found == SetWith(job.identity, job.key)
    IN /\ At(w, "find_set")
       /\ \/ found = {} /\ Continue(w, Idle)
          \/ \E s \in found : Continue(w, SetKnown(WithSet(job, s)))
       /\ ReadOnly

\* GetDeviceStatus, for requests of devices and of operators.
Aggregate(w) ==
    LET job == [workers[w] EXCEPT !.new = Aggregated(workers[w].dev)]
    IN /\ At(w, "aggregate")
       /\ Continue(w,
            IF Broken(workers[w].dev) THEN Idle
            ELSE IF job.kind # "delete_set" THEN BeginDeviceUpdate(job)
            ELSE IF job.sstatus = "preauthorized" /\ job.new = "noauth"
            THEN [job EXCEPT !.pc = "submit_gone"]
            ELSE [job EXCEPT !.pc = "deletion_get_device"])
       /\ ReadOnly


---------------------------------------------------------------------------
(* Tokens.                                                                 *)

\* AddToken replaces the token issued for the set before.
AddToken(w) ==
    LET job == workers[w]
    IN /\ At(w, "add_token")
       /\ tokens' = tokens \union {job.set}
       /\ Continue(w, [job EXCEPT !.pc = "check_in"])
       /\ UNCHANGED <<devices, authSets, cache, events, decommissions>>
       /\ Unchanged

\* A check-in counts as a revision; with a cache the database only hears of
\* the first one in a day.
CountCheckIn(d) ==
    IF Stored(d) /\ devices[d].revision < MaxRevision
    THEN \/ devices' = Revised(d, devices[d])
         \/ CacheOn /\ devices' = devices
    ELSE devices' = devices

OneMore(s) == [issued EXCEPT ![s] = IF @ < Several THEN @ + 1 ELSE @]

\* updateCheckInTime, and the end of the request: an authentication request
\* hands out the token, a verification caches it unless it came from there.
CheckIn(w) ==
    LET job == workers[w]
    IN /\ At(w, "check_in")
       /\ CountCheckIn(authSets[job.set].dev)
       /\ issued' = IF job.kind = "auth" THEN OneMore(job.set) ELSE issued
       /\ Continue(w, IF job.kind = "verify" /\ CacheOn /\ job.cached # job.set
                      THEN [job EXCEPT !.pc = "cache_token"] ELSE Idle)
       /\ UNCHANGED <<authSets, tokens, cache, events, decommissions, admin, failures>>

\* checkToken: the cached token if it is the very one presented, else nothing.
\* Of a set with several tokens, another one may be presented than is cached.
CheckToken(job) ==
    {IF CacheOn /\ cache[job.dev] = job.set THEN job.set ELSE NoToken} \union
    {t \in {NoToken} : issued[job.set] = Several}

\* Throttle: the cached token is not looked at any further.  Anything else, the
\* value InvalidateCache leaves included, is a miss; it may have expired, and
\* is then deleted by its set (handleExpiredToken).
Throttle(w) ==
    /\ At(w, "throttle")
    /\ \E token \in CheckToken(workers[w]) :
          LET job == [workers[w] EXCEPT !.cached = token]
              hit == job.cached = job.set
          IN \/ hit /\ Continue(w, [job EXCEPT !.pc = "check_in"])
             \/ ~hit /\ Continue(w, [job EXCEPT !.pc = "get_token"])
             \/ ~hit /\ Expiry /\ Continue(w, [job EXCEPT !.pc = "delete_token"])
    /\ ReadOnly

GetToken(w) ==
    LET job == workers[w]
    IN /\ At(w, "get_token")
       /\ Continue(w, IF job.set \in tokens THEN [job EXCEPT !.pc = "get_set"] ELSE Idle)
       /\ ReadOnly

GetSet(w) ==
    LET job == workers[w]
    IN /\ At(w, "get_set")
       /\ Continue(w, IF job.set \in StoredSets /\ authSets[job.set].status = "accepted"
                      THEN [WithSet(job, job.set) EXCEPT !.pc = "get_device"] ELSE Idle)
       /\ ReadOnly

\* A set without its device is deleted.
GetDevice(w) ==
    LET job == workers[w]
    IN /\ At(w, "get_device")
       /\ Continue(w, IF ~Stored(job.dev) THEN [job EXCEPT !.pc = "delete_set"]
                      ELSE IF devices[job.dev].decommissioning THEN Idle
                      ELSE [job EXCEPT !.pc = "check_in"])
       /\ ReadOnly

\* cacheSetToken, whatever the cache holds by now.
CacheToken(w) ==
    LET job == workers[w]
    IN /\ At(w, "cache_token")
       /\ cache' = [cache EXCEPT ![job.dev] = job.set]
       /\ Continue(w, Idle)
       /\ UNCHANGED <<devices, authSets, tokens, events, decommissions>>
       /\ Unchanged

\* Faulty variant of Invalidate: the cache keeps the token.
InvalidateNothing(w) ==
    /\ At(w, "invalidate")
    /\ Continue(w, AfterInvalidate(workers[w]))
    /\ ReadOnly

\* DeleteToken of the cache.
Invalidate(w) ==
    LET job == workers[w]
    IN /\ At(w, "invalidate")
       /\ cache' = [cache EXCEPT ![job.dev] = Marker]
       /\ Continue(w, AfterInvalidate(job))
       /\ UNCHANGED <<devices, authSets, tokens, events, decommissions>>
       /\ Unchanged

\* DeleteTokenByDevId
DeleteTokens(w) ==
    LET job == workers[w]
    IN /\ At(w, "delete_tokens")
       /\ tokens' = {s \in tokens : authSets[s].dev # job.dev}
       /\ Continue(w, AfterTokens(job))
       /\ UNCHANGED <<devices, authSets, cache, events, decommissions>>
       /\ Unchanged

\* RevokeToken reads the token for the device it belongs to.
RevokeGetToken(w) ==
    LET job == workers[w]
    IN /\ At(w, "revoke_get_token")
       /\ Continue(w, IF job.set \in tokens THEN Invalidating(job) ELSE Idle)
       /\ ReadOnly

\* DeleteToken, for a revoked and for an expired token.
DeleteToken(w) ==
    /\ At(w, "delete_token")
    /\ tokens' = tokens \ {workers[w].set}
    /\ Continue(w, Idle)
    /\ UNCHANGED <<devices, authSets, cache, events, decommissions>>
    /\ Unchanged

---------------------------------------------------------------------------
(* The status of an authentication set.                                    *)

StatusGetSet(w) ==
    LET job == workers[w]
        s == job.set
        valid == /\ s \in StoredSets
                 /\ authSets[s].status # job.new
                 /\ ValidTransition(authSets[s].status, job.new)
    IN /\ At(w, "status_get_set")
       /\ Continue(w, IF valid THEN [WithSet(job, s) EXCEPT !.pc = "status_get_device"] ELSE Idle)
       /\ ReadOnly

\* Faulty variant of MayChange: a set that loses its status is not looked at.
MayOnlyRaise(job) == Heaviest({job.new, job.dstatus}) # job.dstatus

\* deviceStatusWillChange: the new status of the set is above that of the
\* device, or the set had the status of the device.
MayChange(job) ==
    \/ Heaviest({job.new, job.dstatus}) # job.dstatus
    \/ job.sstatus = job.dstatus

StatusGetDevice(w) ==
    LET job == WithDevice(workers[w], workers[w].dev)
        next == [job EXCEPT !.changes = MayChange(job)]
    IN /\ At(w, "status_get_device")
       /\ Continue(w, IF ~Stored(job.dev) THEN Idle
                      ELSE IF job.new = "accepted" THEN Admit(next)
                      ELSE BeginSetUpdate(next))
       /\ ReadOnly

---------------------------------------------------------------------------
(* Deletion.                                                               *)

DeletionGetSet(w) ==
    LET job == workers[w]
    IN /\ At(w, "deletion_get_set")
       /\ Continue(w, IF job.set \in StoredSets
                      THEN [WithSet(job, job.set) EXCEPT !.pc = "delete_set"] ELSE Idle)
       /\ ReadOnly

\* DeleteAuthSetForDevice
DeleteSet(w) ==
    LET job == workers[w]
        there == job.set \in StoredSets
    IN /\ At(w, "delete_set")
       /\ authSets' = IF there THEN [authSets EXCEPT ![job.set].stage = "deleted"] ELSE authSets
       /\ Continue(w, IF there THEN AfterSetDeletion(job) ELSE Idle)
       /\ UNCHANGED <<devices, tokens, cache, events, decommissions>>
       /\ Unchanged

DeletionGetDevice(w) ==
    LET job == workers[w]
    IN /\ At(w, "deletion_get_device")
       /\ Continue(w, IF Stored(job.dev) THEN BeginDeviceUpdate(WithDevice(job, job.dev))
                      ELSE Idle)
       /\ ReadOnly

\* deletePreauthDevice: the inventory is told that the device is gone.
SubmitGone(w) ==
    LET job == workers[w]
    IN /\ At(w, "submit_gone")
       /\ events' = events \union {[dev |-> job.dev, status |-> "decommissioned", revision |-> 0]}
       /\ Continue(w, [job EXCEPT !.pc = "delete_device"])
       /\ UNCHANGED <<devices, authSets, tokens, cache, decommissions>>
       /\ Unchanged

DeleteDevice(w) ==
    LET d == workers[w].dev
    IN /\ At(w, "delete_device")
       /\ devices' = IF Stored(d) THEN [devices EXCEPT ![d].stage = "deleted"] ELSE devices
       /\ Continue(w, Idle)
       /\ UNCHANGED <<authSets, tokens, cache, events, decommissions>>
       /\ Unchanged

\* DeleteAuthSetsForDevice
DeleteSets(w) ==
    LET job == workers[w]
        sets == SetsOf(job.dev)
    IN /\ At(w, "delete_sets")
       /\ authSets' = [s \in SetIds |-> IF s \in sets
                                        THEN [authSets[s] EXCEPT !.stage = "deleted"]
                                        ELSE authSets[s]]
       /\ Continue(w, [job EXCEPT !.pc = "delete_tokens"])
       /\ UNCHANGED <<devices, tokens, cache, events, decommissions>>
       /\ Unchanged

\* DecommissionDevice marks the device; deleting it is up to a job.
Flag(w) ==
    LET job == workers[w]
        d == job.dev
    IN /\ At(w, "flag")
       /\ devices' = IF Stored(d)
                     THEN Revised(d, [devices[d] EXCEPT !.decommissioning = TRUE]) ELSE devices
       /\ Continue(w, IF Stored(d) THEN [job EXCEPT !.pc = "submit_decommission"] ELSE Idle)
       /\ UNCHANGED <<authSets, tokens, cache, events, decommissions>>
       /\ Unchanged

SubmitDecommission(w) ==
    /\ At(w, "submit_decommission")
    /\ decommissions' = decommissions \union {workers[w].dev}
    /\ Continue(w, Idle)
    /\ UNCHANGED <<devices, authSets, tokens, cache, events>>
    /\ Unchanged

---------------------------------------------------------------------------
(* Preauthorization, and the job provision_device.                         *)

\* AddDevice of PreauthorizeDevice; the bounds leave room for the device and its set.
AddPreauthorizedDevice(w) ==
    LET job == workers[w]
        d == Least(NewDevices)
        add == DeviceWith(job.identity) = {}
        next == IF job.kind = "force" THEN [job EXCEPT !.pc = "find_existing_device"] ELSE Idle
    IN /\ At(w, "add_preauthorized_device")
       /\ \/ ~add /\ devices' = devices /\ Continue(w, next)
          \/ /\ add /\ NewDevices # {} /\ NewSets # {}
             /\ devices' = [devices EXCEPT ![d] = NewDevice(job.identity, "preauthorized")]
             /\ Continue(w, [job EXCEPT !.pc = "add_preauthorized_set", !.dev = d,
                                        !.dstatus = "preauthorized", !.revision = 1])
          \/ /\ add /\ (NewDevices = {} \/ NewSets = {})
             /\ devices' = devices
             /\ Continue(w, Idle)
       /\ UNCHANGED <<authSets, tokens, cache, events, decommissions>>
       /\ Unchanged

FindExistingDevice(w) ==
    LET job == workers[w]
        found == DeviceWith(job.identity)
    IN /\ At(w, "find_existing_device")
       /\ \/ found = {} /\ Continue(w, Idle)
          \/ \E d \in found : Continue(w, [job EXCEPT !.pc = "upsert_set", !.dev = d])
       /\ ReadOnly

\* AddAuthSet of PreauthorizeDevice.
AddPreauthorizedSet(w) ==
    LET job == workers[w]
        s == Least(NewSets)
        add == SetWith(job.identity, job.key) = {} /\ NewSets # {}
    IN /\ At(w, "add_preauthorized_set")
       /\ authSets' = IF add THEN [authSets EXCEPT ![s] = NewSet(job, "preauthorized")]
                      ELSE authSets
       /\ Continue(w, IF add THEN [job EXCEPT !.pc = "submit", !.set = s,
                                              !.sstatus = "preauthorized"] ELSE Idle)
       /\ UNCHANGED <<devices, tokens, cache, events, decommissions>>
       /\ Unchanged

\* UpsertAuthSetStatus: neither the device nor its tokens are looked at.
UpsertSet(w) ==
    LET job == workers[w]
        found == SetWith(job.identity, job.key)
        s == Least(IF found # {} THEN found ELSE NewSets)
    IN /\ At(w, "upsert_set")
       /\ authSets' = IF found # {} THEN [authSets EXCEPT ![s].status = "preauthorized"]
                      ELSE IF NewSets # {}
                      THEN [authSets EXCEPT ![s] = NewSet(job, "preauthorized")]
                      ELSE authSets
       /\ Continue(w, Idle)
       /\ UNCHANGED <<devices, tokens, cache, events, decommissions>>
       /\ Unchanged

\* UpdateDevice by the job provision_device.
Patch(w) ==
    LET d == workers[w].dev
    IN /\ At(w, "patch")
       /\ devices' = IF Stored(d) /\ devices[d].revision < MaxRevision
                     THEN Revised(d, devices[d]) ELSE devices
       /\ Continue(w, Idle)
       /\ UNCHANGED <<authSets, tokens, cache, events, decommissions>>
       /\ Unchanged

---------------------------------------------------------------------------
(* What happens to requests and to the cache by itself.                    *)

\* A request ends with an error, or its service crashes, before its next step.
Fail(w) ==
    /\ ~At(w, "idle")
    /\ failures < MaxFailures
    /\ failures' = failures + 1
    /\ Continue(w, Idle)
    /\ UNCHANGED <<store, issued, admin>>

\* Redis drops the cached token of a device, or the marker.
CacheExpires(d) ==
    /\ cache[d] # NoToken
    /\ cache' = [cache EXCEPT ![d] = NoToken]
    /\ UNCHANGED <<devices, authSets, tokens, issued, events, decommissions,
                   workers, admin, failures>>

---------------------------------------------------------------------------
NoDeviceYet ==
    [stage |-> "none", identity |-> NoIdentity, status |-> "noauth",
     decommissioning |-> FALSE, revision |-> 0]

NoSetYet ==
    [stage |-> "none", dev |-> 0, identity |-> NoIdentity, key |-> NoKey, status |-> "pending"]

Init ==
    /\ devices = [d \in DeviceIds |-> NoDeviceYet]
    /\ authSets = [s \in SetIds |-> NoSetYet]
    /\ tokens = {}
    /\ cache = [d \in DeviceIds |-> NoToken]
    /\ issued = [s \in SetIds |-> 0]
    /\ events = {}
    /\ decommissions = {}
    /\ workers = [w \in Workers |-> Idle]
    /\ admin = 0
    /\ failures = 0

Arrival(w) ==
    \/ \E identity \in Identities, key \in Keys :
          \/ StartAuth(w, identity, key)
          \/ \E kind \in {"preauthorize", "force"} : StartPreauthorize(w, kind, identity, key)
    \/ \E s \in SetIds :
          \/ StartVerify(w, s)
          \/ \E status \in SetStatuses : StartSetStatus(w, s, status)
          \/ StartDeleteSet(w, s)
          \/ StartRevoke(w, s)
    \/ \E d \in DeviceIds :
          \/ StartDecommission(w, d)
          \/ StartDeleteDevice(w, d)
          \/ StartDeleteTokens(w, d)
          \/ StartPatch(w, d)

Step(w) ==
    \/ FindPreauthorized(w) \/ GetPreauthorizedDevice(w) \/ CountAccepted(w)
    \/ RejectOthers(w) \/ UpdateSet(w) \/ UpdateDeviceWithRevision(w) \/ Submit(w)
    \/ AddDevice(w) \/ FindDevice(w) \/ AddSet(w) \/ FindSet(w) \/ Aggregate(w)
    \/ AddToken(w) \/ CheckIn(w)
    \/ Throttle(w) \/ GetToken(w) \/ GetSet(w) \/ GetDevice(w) \/ CacheToken(w)
    \/ Invalidate(w) \/ DeleteTokens(w) \/ RevokeGetToken(w) \/ DeleteToken(w)
    \/ StatusGetSet(w) \/ StatusGetDevice(w)
    \/ DeletionGetSet(w) \/ DeleteSet(w) \/ DeletionGetDevice(w) \/ SubmitGone(w)
    \/ DeleteDevice(w) \/ DeleteSets(w) \/ Flag(w) \/ SubmitDecommission(w)
    \/ AddPreauthorizedDevice(w) \/ FindExistingDevice(w) \/ AddPreauthorizedSet(w)
    \/ UpsertSet(w) \/ Patch(w)

Next ==
    \/ \E w \in Workers : Arrival(w) \/ Step(w) \/ Fail(w)
    \/ \E d \in DeviceIds : CacheExpires(d)

Spec == Init /\ [][Next]_vars

\* The server goes on with every request, and the devices ask again and again.
FairSpec ==
    /\ Spec
    /\ \A w \in Workers : WF_vars(Step(w))
    /\ \A identity \in Identities, key \in Keys :
          SF_vars(\E w \in Workers : StartAuth(w, identity, key))

---------------------------------------------------------------------------
(* Properties.                                                             *)

\* Every collection, the cache and the requests hold what the code puts there.
TypeOK ==
    /\ devices \in [DeviceIds -> DeviceType]
    /\ authSets \in [SetIds -> AuthSetType]
    /\ tokens \subseteq SetIds
    /\ cache \in [DeviceIds -> CacheType]
    /\ issued \in [SetIds -> 0..Several]
    /\ events \subseteq EventType
    /\ decommissions \subseteq DeviceIds
    /\ workers \in [Workers -> WorkerType]
    /\ admin \in 0..MaxAdmin
    /\ failures \in 0..MaxFailures

AllIdle == \A w \in Workers : At(w, "idle")

\* The announcements of the status of a device, those still to be made included.
Announcements(d) ==
    {e \in events : e.dev = d /\ e.status # "decommissioned"} \union
    {[dev |-> d, status |-> workers[w].new, revision |-> workers[w].revision] :
        w \in {w \in Workers : workers[w].dev = d
                               /\ workers[w].pc \in {"submit", "add_preauthorized_set"}}}

\* As long as no request was cut short, whoever obeys the announcement with the
\* greatest revision, in whatever order they arrive, has the status the
\* device has (updateDeviceStatus writes the revision and announces it).
EventsTellStatus ==
    failures = 0 =>
        \A d \in DeviceIds :
            LET told == Announcements(d)
            IN Stored(d) =>
                  /\ \A e \in told : e.revision <= devices[d].revision
                  /\ \A e, f \in told : e.revision = f.revision => e = f
                  /\ \A e \in told :
                        (\A f \in told : f.revision <= e.revision) => e.status = devices[d].status
                  /\ told = {} => devices[d].status \in {"noauth", "preauthorized"}

\* Between requests that come one after the other, a device has the status its
\* authentication sets give it: at most one is accepted, and the heaviest counts.
StatusFollowsSets ==
    AllIdle /\ failures = 0 =>
        \A d \in DeviceIds :
            Stored(d) => ~Broken(d) /\ devices[d].status = Aggregated(d)

\* Requests that come one after the other never exceed the limit on accepted
\* devices: every way to acceptance asks canAcceptDevice.
LimitRespected ==
    Cardinality({d \in DeviceIds : Stored(d) /\ devices[d].status = "accepted"}) <= DeviceLimit

\* Between requests, the cache vouches for a token only as long as its device is
\* stored, has an accepted set and has not been decommissioned; and the token is
\* one the service knows, unless an older one of the same set, which has expired,
\* may have had the record deleted (handleExpiredToken): revoking, rejecting,
\* deleting and decommissioning see to the cache as well as to the database.
CachedIsStored ==
    AllIdle =>
        \A d \in DeviceIds :
            cache[d] \in SetIds =>
                /\ Stored(d) /\ ~devices[d].decommissioning
                /\ InSetStatus(d, "accepted") # {}
                /\ cache[d] \in tokens \/ (Expiry /\ issued[cache[d]] = Several)

\* A device one of whose sets was accepted gets the status "accepted", even if
\* the request of the operator lost its write to another one or was cut short:
\* the next authentication request makes up for it (processAuthRequest).
AcceptedGetsIn ==
    \A s \in SetIds :
        LET d == authSets[s].dev
            admitted == /\ s \in StoredSets /\ authSets[s].status = "accepted"
                        /\ Stored(d) /\ ~devices[d].decommissioning
        IN admitted ~> (~admitted \/ devices[d].status = "accepted")
=============================================================================
