------------------------- MODULE DeviceAuth_proofs -------------------------
(***************************************************************************)
(* Proofs about DeviceAuth, for any number of devices, sets, workers,      *)
(* requests and failures, and, from "Requests one after the other" on, for *)
(* one worker.                                                             *)
(***************************************************************************)
EXTENDS DeviceAuth, FiniteSetTheorems, WellFoundedInduction, TLAPS

---------------------------------------------------------------------------
(* The invariant: the types and, per request, what its position and kind   *)
(* say of its local variables.                                             *)

\* Sets that were ever stored.
Known == {s \in SetIds : authSets[s].stage # "none"}

\* What the kind of a request says, wherever it is, with the sets K known.
KindOK(job, K) ==
    /\ job.kind = "auth" /\ job.sstatus # NoStatus => job.set \in K
    /\ job.kind = "verify" => job.set \in SetIds /\ job.dev \in DeviceIds
    /\ job.kind = "delete_set" => job.dev \in DeviceIds

\* Positions at which the status to be written is one of a set, or of a device.
WritesSet ==
    {"find_preauthorized", "get_preauthorized_device", "status_get_set", "status_get_device",
     "count_accepted", "reject_others", "update_set"}
WritesDevice == {"update_device", "deletion_get_device", "submit", "add_preauthorized_set"}

\* Positions of verifications, and others of requests that change no status.
Verifies == {"throttle", "get_token", "get_set", "get_device"}
ChangesNothing == {"deletion_get_set", "delete_set", "delete_sets", "revoke_get_token"}

\* What a request needs to be at a position.
Allowed(job, pc, K) ==
    /\ pc \in WritesSet => job.new \in SetStatuses
    /\ pc \in {"invalidate", "delete_tokens"} /\ job.kind = "set_status"
         => job.new \in SetStatuses
    /\ pc \in WritesDevice => job.new \in DeviceStatuses
    /\ pc \in Verifies => job.kind = "verify"
    /\ pc \in ChangesNothing => job.kind # "set_status"
    /\ pc \in {"add_set", "add_preauthorized_set", "upsert_set", "submit", "submit_gone",
               "submit_decommission"} => job.dev \in DeviceIds
    /\ pc \in {"add_token", "check_in"} =>
         job.set \in SetIds /\ (job.kind = "auth" => job.set \in K)
    /\ pc \in {"add_preauthorized_device", "add_preauthorized_set"} => job.new = "preauthorized"
    /\ pc = "add_preauthorized_set" => job.revision = 1

Good(job, K) == job \in WorkerType /\ KindOK(job, K) /\ Allowed(job, job.pc, K)
RequestsOK == \A w \in Workers : Good(workers[w], Known)

\* A set that was ever stored has a device, and tokens are handed out for such sets.
SetsOK ==
    /\ \A s \in Known : authSets[s].dev \in DeviceIds
    /\ \A s \in SetIds : issued[s] > 0 => s \in Known

Inv == TypeOK /\ RequestsOK /\ SetsOK

---------------------------------------------------------------------------
(* Operators.                                                              *)

\* A set of identifiers that is not empty has a least one.
LEMMA LeastOf ==
    ASSUME NEW S \in SUBSET Nat, S # {}
    PROVE Least(S) \in S
<1> DEFINE R == OpToRel(<, Nat)
<1>1. IsWellFoundedOn(R, Nat)
  BY NatLessThanWellFounded
<1>2. PICK x \in S : \A y \in S : ~(<<y, x>> \in R)
  BY <1>1, WFMin
<1>3. \A y \in S : ~(y < x)
  BY <1>2 DEF OpToRel
<1>4. \A y \in S : x <= y
  BY <1>3
<1> QED BY <1>4 DEF Least

\* The heaviest of statuses of devices is one.
LEMMA HeaviestOf ==
    ASSUME NEW S \in SUBSET DeviceStatuses
    PROVE Heaviest(S) \in DeviceStatuses
<1>1. CASE S = {}
  BY <1>1 DEF Heaviest, DeviceStatuses
<1>2. CASE S # {}
  <2>1. \E st \in S : \A x \in S : Weight[x] <= Weight[st]
    <3>w. /\ Weight["noauth"] = 0 /\ Weight["rejected"] = 1 /\ Weight["pending"] = 2
          /\ Weight["preauthorized"] = 3 /\ Weight["accepted"] = 4
      BY DEF Weight
    <3>1. CASE "accepted" \in S
      BY <3>1, <3>w DEF DeviceStatuses, SetStatuses
    <3>2. CASE "accepted" \notin S /\ "preauthorized" \in S
      BY <3>2, <3>w DEF DeviceStatuses, SetStatuses
    <3>3. CASE "accepted" \notin S /\ "preauthorized" \notin S /\ "pending" \in S
      BY <3>3, <3>w DEF DeviceStatuses, SetStatuses
    <3>4. CASE "accepted" \notin S /\ "preauthorized" \notin S /\ "pending" \notin S
               /\ "rejected" \in S
      BY <3>4, <3>w DEF DeviceStatuses, SetStatuses
    <3>5. CASE S = {"noauth"}
      BY <3>5, <3>w
    <3> QED BY <1>2, <3>1, <3>2, <3>3, <3>4, <3>5 DEF DeviceStatuses, SetStatuses
  <2> QED BY <1>2, <2>1 DEF Heaviest
<1> QED BY <1>1, <1>2

\* The status aggregated from the sets of a device.
LEMMA AggregatedType == TypeOK => \A d : Aggregated(d) \in DeviceStatuses
<1> SUFFICES ASSUME TypeOK, NEW d PROVE Aggregated(d) \in DeviceStatuses
  OBVIOUS
<1>1. {authSets[s].status : s \in SetsOf(d)} \in SUBSET DeviceStatuses
  BY DEF TypeOK, AuthSetType, SetsOf, StoredSets, DeviceStatuses
<1> QED BY <1>1, HeaviestOf DEF Aggregated

\* What the queries find.
LEMMA QueryTypes ==
    /\ NewDevices \in SUBSET Nat /\ NewDevices \subseteq DeviceIds
    /\ NewSets \in SUBSET Nat /\ NewSets \subseteq SetIds
    /\ StoredSets \subseteq SetIds
    /\ \A i : DeviceWith(i) \subseteq DeviceIds
    /\ \A i, k : SetWith(i, k) \subseteq StoredSets
BY SizesAssumption DEF NewDevices, NewSets, StoredSets, DeviceWith, SetWith, DeviceIds, SetIds

---------------------------------------------------------------------------
(* Continuations.                                                          *)

\* A worker without a request.
LEMMA IdleGood == \A K : Good(Idle, K)
BY DEF Good, Idle, WorkerType, PCs, KindOK, Allowed, WritesSet, WritesDevice, Verifies,
   ChangesNothing,
       DeviceStatuses, CacheType, NoStatus

\* Another position.
LEMMA GotoGood ==
    ASSUME NEW K \in SUBSET SetIds, NEW job \in WorkerType, KindOK(job, K),
           NEW pc \in PCs, Allowed(job, pc, K)
    PROVE Good([job EXCEPT !.pc = pc], K)
BY DEF Good, WorkerType, KindOK, Allowed

\* The positions that need nothing.
LEMMA FreeGood ==
    ASSUME NEW K \in SUBSET SetIds, NEW job \in WorkerType, KindOK(job, K),
           NEW pc \in {"aggregate", "flag", "delete_token", "delete_device", "find_device",
                       "find_set", "cache_token", "find_existing_device", "patch", "add_device"}
    PROVE Good([job EXCEPT !.pc = pc], K)
<1>1. Allowed(job, pc, K)
  BY DEF Allowed, WritesSet, WritesDevice, Verifies, ChangesNothing
<1> QED BY <1>1, GotoGood DEF PCs

\* The end of what a request does to a device.
LEMMA DeviceDoneGood ==
    ASSUME NEW K \in SUBSET SetIds, NEW job \in WorkerType, KindOK(job, K)
    PROVE Good(DeviceDone(job), K)
<1>1. CASE job.kind = "auth" /\ job.sstatus = "accepted"
  <2>1. job.set \in K /\ job.set \in SetIds
    BY <1>1 DEF KindOK, NoStatus
  <2>2. Good([job EXCEPT !.pc = "add_token"], K)
    BY <2>1, GotoGood DEF Allowed, PCs, WritesSet, WritesDevice, Verifies, ChangesNothing
  <2> QED BY <1>1, <2>2 DEF DeviceDone
<1>2. CASE ~(job.kind = "auth" /\ job.sstatus = "accepted")
  BY <1>2, IdleGood DEF DeviceDone
<1> QED BY <1>1, <1>2

\* An update of the device, which needs a status.
LEMMA BeginDeviceUpdateGood ==
    ASSUME NEW K \in SUBSET SetIds, NEW job \in WorkerType, KindOK(job, K),
           job.new \in DeviceStatuses
    PROVE Good(BeginDeviceUpdate(job), K)
<1>1. Good([job EXCEPT !.pc = "update_device"], K)
  BY GotoGood DEF Allowed, PCs, WritesSet, WritesDevice, Verifies, ChangesNothing
<1> QED BY <1>1, DeviceDoneGood DEF BeginDeviceUpdate

\* An authentication request that has its set.
LEMMA SetKnownGood ==
    ASSUME NEW K \in SUBSET SetIds, NEW job \in WorkerType, KindOK(job, K)
    PROVE Good(SetKnown(job), K)
BY FreeGood, DeviceDoneGood DEF SetKnown

\* An acceptance, which needs a status for the set.
LEMMA AdmitGood ==
    ASSUME NEW K \in SUBSET SetIds, NEW job \in WorkerType, KindOK(job, K),
           job.new \in SetStatuses
    PROVE Good(Admit(job), K)
<1>1. \A pc \in {"reject_others", "count_accepted"} : Good([job EXCEPT !.pc = pc], K)
  BY GotoGood DEF Allowed, PCs, WritesSet, WritesDevice, Verifies, ChangesNothing
<1> QED BY <1>1 DEF Admit

\* Past the cache.
LEMMA AfterInvalidateGood ==
    ASSUME NEW K \in SUBSET SetIds, NEW job \in WorkerType, KindOK(job, K),
           job.kind = "set_status" => job.new \in SetStatuses
    PROVE Good(AfterInvalidate(job), K)
<1>1. job.kind = "set_status" => Good([job EXCEPT !.pc = "delete_tokens"], K)
  BY GotoGood DEF Allowed, PCs, WritesSet, WritesDevice, Verifies, ChangesNothing
<1> QED BY <1>1, FreeGood, IdleGood DEF AfterInvalidate

\* To the cache.
LEMMA InvalidatingGood ==
    ASSUME NEW K \in SUBSET SetIds, NEW job \in WorkerType, KindOK(job, K),
           job.kind = "set_status" => job.new \in SetStatuses
    PROVE Good(Invalidating(job), K)
<1>1. Good([job EXCEPT !.pc = "invalidate"], K)
  BY GotoGood DEF Allowed, PCs, WritesSet, WritesDevice, Verifies, ChangesNothing
<1> QED BY <1>1, AfterInvalidateGood DEF Invalidating

\* A change of a set to another status than "accepted".
LEMMA BeginSetUpdateGood ==
    ASSUME NEW K \in SUBSET SetIds, NEW job \in WorkerType, KindOK(job, K),
           job.new \in SetStatuses
    PROVE Good(BeginSetUpdate(job), K)
<1>1. Good([job EXCEPT !.pc = "update_set"], K)
  BY GotoGood DEF Allowed, PCs, WritesSet, WritesDevice, Verifies, ChangesNothing
<1> QED BY <1>1, InvalidatingGood DEF BeginSetUpdate

\* Past the change of a set.
LEMMA AfterSetUpdateGood ==
    ASSUME NEW K \in SUBSET SetIds, NEW job \in WorkerType, KindOK(job, K)
    PROVE Good(AfterSetUpdate(job), K)
<1>1. job.new = "accepted" => job.new \in DeviceStatuses
  BY DEF DeviceStatuses, SetStatuses
<1> QED BY <1>1, IdleGood, FreeGood, BeginDeviceUpdateGood DEF AfterSetUpdate

\* Past the deletion of a set.
LEMMA AfterSetDeletionGood ==
    ASSUME NEW K \in SUBSET SetIds, NEW job \in WorkerType, KindOK(job, K),
           job.kind # "set_status"
    PROVE Good(AfterSetDeletion(job), K)
<1>1. Good([job EXCEPT !.pc = "delete_tokens"], K)
  BY GotoGood DEF Allowed, PCs, WritesSet, WritesDevice, Verifies, ChangesNothing
<1> QED BY <1>1, FreeGood DEF AfterSetDeletion

\* Past the deletion of tokens.
LEMMA AfterTokensGood ==
    ASSUME NEW K \in SUBSET SetIds, NEW job \in WorkerType, KindOK(job, K),
           job.kind = "set_status" => job.new \in SetStatuses
    PROVE Good(AfterTokens(job), K)
<1>1. job.kind = "set_status" => Good([job EXCEPT !.pc = "update_set"], K)
  BY GotoGood DEF Allowed, PCs, WritesSet, WritesDevice, Verifies, ChangesNothing
<1> QED BY <1>1, IdleGood, FreeGood, InvalidatingGood DEF AfterTokens

\* The copy of a device.
LEMMA WithDeviceGood ==
    ASSUME NEW K \in SUBSET SetIds, TypeOK, NEW job \in WorkerType, KindOK(job, K),
           NEW d \in DeviceIds
    PROVE /\ WithDevice(job, d) \in WorkerType /\ KindOK(WithDevice(job, d), K)
          /\ WithDevice(job, d).dev = d /\ WithDevice(job, d).new = job.new
          /\ WithDevice(job, d).kind = job.kind /\ WithDevice(job, d).set = job.set
BY DEF WithDevice, TypeOK, DeviceType, WorkerType, KindOK

\* The copy of a set.
LEMMA WithSetGood ==
    ASSUME NEW K \in SUBSET SetIds, TypeOK, NEW job \in WorkerType, KindOK(job, K),
           NEW s \in K
    PROVE /\ WithSet(job, s) \in WorkerType /\ KindOK(WithSet(job, s), K)
          /\ WithSet(job, s).set = s /\ WithSet(job, s).new = job.new
          /\ WithSet(job, s).kind = job.kind /\ WithSet(job, s).dev = job.dev
BY DEF WithSet, TypeOK, AuthSetType, WorkerType, KindOK

---------------------------------------------------------------------------
(* Requests.                                                               *)

\* What a worker has at hand, with more sets known.
LEMMA AtHand ==
    ASSUME TypeOK, RequestsOK, NEW w \in Workers, NEW K, Known \subseteq K
    PROVE /\ workers[w] \in WorkerType /\ KindOK(workers[w], K)
          /\ Allowed(workers[w], workers[w].pc, K)
BY DEF RequestsOK, Good, KindOK, Allowed

\* At first no request is there.
LEMMA InvInit == Init => Inv
<1> SUFFICES ASSUME Init PROVE Inv
  OBVIOUS
<1>1. RequestsOK
  BY IdleGood DEF Init, RequestsOK
<1>2. SetsOK
  BY DEF Init, SetsOK, Known, NoSetYet
<1>3. NoDeviceYet \in DeviceType /\ NoSetYet \in AuthSetType /\ Idle \in WorkerType
  BY IdleGood DEF NoDeviceYet, NoSetYet, DeviceType, AuthSetType, Stages, DeviceStatuses,
                  SetStatuses, Good
<1>4. TypeOK
  BY <1>3, BoundsAssumption DEF Init, TypeOK, CacheType, Several
<1> QED BY <1>1, <1>2, <1>4 DEF Inv

\* A worker that goes on with a request that is in order.
LEMMA Continued ==
    ASSUME TypeOK, RequestsOK, Known \subseteq Known', NEW w \in Workers, NEW job,
           Good(job, Known'), Continue(w, job)
    PROVE workers' \in [Workers -> WorkerType] /\ RequestsOK'
<1>1. \A v \in Workers : Good(workers[v], Known')
  BY DEF RequestsOK, Good, KindOK, Allowed
<1>2. workers' = [workers EXCEPT ![w] = job]
  BY DEF Continue
<1>3. job \in WorkerType
  BY DEF Good
<1>4. workers' \in [Workers -> WorkerType]
  BY <1>2, <1>3 DEF TypeOK
<1>5. \A v \in Workers : Good(workers'[v], Known')
  BY <1>1, <1>2 DEF TypeOK
<1> QED BY <1>4, <1>5 DEF RequestsOK

\* A request that starts in order.
LEMMA Started ==
    ASSUME TypeOK, RequestsOK, NEW w \in Workers, NEW job, Good(job, Known), Start(w, job)
    PROVE workers' \in [Workers -> WorkerType] /\ RequestsOK'
<1>1. Continue(w, job)
  BY DEF Start, Continue
<1>2. Known' = Known
  BY DEF Start, store, Known
<1> QED BY <1>1, <1>2, Continued

\* Every kind of request starts in order.
LEMMA ArrivalGood ==
    ASSUME Inv, NEW w \in Workers, Arrival(w)
    PROVE \E job : Good(job, Known) /\ Start(w, job)
<1> USE DEF Inv
<1>k. Known \in SUBSET SetIds
  BY DEF Known
<1> DEFINE P == \E job : Good(job, Known) /\ Start(w, job)
<1>1. ASSUME NEW identity \in Identities, NEW key \in Keys, StartAuth(w, identity, key) PROVE P
  <2> DEFINE job == [Idle EXCEPT !.pc = "find_preauthorized", !.kind = "auth",
                          !.identity = identity, !.key = key, !.new = "accepted"]
  <2>1. Start(w, job)
    BY <1>1 DEF StartAuth
  <2>2. Good(job, Known)
    BY <2>1 DEF Start, Good, Idle, WorkerType, PCs, KindOK, Allowed, WritesSet, WritesDevice,
                Verifies, ChangesNothing, DeviceStatuses, SetStatuses, CacheType, NoStatus
  <2> QED BY <2>1, <2>2
<1>2. ASSUME NEW identity \in Identities, NEW key \in Keys, NEW kind \in {"preauthorize", "force"},
             StartPreauthorize(w, kind, identity, key)
      PROVE P
  <2> DEFINE job == [Idle EXCEPT !.pc = "add_preauthorized_device", !.kind = kind,
                             !.identity = identity, !.key = key, !.new = "preauthorized"]
  <2>1. Start(w, job)
    BY <1>2 DEF StartPreauthorize
  <2>2. Good(job, Known)
    BY <2>1 DEF Start, Good, Idle, WorkerType, PCs, KindOK, Allowed, WritesSet, WritesDevice,
                Verifies, ChangesNothing, DeviceStatuses, SetStatuses, CacheType, NoStatus
  <2> QED BY <2>1, <2>2
<1>3. ASSUME NEW s \in SetIds, StartVerify(w, s) PROVE P
  <2> DEFINE job == [Idle EXCEPT !.pc = "throttle", !.kind = "verify", !.set = s,
                             !.dev = authSets[s].dev]
  <2>1. Start(w, job) /\ authSets[s].dev \in DeviceIds
    BY <1>3 DEF StartVerify, SetsOK
  <2>2. Good(job, Known)
    BY <2>1 DEF TypeOK, AuthSetType, Start, Good, Idle, WorkerType, PCs, KindOK, Allowed,
       WritesSet,
                WritesDevice, Verifies, ChangesNothing, DeviceStatuses, CacheType, NoStatus
  <2> QED BY <2>1, <2>2
<1>4. ASSUME NEW s \in SetIds, NEW status \in SetStatuses, StartSetStatus(w, s, status) PROVE P
  <2> DEFINE job == [Idle EXCEPT !.pc = "status_get_set", !.kind = "set_status",
                             !.dev = authSets[s].dev, !.set = s, !.new = status]
  <2>1. Start(w, job)
    BY <1>4 DEF StartSetStatus
  <2>2. Good(job, Known)
    BY <2>1 DEF TypeOK, AuthSetType, Start, Good, Idle, WorkerType, PCs, KindOK, Allowed,
       WritesSet,
                WritesDevice, Verifies, ChangesNothing, DeviceStatuses, CacheType, NoStatus
  <2> QED BY <2>1, <2>2
<1>5. ASSUME NEW s \in SetIds, StartDeleteSet(w, s) PROVE P
  <2> DEFINE job == [Idle EXCEPT !.pc = "deletion_get_set", !.kind = "delete_set",
                             !.dev = authSets[s].dev, !.set = s]
  <2>1. Start(w, job) /\ authSets[s].dev \in DeviceIds
    BY <1>5 DEF StartDeleteSet, StoredSets, SetsOK, Known
  <2>2. Good(job, Known)
    BY <2>1 DEF Start, Good, Idle, WorkerType, PCs, KindOK, Allowed, WritesSet,
                WritesDevice, Verifies, ChangesNothing, DeviceStatuses, CacheType, NoStatus
  <2> QED BY <2>1, <2>2
<1>6. ASSUME NEW s \in SetIds, StartRevoke(w, s) PROVE P
  <2> DEFINE job == [Idle EXCEPT !.pc = "revoke_get_token", !.kind = "revoke",
                             !.dev = authSets[s].dev, !.set = s]
  <2>1. Start(w, job)
    BY <1>6 DEF StartRevoke
  <2>2. Good(job, Known)
    BY <2>1 DEF TypeOK, AuthSetType, Start, Good, Idle, WorkerType, PCs, KindOK, Allowed,
       WritesSet,
                WritesDevice, Verifies, ChangesNothing, DeviceStatuses, CacheType, NoStatus
  <2> QED BY <2>1, <2>2
<1>7. ASSUME NEW d \in DeviceIds, StartDecommission(w, d) PROVE P
  <2> DEFINE job == [Idle EXCEPT !.kind = "decommission", !.dev = d]
  <2>1. Start(w, Invalidating(job))
    BY <1>7 DEF StartDecommission
  <2>2. Invalidating(job).kind \in Kinds
    BY <2>1 DEF Start
  <2>3. Invalidating(job).kind = "decommission"
    BY DEF Invalidating, AfterInvalidate, Idle
  <2>4. job \in WorkerType /\ KindOK(job, Known) /\ job.kind # "set_status"
    BY <2>2, <2>3 DEF Idle, WorkerType, PCs, KindOK, DeviceStatuses, CacheType, NoStatus
  <2>5. Good(Invalidating(job), Known)
    BY <2>4, <1>k, InvalidatingGood
  <2> QED BY <2>1, <2>5
<1>8. ASSUME NEW d \in DeviceIds, StartDeleteDevice(w, d) PROVE P
  <2> DEFINE job == [Idle EXCEPT !.pc = "delete_sets", !.kind = "delete_device", !.dev = d]
  <2>1. Start(w, job)
    BY <1>8 DEF StartDeleteDevice
  <2>2. Good(job, Known)
    BY <2>1 DEF Start, Good, Idle, WorkerType, PCs, KindOK, Allowed, WritesSet,
                WritesDevice, Verifies, ChangesNothing, DeviceStatuses, CacheType, NoStatus
  <2> QED BY <2>1, <2>2
<1>9. ASSUME NEW d \in DeviceIds, StartDeleteTokens(w, d) PROVE P
  <2> DEFINE job == [Idle EXCEPT !.pc = "delete_tokens", !.kind = "delete_tokens", !.dev = d]
  <2>1. Start(w, job)
    BY <1>9 DEF StartDeleteTokens
  <2>2. Good(job, Known)
    BY <2>1 DEF Start, Good, Idle, WorkerType, PCs, KindOK, Allowed, WritesSet,
                WritesDevice, Verifies, ChangesNothing, DeviceStatuses, CacheType, NoStatus
  <2> QED BY <2>1, <2>2
<1>10. ASSUME NEW d \in DeviceIds, StartPatch(w, d) PROVE P
  <2> DEFINE job == [Idle EXCEPT !.pc = "patch", !.kind = "patch", !.dev = d]
  <2>1. Start(w, job)
    BY <1>10 DEF StartPatch
  <2>2. Good(job, Known)
    BY <2>1 DEF Start, Good, Idle, WorkerType, PCs, KindOK, Allowed, WritesSet,
                WritesDevice, Verifies, ChangesNothing, DeviceStatuses, CacheType, NoStatus
  <2> QED BY <2>1, <2>2
<1> QED BY <1>1, <1>2, <1>3, <1>4, <1>5, <1>6, <1>7, <1>8, <1>9, <1>10 DEF Arrival

---------------------------------------------------------------------------
(* Authentication sets.                                                    *)

\* A set that is stored has its type, and stays known.
LEMMA SetStored ==
    ASSUME NEW s \in SetIds, NEW job \in WorkerType, job.dev \in DeviceIds,
           NEW status \in SetStatuses
    PROVE /\ NewSet(job, status) \in AuthSetType /\ NewSet(job, status).dev \in DeviceIds
          /\ NewSet(job, status).stage # "none"
BY DEF NewSet, AuthSetType, WorkerType, Stages

\* What has to be said of the sets after a step.
SetsKept ==
    /\ authSets' \in [SetIds -> AuthSetType] /\ Known \subseteq Known'
    /\ \A s \in Known' : authSets'[s].dev \in DeviceIds

\* A set that is as known as before, and of the same device.
SameSet(new, old) == new.dev = old.dev /\ (new.stage = "none" <=> old.stage = "none")

\* No step forgets a set or the device it belongs to.
LEMMA SetsStep == ASSUME Inv, [Next]_vars PROVE SetsKept
<1> USE DEF Inv
<1>t. authSets \in [SetIds -> AuthSetType]
  BY DEF TypeOK
<1>1. CASE UNCHANGED authSets
  BY <1>1, <1>t DEF SetsKept, SetsOK, Known
<1>2. ASSUME NEW f \in [SetIds -> AuthSetType], authSets' = f,
             \A s \in SetIds : SameSet(f[s], authSets[s])
      PROVE SetsKept
  BY <1>2 DEF SetsKept, SetsOK, Known, SameSet
<1>3. ASSUME NEW s \in SetIds, NEW new \in AuthSetType, new.dev \in DeviceIds, new.stage # "none",
             authSets' = [authSets EXCEPT ![s] = new]
      PROVE SetsKept
  BY <1>3, <1>t DEF SetsKept, SetsOK, Known
<1>4. ASSUME NEW w \in Workers, RejectOthers(w) PROVE SetsKept
  <2> DEFINE f == [s \in SetIds |->
                     IF s \in InSetStatus(workers[w].dev, "accepted") \ {workers[w].set}
                     THEN [authSets[s] EXCEPT !.status = "rejected"] ELSE authSets[s]]
  <2>1. f \in [SetIds -> AuthSetType]
    BY <1>t DEF AuthSetType, SetStatuses
  <2>2. \A s \in SetIds : SameSet(f[s], authSets[s])
    BY <1>t DEF AuthSetType, SameSet
  <2>3. authSets' = f
    BY <1>4 DEF RejectOthers
  <2> HIDE DEF f
  <2> QED BY <2>1, <2>2, <2>3, <1>2
<1>5. ASSUME NEW w \in Workers, UpdateSet(w) PROVE SetsKept
  <2>0. workers[w].new \in SetStatuses
    BY <1>5, AtHand DEF UpdateSet, At, Allowed, WritesSet
  <2> DEFINE f == [authSets EXCEPT ![workers[w].set].status = workers[w].new]
  <2>1. f \in [SetIds -> AuthSetType]
    BY <1>t, <2>0 DEF AuthSetType
  <2>2. \A s \in SetIds : SameSet(f[s], authSets[s])
    BY <1>t DEF AuthSetType, SameSet
  <2>3. authSets' = f \/ UNCHANGED authSets
    BY <1>5 DEF UpdateSet
  <2> HIDE DEF f
  <2> QED BY <2>1, <2>2, <2>3, <1>1, <1>2
<1>6. ASSUME NEW w \in Workers, AddSet(w) PROVE SetsKept
  <2>0. workers[w] \in WorkerType /\ workers[w].dev \in DeviceIds
    BY <1>6, AtHand DEF AddSet, At, Allowed
  <2>1. CASE UNCHANGED authSets
    BY <2>1, <1>1
  <2>2. CASE /\ NewSets # {}
             /\ authSets' = [authSets EXCEPT ![Least(NewSets)] = NewSet(workers[w], "pending")]
    <3>1. Least(NewSets) \in SetIds
      BY <2>2, LeastOf, QueryTypes
    <3> QED BY <2>0, <2>2, <3>1, <1>3, SetStored DEF SetStatuses
  <2> QED BY <1>6, <2>1, <2>2 DEF AddSet
<1>7. ASSUME NEW w \in Workers, DeleteSet(w) PROVE SetsKept
  <2> DEFINE f == [authSets EXCEPT ![workers[w].set].stage = "deleted"]
  <2>1. f \in [SetIds -> AuthSetType]
    BY <1>t DEF AuthSetType, Stages
  <2>2. workers[w].set \in StoredSets =>
          \A s \in SetIds : SameSet(f[s], authSets[s])
    BY <1>t DEF AuthSetType, StoredSets, SameSet
  <2>3. (workers[w].set \in StoredSets /\ authSets' = f) \/ UNCHANGED authSets
    BY <1>7 DEF DeleteSet
  <2> HIDE DEF f
  <2> QED BY <2>1, <2>2, <2>3, <1>1, <1>2
<1>8. ASSUME NEW w \in Workers, DeleteSets(w) PROVE SetsKept
  <2> DEFINE f == [s \in SetIds |-> IF s \in SetsOf(workers[w].dev)
                                    THEN [authSets[s] EXCEPT !.stage = "deleted"] ELSE authSets[s]]
  <2>1. f \in [SetIds -> AuthSetType]
    BY <1>t DEF AuthSetType, Stages
  <2>2. \A s \in SetIds : SameSet(f[s], authSets[s])
    BY <1>t DEF AuthSetType, SetsOf, StoredSets, SameSet
  <2>3. authSets' = f
    BY <1>8 DEF DeleteSets
  <2> HIDE DEF f
  <2> QED BY <2>1, <2>2, <2>3, <1>2
<1>9. ASSUME NEW w \in Workers, AddPreauthorizedSet(w) PROVE SetsKept
  <2>0. workers[w] \in WorkerType /\ workers[w].dev \in DeviceIds
    BY <1>9, AtHand DEF AddPreauthorizedSet, At, Allowed
  <2>1. CASE UNCHANGED authSets
    BY <2>1, <1>1
  <2>2. CASE /\ NewSets # {}
             /\ authSets' =
                  [authSets EXCEPT ![Least(NewSets)] = NewSet(workers[w], "preauthorized")]
    <3>1. Least(NewSets) \in SetIds
      BY <2>2, LeastOf, QueryTypes
    <3> QED BY <2>0, <2>2, <3>1, <1>3, SetStored DEF SetStatuses
  <2> QED BY <1>9, <2>1, <2>2 DEF AddPreauthorizedSet
<1>10. ASSUME NEW w \in Workers, UpsertSet(w) PROVE SetsKept
  <2> DEFINE job == workers[w]
             found == SetWith(job.identity, job.key)
  <2>0. job \in WorkerType /\ job.dev \in DeviceIds
    BY <1>10, AtHand DEF UpsertSet, At, Allowed
  <2>1. CASE found # {}
    <3> DEFINE f == [authSets EXCEPT ![Least(found)].status = "preauthorized"]
    <3>1. f \in [SetIds -> AuthSetType]
      BY <1>t DEF AuthSetType, SetStatuses
    <3>2. \A s \in SetIds : SameSet(f[s], authSets[s])
      BY <1>t DEF AuthSetType, SameSet
    <3>3. authSets' = f
      BY <1>10, <2>1 DEF UpsertSet
    <3> HIDE DEF f
    <3> QED BY <3>1, <3>2, <3>3, <1>2
  <2>2. CASE found = {} /\ NewSets # {}
    <3>1. Least(NewSets) \in SetIds
      BY <2>2, LeastOf, QueryTypes
    <3>2. authSets' = [authSets EXCEPT ![Least(NewSets)] = NewSet(job, "preauthorized")]
      BY <1>10, <2>2 DEF UpsertSet
    <3> QED BY <2>0, <3>1, <3>2, <1>3, SetStored DEF SetStatuses
  <2>3. CASE found = {} /\ NewSets = {}
    BY <1>10, <2>3, <1>1 DEF UpsertSet
  <2> QED BY <2>1, <2>2, <2>3
<1>11. ASSUME NEW w \in Workers, Arrival(w) \/ Fail(w) PROVE SetsKept
  <2>1. UNCHANGED authSets
    BY <1>11 DEF Arrival, Fail, Start, StartAuth, StartVerify, StartSetStatus, StartDeleteSet,
                 StartDecommission, StartDeleteDevice, StartPreauthorize, StartRevoke,
                 StartDeleteTokens, StartPatch, store
  <2> QED BY <2>1, <1>1
<1>12. ASSUME NEW w \in Workers, Step(w) PROVE SetsKept
  <2>1. \/ RejectOthers(w) \/ UpdateSet(w) \/ AddSet(w) \/ DeleteSet(w) \/ DeleteSets(w)
        \/ AddPreauthorizedSet(w) \/ UpsertSet(w) \/ UNCHANGED authSets
    BY <1>12 DEF Step, ReadOnly, store, FindPreauthorized, GetPreauthorizedDevice, CountAccepted,
         UpdateDeviceWithRevision, Submit, AddDevice, FindDevice, FindSet, Aggregate, AddToken,
         CheckIn, Throttle, GetToken, GetSet, GetDevice, CacheToken, Invalidate, DeleteTokens,
         RevokeGetToken, DeleteToken, StatusGetSet, StatusGetDevice, DeletionGetSet,
         DeletionGetDevice, SubmitGone, DeleteDevice, Flag, SubmitDecommission,
         AddPreauthorizedDevice, FindExistingDevice, Patch
  <2> QED BY <2>1, <1>1, <1>4, <1>5, <1>6, <1>7, <1>8, <1>9, <1>10
<1> QED BY <1>1, <1>11, <1>12 DEF Next, vars, CacheExpires

---------------------------------------------------------------------------
(* The steps of a request, by what they lead to.                           *)

GoesOn(w) == \E job : Good(job, Known') /\ Continue(w, job)

\* Admission, first part: from the request to the device.
Admitting(w) ==
    \/ FindPreauthorized(w) \/ GetPreauthorizedDevice(w) \/ CountAccepted(w)
    \/ RejectOthers(w) \/ UpdateSet(w) \/ UpdateDeviceWithRevision(w) \/ Submit(w)

\* They leave the request in order.
LEMMA AdmittingGood == ASSUME Inv, NEW w \in Workers, Admitting(w), SetsKept PROVE GoesOn(w)
<1> USE DEF Inv
<1> DEFINE job == workers[w]
           K == Known'
<1>k. Known \subseteq K /\ K \in SUBSET SetIds
  BY DEF SetsKept, Known
<1>0. job \in WorkerType /\ KindOK(job, K) /\ Allowed(job, job.pc, K)
  BY <1>k, AtHand
<1>g. \A new : Good(new, K) /\ Continue(w, new) => GoesOn(w)
  BY DEF GoesOn
<1> HIDE DEF K
<1>1. CASE FindPreauthorized(w)
  <2>1. CASE Continue(w, [job EXCEPT !.pc = "add_device", !.new = NoStatus])
    <3>1. [job EXCEPT !.new = NoStatus] \in WorkerType /\ KindOK([job EXCEPT !.new = NoStatus], K)
      BY <1>0, <1>k DEF WorkerType, KindOK
    <3>2. Good([[job EXCEPT !.new = NoStatus] EXCEPT !.pc = "add_device"], K)
      BY <1>k, <3>1, FreeGood
    <3>3. [[job EXCEPT !.new = NoStatus] EXCEPT !.pc = "add_device"]
            = [job EXCEPT !.pc = "add_device", !.new = NoStatus]
      BY <1>0, <1>k DEF WorkerType
    <3> QED BY <1>g, <2>1, <3>2, <3>3
  <2>2. ASSUME NEW s \in SetIds, authSets[s].stage = "stored",
               authSets[s].status = "preauthorized",
               Continue(w, [WithSet(job, s) EXCEPT !.pc = "get_preauthorized_device",
                                                   !.dev = authSets[s].dev])
        PROVE GoesOn(w)
    <3> DEFINE new == [WithSet(job, s) EXCEPT !.pc = "get_preauthorized_device",
                                              !.dev = authSets[s].dev]
    <3>1. authSets[s].dev \in DeviceIds /\ s \in K
      BY <1>k, <2>2 DEF SetsOK, Known
    <3>2. WithSet(job, s) \in WorkerType /\ KindOK(WithSet(job, s), K)
          /\ WithSet(job, s).set = s /\ WithSet(job, s).new = job.new
      BY <1>0, <1>k, <3>1, WithSetGood
    <3>3. job.new \in SetStatuses
      BY <1>0, <1>k, <1>1 DEF FindPreauthorized, At, Allowed, WritesSet
    <3> DEFINE found == [WithSet(job, s) EXCEPT !.dev = authSets[s].dev]
    <3>4. found \in WorkerType /\ KindOK(found, K) /\ found.new = job.new
      BY <3>1, <3>2 DEF WorkerType, KindOK
    <3>5. Good([found EXCEPT !.pc = "get_preauthorized_device"], K)
      <4> HIDE DEF found
      <4> QED BY <1>k, <3>3, <3>4, GotoGood DEF Allowed, PCs, WritesSet, WritesDevice, Verifies,
                 ChangesNothing
    <3>6. [found EXCEPT !.pc = "get_preauthorized_device"] = new
      BY <3>2 DEF WorkerType
    <3> QED BY <1>g, <2>2, <3>5, <3>6
  <2> QED BY <1>1, <2>1, <2>2 DEF FindPreauthorized, SetWith, StoredSets
<1>2. CASE GetPreauthorizedDevice(w)
  <2>1. CASE ~Stored(job.dev) \/ devices[job.dev].decommissioning
    BY <1>k, <1>g, <1>2, <2>1, IdleGood DEF GetPreauthorizedDevice
  <2>2. CASE Stored(job.dev) /\ ~devices[job.dev].decommissioning
    <3>1. job.dev \in DeviceIds /\ job.new \in SetStatuses
      BY <1>0, <1>k, <1>2, <2>2 DEF Stored, GetPreauthorizedDevice, At, Allowed, WritesSet
    <3>2. Good(Admit(WithDevice(job, job.dev)), K)
      <4> DEFINE new == WithDevice(job, job.dev)
      <4>1. new \in WorkerType /\ KindOK(new, K) /\ new.new \in SetStatuses
        BY <1>0, <1>k, <3>1, WithDeviceGood
      <4>2. Good(Admit(new), K)
        <5> HIDE DEF new
        <5> QED BY <1>k, <4>1, AdmitGood
      <4> QED BY <4>2
    <3> QED BY <1>g, <1>2, <2>2, <3>2 DEF GetPreauthorizedDevice
  <2> QED BY <2>1, <2>2
<1>3. CASE CountAccepted(w)
  <2>1. job.new \in SetStatuses
    BY <1>0, <1>k, <1>3 DEF CountAccepted, At, Allowed, WritesSet
  <2>2. Good([job EXCEPT !.pc = "reject_others"], K)
    <3>1. Allowed(job, "reject_others", K)
      BY <1>0, <2>1 DEF Allowed, WritesSet, WritesDevice, Verifies, ChangesNothing
    <3> QED BY <1>0, <1>k, <3>1, GotoGood DEF PCs
  <2> QED BY <1>k, <1>g, <1>3, <2>2, IdleGood DEF CountAccepted
<1>4. CASE RejectOthers(w)
  <2>1. job.new \in SetStatuses
    BY <1>0, <1>k, <1>4 DEF RejectOthers, At, Allowed, WritesSet
  <2>2. Good([job EXCEPT !.pc = "update_set"], K)
    <3>1. Allowed(job, "update_set", K)
      BY <1>0, <2>1 DEF Allowed, WritesSet, WritesDevice, Verifies, ChangesNothing
    <3> QED BY <1>0, <1>k, <3>1, GotoGood DEF PCs
  <2> QED BY <1>g, <1>4, <2>2 DEF RejectOthers
<1>5. CASE UpdateSet(w)
  <2>1. CASE job.set \in StoredSets
    <3> DEFINE new == [job EXCEPT !.sstatus = job.new]
    <3>1. job.new \in SetStatuses
      BY <1>0, <1>k, <1>5 DEF UpdateSet, At, Allowed, WritesSet
    <3>2. new \in WorkerType /\ KindOK(new, K)
      BY <1>0, <1>k, <2>1, <3>1 DEF WorkerType, KindOK, StoredSets, Known
    <3>3. Good(AfterSetUpdate(new), K)
      BY <1>k, <3>2, AfterSetUpdateGood
    <3> QED BY <1>g, <1>5, <2>1, <3>3 DEF UpdateSet
  <2>2. CASE job.set \notin StoredSets
    BY <1>k, <1>g, <1>5, <2>2, IdleGood DEF UpdateSet
  <2> QED BY <2>1, <2>2
<1>6. CASE UpdateDeviceWithRevision(w)
  <2>1. CASE Continue(w, DeviceDone(job))
    BY <1>g, <1>0, <1>k, <2>1, DeviceDoneGood
  <2>2. CASE /\ Stored(job.dev)
             /\ Continue(w, [job EXCEPT !.pc = "submit", !.dstatus = job.new,
                                        !.revision = job.revision + 1])
    <3>1. job.dev \in DeviceIds /\ job.new \in DeviceStatuses
      BY <1>0, <1>k, <1>6, <2>2 DEF Stored, UpdateDeviceWithRevision, At, Allowed, WritesDevice
    <3> DEFINE next == job.revision + 1
               new == [job EXCEPT !.dstatus = job.new, !.revision = next]
    <3>a. next \in Nat
      BY <1>0, <1>k DEF WorkerType
    <3>2. new \in WorkerType /\ KindOK(new, K) /\ new.dev = job.dev /\ new.new = job.new
      <4> HIDE DEF next
      <4> QED BY <1>0, <1>k, <3>1, <3>a DEF WorkerType, KindOK
    <3>3. Good([new EXCEPT !.pc = "submit"], K)
      <4> HIDE DEF new
      <4> QED BY <1>k, <3>1, <3>2, GotoGood DEF Allowed, PCs, WritesSet, WritesDevice, Verifies,
                 ChangesNothing
    <3>4. [new EXCEPT !.pc = "submit"]
            = [job EXCEPT !.pc = "submit", !.dstatus = job.new, !.revision = job.revision + 1]
      BY <1>0, <1>k DEF WorkerType
    <3> QED BY <1>g, <2>2, <3>3, <3>4
  <2> QED BY <1>6, <2>1, <2>2 DEF UpdateDeviceWithRevision
<1>7. CASE Submit(w)
  BY <1>g, <1>0, <1>k, <1>7, DeviceDoneGood DEF Submit
<1> QED BY <1>1, <1>2, <1>3, <1>4, <1>5, <1>6, <1>7 DEF Admitting

\* Admission, second part: the device and the set, and what they say.
Asking(w) ==
    \/ AddDevice(w) \/ FindDevice(w) \/ AddSet(w) \/ FindSet(w) \/ Aggregate(w)
    \/ AddToken(w) \/ CheckIn(w)

\* So do these.
LEMMA AskingGood == ASSUME Inv, NEW w \in Workers, Asking(w), SetsKept PROVE GoesOn(w)
<1> USE DEF Inv
<1> DEFINE job == workers[w]
           K == Known'
<1>k. Known \subseteq K /\ K \in SUBSET SetIds
  BY DEF SetsKept, Known
<1>0. job \in WorkerType /\ KindOK(job, K) /\ Allowed(job, job.pc, K)
  BY <1>k, AtHand
<1>g. \A new : Good(new, K) /\ Continue(w, new) => GoesOn(w)
  BY DEF GoesOn
<1> HIDE DEF K
<1>1. CASE AddDevice(w)
  <2>1. Good([job EXCEPT !.pc = "find_device"], K)
    BY <1>0, <1>k, FreeGood
  <2> QED BY <1>k, <1>g, <1>1, <2>1, IdleGood DEF AddDevice
<1>2. CASE FindDevice(w)
  <2>1. CASE Continue(w, Idle)
    BY <1>k, <1>g, <2>1, IdleGood
  <2>2. ASSUME NEW d \in DeviceIds, Continue(w, [WithDevice(job, d) EXCEPT !.pc = "add_set"])
        PROVE GoesOn(w)
    <3>1. WithDevice(job, d) \in WorkerType /\ KindOK(WithDevice(job, d), K)
          /\ WithDevice(job, d).dev = d
      BY <1>0, <1>k, WithDeviceGood
    <3>2. Good([WithDevice(job, d) EXCEPT !.pc = "add_set"], K)
      BY <1>k, <3>1, GotoGood DEF Allowed, PCs, WritesSet, WritesDevice, Verifies, ChangesNothing
    <3> QED BY <1>g, <2>2, <3>2
  <2> QED BY <1>2, <2>1, <2>2 DEF FindDevice, DeviceWith
<1>3. CASE AddSet(w)
  <2> DEFINE s == Least(NewSets)
  <2>1. CASE Continue(w, [job EXCEPT !.pc = "find_set"])
    <3>1. Good([job EXCEPT !.pc = "find_set"], K)
      BY <1>0, <1>k, FreeGood
    <3> QED BY <1>g, <2>1, <3>1
  <2>2. CASE /\ NewSets # {} /\ authSets' = [authSets EXCEPT ![s] = NewSet(job, "pending")]
             /\ Continue(w, SetKnown([job EXCEPT !.set = s, !.sstatus = "pending"]))
    <3>0. s \in SetIds
      BY <2>2, LeastOf, QueryTypes
    <3>1. s \in SetIds /\ s \in K
      <4>1. authSets'[s].stage = "stored"
        BY <2>2, <3>0 DEF NewSet, TypeOK
      <4> QED BY <3>0, <4>1 DEF Known, K
    <3>2. /\ [job EXCEPT !.set = s, !.sstatus = "pending"] \in WorkerType
          /\ KindOK([job EXCEPT !.set = s, !.sstatus = "pending"], K)
      BY <1>0, <1>k, <3>1 DEF WorkerType, KindOK, SetStatuses
    <3>3. Good(SetKnown([job EXCEPT !.set = s, !.sstatus = "pending"]), K)
      BY <1>k, <3>2, SetKnownGood
    <3> QED BY <1>g, <2>2, <3>3
  <2>3. CASE Continue(w, Idle)
    BY <1>k, <1>g, <2>3, IdleGood
  <2> QED BY <1>3, <2>1, <2>2, <2>3 DEF AddSet
<1>4. CASE FindSet(w)
  <2>1. CASE Continue(w, Idle)
    BY <1>k, <1>g, <2>1, IdleGood
  <2>2. ASSUME NEW s \in Known, Continue(w, SetKnown(WithSet(job, s)))
        PROVE GoesOn(w)
    BY <1>g, <1>0, <1>k, <2>2, WithSetGood, SetKnownGood
  <2> QED BY <1>4, <2>1, <2>2 DEF FindSet, SetWith, StoredSets, Known
<1>5. CASE Aggregate(w)
  <2> DEFINE new == [job EXCEPT !.new = Aggregated(job.dev)]
  <2>1. Aggregated(job.dev) \in DeviceStatuses
    BY AggregatedType
  <2>2. new \in WorkerType /\ KindOK(new, K) /\ new.new \in DeviceStatuses /\ new.kind = job.kind
        /\ new.dev = job.dev
    BY <1>0, <1>k, <2>1 DEF WorkerType, KindOK
  <2>3. Good(BeginDeviceUpdate(new), K)
    BY <1>k, <2>2, BeginDeviceUpdateGood
  <2>4. ASSUME job.kind = "delete_set", NEW pc \in {"submit_gone", "deletion_get_device"}
        PROVE Good([new EXCEPT !.pc = pc], K)
    <3>1. new.dev \in DeviceIds
      BY <2>2, <2>4 DEF KindOK
    <3> HIDE DEF new
    <3> QED BY <1>k, <2>2, <3>1, GotoGood DEF Allowed, PCs, WritesSet, WritesDevice, Verifies,
               ChangesNothing
  <2>5. CASE Continue(w, Idle)
    BY <1>k, <1>g, <2>5, IdleGood
  <2>6. CASE job.kind # "delete_set" /\ Continue(w, BeginDeviceUpdate(new))
    BY <1>g, <2>3, <2>6
  <2>7. CASE job.kind = "delete_set" /\ Continue(w, [new EXCEPT !.pc = "submit_gone"])
    BY <1>g, <2>4, <2>7
  <2>8. CASE job.kind = "delete_set" /\ Continue(w, [new EXCEPT !.pc = "deletion_get_device"])
    BY <1>g, <2>4, <2>8
  <2>9. new.kind = job.kind
    BY <2>2
  <2> QED BY <1>5, <2>5, <2>6, <2>7, <2>8, <2>9 DEF Aggregate
<1>6. CASE AddToken(w)
  <2>1. job.set \in SetIds /\ (job.kind = "auth" => job.set \in K)
    BY <1>0, <1>k, <1>6 DEF AddToken, At, Allowed
  <2>2. Good([job EXCEPT !.pc = "check_in"], K)
    <3>1. Allowed(job, "check_in", K)
      BY <1>0, <2>1 DEF Allowed, WritesSet, WritesDevice, Verifies, ChangesNothing
    <3> QED BY <1>0, <1>k, <3>1, GotoGood DEF PCs
  <2> QED BY <1>g, <1>6, <2>2 DEF AddToken
<1>7. CASE CheckIn(w)
  <2>1. Good([job EXCEPT !.pc = "cache_token"], K)
    BY <1>0, <1>k, FreeGood
  <2> QED BY <1>k, <1>g, <1>7, <2>1, IdleGood DEF CheckIn
<1> QED BY <1>1, <1>2, <1>3, <1>4, <1>5, <1>6, <1>7 DEF Asking

\* Tokens.
Checking(w) ==
    \/ Throttle(w) \/ GetToken(w) \/ GetSet(w) \/ GetDevice(w) \/ CacheToken(w)
    \/ Invalidate(w) \/ DeleteTokens(w) \/ RevokeGetToken(w) \/ DeleteToken(w)

\* So do these.
LEMMA CheckingGood == ASSUME Inv, NEW w \in Workers, Checking(w), SetsKept PROVE GoesOn(w)
<1> USE DEF Inv
<1> DEFINE job == workers[w]
           K == Known'
<1>k. Known \subseteq K /\ K \in SUBSET SetIds
  BY DEF SetsKept, Known
<1>0. job \in WorkerType /\ KindOK(job, K) /\ Allowed(job, job.pc, K)
  BY <1>k, AtHand
<1>g. \A new : Good(new, K) /\ Continue(w, new) => GoesOn(w)
  BY DEF GoesOn
<1> HIDE DEF K
<1>1. CASE Throttle(w)
  <2>1. job.kind = "verify"
    BY <1>0, <1>k, <1>1 DEF Throttle, At, Allowed, Verifies
  <2>2. job.set \in SetIds
    BY <1>0, <2>1 DEF KindOK
  <2>t. PICK found \in CheckToken(job) :
          \E pc \in {"check_in", "get_token", "delete_token"} :
             Continue(w, [[job EXCEPT !.cached = found] EXCEPT !.pc = pc])
    BY <1>1 DEF Throttle
  <2>c. found \in CacheType
    BY <2>2, <2>t DEF CheckToken, CacheType
  <2> DEFINE new == [job EXCEPT !.cached = found]
  <2>3. new \in WorkerType /\ KindOK(new, K) /\ new.kind = "verify" /\ new.set = job.set
    BY <1>0, <2>1, <2>2, <2>c DEF WorkerType, KindOK
  <2>4. \A pc \in {"check_in", "get_token", "delete_token"} : Good([new EXCEPT !.pc = pc], K)
    <3> HIDE DEF new
    <3> QED BY <1>k, <2>2, <2>3, GotoGood DEF Allowed, PCs, WritesSet, WritesDevice, Verifies,
               ChangesNothing
  <2>5. \E pc \in {"check_in", "get_token", "delete_token"} : Continue(w, [new EXCEPT !.pc = pc])
    BY <2>t
  <2> QED BY <2>4, <2>5, <1>g
<1>2. CASE GetToken(w)
  <2>1. job.kind = "verify"
    BY <1>0, <1>k, <1>2 DEF GetToken, At, Allowed, Verifies
  <2>2. Good([job EXCEPT !.pc = "get_set"], K)
    <3>1. Allowed(job, "get_set", K)
      BY <1>0, <2>1 DEF Allowed, WritesSet, WritesDevice, Verifies, ChangesNothing
    <3> QED BY <1>0, <1>k, <3>1, GotoGood DEF PCs
  <2> QED BY <1>k, <1>g, <1>2, <2>2, IdleGood DEF GetToken
<1>3. CASE GetSet(w)
  <2>1. job.kind = "verify"
    BY <1>0, <1>k, <1>3 DEF GetSet, At, Allowed, Verifies
  <2>2. ASSUME job.set \in Known PROVE Good([WithSet(job, job.set) EXCEPT !.pc = "get_device"], K)
    <3> DEFINE new == WithSet(job, job.set)
    <3>1. new \in WorkerType /\ KindOK(new, K) /\ new.kind = "verify"
      BY <1>0, <1>k, <2>1, <2>2, WithSetGood
    <3>2. Good([new EXCEPT !.pc = "get_device"], K)
      <4> HIDE DEF new
      <4> QED BY <1>k, <3>1, GotoGood DEF Allowed, PCs, WritesSet, WritesDevice, Verifies,
                                          ChangesNothing
    <3> QED BY <3>2
  <2> QED BY <1>k, <1>g, <1>3, <2>2, IdleGood DEF GetSet, StoredSets, Known
<1>4. CASE GetDevice(w)
  <2>1. job.kind = "verify" /\ job.set \in SetIds
    BY <1>0, <1>k, <1>4 DEF GetDevice, At, Allowed, Verifies, KindOK
  <2>2. Good([job EXCEPT !.pc = "delete_set"], K) /\ Good([job EXCEPT !.pc = "check_in"], K)
    <3>1. Allowed(job, "delete_set", K) /\ Allowed(job, "check_in", K)
      BY <1>0, <2>1 DEF Allowed, WritesSet, WritesDevice, Verifies, ChangesNothing
    <3> QED BY <1>0, <1>k, <3>1, GotoGood DEF PCs
  <2> QED BY <1>k, <1>g, <1>4, <2>2, IdleGood DEF GetDevice
<1>5. CASE CacheToken(w) \/ DeleteToken(w)
  BY <1>k, <1>g, <1>5, IdleGood DEF CacheToken, DeleteToken
<1>6. CASE Invalidate(w)
  <2>1. job.kind = "set_status" => job.new \in SetStatuses
    BY <1>0, <1>k, <1>6 DEF Invalidate, At, Allowed
  <2> QED BY <1>g, <1>0, <1>k, <1>6, <2>1, AfterInvalidateGood DEF Invalidate
<1>7. CASE DeleteTokens(w)
  <2>1. job.kind = "set_status" => job.new \in SetStatuses
    BY <1>0, <1>k, <1>7 DEF DeleteTokens, At, Allowed
  <2> QED BY <1>g, <1>0, <1>k, <1>7, <2>1, AfterTokensGood DEF DeleteTokens
<1>8. CASE RevokeGetToken(w)
  <2>1. job.kind # "set_status"
    BY <1>0, <1>k, <1>8 DEF RevokeGetToken, At, Allowed, Verifies, ChangesNothing
  <2> QED BY <1>g, <1>0, <1>k, <1>8, <2>1, InvalidatingGood, IdleGood DEF RevokeGetToken
<1> QED BY <1>1, <1>2, <1>3, <1>4, <1>5, <1>6, <1>7, <1>8 DEF Checking

\* The status of a set, and the deletion of sets and devices.
Changing(w) ==
    \/ StatusGetSet(w) \/ StatusGetDevice(w)
    \/ DeletionGetSet(w) \/ DeleteSet(w) \/ DeletionGetDevice(w) \/ SubmitGone(w)
    \/ DeleteDevice(w) \/ DeleteSets(w) \/ Flag(w) \/ SubmitDecommission(w)

\* So do these.
LEMMA ChangingGood == ASSUME Inv, NEW w \in Workers, Changing(w), SetsKept PROVE GoesOn(w)
<1> USE DEF Inv
<1> DEFINE job == workers[w]
           K == Known'
<1>k. Known \subseteq K /\ K \in SUBSET SetIds
  BY DEF SetsKept, Known
<1>0. job \in WorkerType /\ KindOK(job, K) /\ Allowed(job, job.pc, K)
  BY <1>k, AtHand
<1>g. \A new : Good(new, K) /\ Continue(w, new) => GoesOn(w)
  BY DEF GoesOn
<1> HIDE DEF K
<1>1. CASE StatusGetSet(w)
  <2>1. job.new \in SetStatuses
    BY <1>0, <1>k, <1>1 DEF StatusGetSet, At, Allowed, WritesSet
  <2>2. ASSUME job.set \in Known
        PROVE Good([WithSet(job, job.set) EXCEPT !.pc = "status_get_device"], K)
    <3> DEFINE new == WithSet(job, job.set)
    <3>1. new \in WorkerType /\ KindOK(new, K) /\ new.new \in SetStatuses
      BY <1>0, <1>k, <2>1, <2>2, WithSetGood
    <3>2. Good([new EXCEPT !.pc = "status_get_device"], K)
      <4> HIDE DEF new
      <4> QED BY <1>k, <3>1, GotoGood DEF Allowed, PCs, WritesSet, WritesDevice, Verifies,
                                          ChangesNothing
    <3> QED BY <3>2
  <2> QED BY <1>k, <1>g, <1>1, <2>2, IdleGood DEF StatusGetSet, StoredSets, Known
<1>2. CASE StatusGetDevice(w)
  <2>1. job.new \in SetStatuses
    BY <1>0, <1>k, <1>2 DEF StatusGetDevice, At, Allowed, WritesSet
  <2>2. CASE ~Stored(job.dev)
    BY <1>k, <1>g, <1>2, <2>2, IdleGood DEF StatusGetDevice, WithDevice
  <2>3. CASE Stored(job.dev)
    <3> DEFINE copy == WithDevice(job, job.dev)
               change == MayChange(copy)
               new == [copy EXCEPT !.changes = change]
    <3>1. job.dev \in DeviceIds
      BY <2>3 DEF Stored
    <3>2. copy \in WorkerType /\ KindOK(copy, K) /\ copy.new = job.new /\ copy.dev = job.dev
      BY <1>0, <1>k, <3>1, WithDeviceGood
    <3>3. change \in BOOLEAN
      BY DEF MayChange
    <3>4. new \in WorkerType /\ KindOK(new, K) /\ new.new \in SetStatuses
      <4> HIDE DEF copy, change
      <4> QED BY <2>1, <3>2, <3>3 DEF WorkerType, KindOK
    <3>5. Good(Admit(new), K) /\ Good(BeginSetUpdate(new), K)
      BY <1>k, <3>4, AdmitGood, BeginSetUpdateGood
    <3>6. Continue(w, Admit(new)) \/ Continue(w, BeginSetUpdate(new))
      BY <1>2, <2>3, <3>2 DEF StatusGetDevice
    <3> QED BY <1>g, <3>5, <3>6
  <2> QED BY <2>2, <2>3
<1>3. CASE DeletionGetSet(w)
  <2>1. job.kind # "set_status"
    BY <1>0, <1>k, <1>3 DEF DeletionGetSet, At, Allowed, Verifies, ChangesNothing
  <2>2. ASSUME job.set \in Known PROVE Good([WithSet(job, job.set) EXCEPT !.pc = "delete_set"], K)
    <3> DEFINE new == WithSet(job, job.set)
    <3>1. new \in WorkerType /\ KindOK(new, K) /\ new.kind # "set_status"
      BY <1>0, <1>k, <2>1, <2>2, WithSetGood
    <3>2. Good([new EXCEPT !.pc = "delete_set"], K)
      <4> HIDE DEF new
      <4> QED BY <1>k, <3>1, GotoGood DEF Allowed, PCs, WritesSet, WritesDevice, Verifies,
                                          ChangesNothing
    <3> QED BY <3>2
  <2> QED BY <1>k, <1>g, <1>3, <2>2, IdleGood DEF DeletionGetSet, StoredSets, Known
<1>4. CASE DeleteSet(w)
  <2>1. job.kind # "set_status"
    BY <1>0, <1>k, <1>4 DEF DeleteSet, At, Allowed, Verifies, ChangesNothing
  <2> QED BY <1>g, <1>0, <1>k, <1>4, <2>1, AfterSetDeletionGood, IdleGood DEF DeleteSet
<1>5. CASE DeletionGetDevice(w)
  <2>1. job.new \in DeviceStatuses
    BY <1>0, <1>k, <1>5 DEF DeletionGetDevice, At, Allowed, WritesDevice
  <2>2. ASSUME Stored(job.dev) PROVE Good(BeginDeviceUpdate(WithDevice(job, job.dev)), K)
    <3> DEFINE new == WithDevice(job, job.dev)
    <3>1. new \in WorkerType /\ KindOK(new, K) /\ new.new \in DeviceStatuses
      BY <1>0, <1>k, <2>1, <2>2, WithDeviceGood DEF Stored
    <3>2. Good(BeginDeviceUpdate(new), K)
      <4> HIDE DEF new
      <4> QED BY <1>k, <3>1, BeginDeviceUpdateGood
    <3> QED BY <3>2
  <2> QED BY <1>k, <1>g, <1>5, <2>2, IdleGood DEF DeletionGetDevice
<1>6. CASE SubmitGone(w)
  <2>1. Good([job EXCEPT !.pc = "delete_device"], K)
    BY <1>0, <1>k, FreeGood
  <2> QED BY <1>g, <1>6, <2>1 DEF SubmitGone
<1>7. CASE DeleteDevice(w) \/ SubmitDecommission(w)
  BY <1>k, <1>g, <1>7, IdleGood DEF DeleteDevice, SubmitDecommission
<1>8. CASE DeleteSets(w)
  <2>1. job.kind # "set_status"
    BY <1>0, <1>k, <1>8 DEF DeleteSets, At, Allowed, Verifies, ChangesNothing
  <2>2. Good([job EXCEPT !.pc = "delete_tokens"], K)
    <3>1. Allowed(job, "delete_tokens", K)
      BY <1>0, <2>1 DEF Allowed, WritesSet, WritesDevice, Verifies, ChangesNothing
    <3> QED BY <1>0, <1>k, <3>1, GotoGood DEF PCs
  <2> QED BY <1>g, <1>8, <2>2 DEF DeleteSets
<1>9. CASE Flag(w)
  <2>1. job.dev \in DeviceIds => Good([job EXCEPT !.pc = "submit_decommission"], K)
    <3>1. job.dev \in DeviceIds => Allowed(job, "submit_decommission", K)
      BY <1>0 DEF Allowed, WritesSet, WritesDevice, Verifies, ChangesNothing
    <3> QED BY <1>0, <1>k, <3>1, GotoGood DEF PCs
  <2> QED BY <1>k, <1>g, <1>9, <2>1, IdleGood DEF Flag, Stored
<1> QED BY <1>1, <1>2, <1>3, <1>4, <1>5, <1>6, <1>7, <1>8, <1>9 DEF Changing

\* Preauthorization, and the job provision_device.
Preauthorizing(w) ==
    \/ AddPreauthorizedDevice(w) \/ FindExistingDevice(w) \/ AddPreauthorizedSet(w)
    \/ UpsertSet(w) \/ Patch(w)

\* So do these.
LEMMA PreauthorizingGood ==
    ASSUME Inv, NEW w \in Workers, Preauthorizing(w), SetsKept PROVE GoesOn(w)
<1> USE DEF Inv
<1> DEFINE job == workers[w]
           K == Known'
<1>k. Known \subseteq K /\ K \in SUBSET SetIds
  BY DEF SetsKept, Known
<1>0. job \in WorkerType /\ KindOK(job, K) /\ Allowed(job, job.pc, K)
  BY <1>k, AtHand
<1>g. \A new : Good(new, K) /\ Continue(w, new) => GoesOn(w)
  BY DEF GoesOn
<1> HIDE DEF K
<1>1. CASE AddPreauthorizedDevice(w)
  <2> DEFINE d == Least(NewDevices)
             new == [job EXCEPT !.dev = d, !.dstatus = "preauthorized", !.revision = 1]
  <2>1. Good([job EXCEPT !.pc = "find_existing_device"], K)
    BY <1>0, <1>k, FreeGood
  <2>2. ASSUME NewDevices # {} PROVE Good([new EXCEPT !.pc = "add_preauthorized_set"], K)
    <3>1. d \in DeviceIds
      BY <2>2, LeastOf, QueryTypes
    <3>2. job.new = "preauthorized"
      BY <1>0, <1>k, <1>1 DEF AddPreauthorizedDevice, At, Allowed
    <3>3. new \in WorkerType /\ KindOK(new, K) /\ new.new = job.new /\ new.dev = d
          /\ new.revision = 1
      <4>1. 1 \in Nat /\ "preauthorized" \in DeviceStatuses
        BY DEF DeviceStatuses, SetStatuses
      <4> HIDE DEF d
      <4>2. new \in WorkerType
        BY <1>0, <3>1, <4>1 DEF WorkerType
      <4>3. /\ new.new = job.new /\ new.dev = d /\ new.revision = 1
            /\ new.kind = job.kind /\ new.set = job.set
            /\ new.sstatus = job.sstatus
        BY <1>0 DEF WorkerType
      <4> HIDE DEF new
      <4> QED BY <1>0, <3>1, <4>2, <4>3 DEF KindOK
    <3> HIDE DEF new, d
    <3> QED BY <1>k, <3>1, <3>2, <3>3, GotoGood DEF Allowed, PCs, WritesSet, WritesDevice,
               Verifies, ChangesNothing, DeviceStatuses, SetStatuses
  <2>3. [new EXCEPT !.pc = "add_preauthorized_set"]
          = [job EXCEPT !.pc = "add_preauthorized_set", !.dev = d,
                        !.dstatus = "preauthorized", !.revision = 1]
    BY <1>0, <1>k DEF WorkerType
  <2> QED BY <1>k, <1>g, <1>1, <2>1, <2>2, <2>3, IdleGood DEF AddPreauthorizedDevice
<1>2. CASE FindExistingDevice(w)
  <2>1. ASSUME NEW d \in DeviceIds PROVE Good([job EXCEPT !.pc = "upsert_set", !.dev = d], K)
    <3> DEFINE new == [job EXCEPT !.dev = d]
    <3>1. new \in WorkerType /\ KindOK(new, K) /\ new.dev = d
      BY <1>0, <1>k DEF WorkerType, KindOK
    <3>2. Good([new EXCEPT !.pc = "upsert_set"], K)
      <4> HIDE DEF new
      <4> QED BY <1>k, <3>1, GotoGood DEF Allowed, PCs, WritesSet, WritesDevice, Verifies,
                 ChangesNothing
    <3>3. [new EXCEPT !.pc = "upsert_set"] = [job EXCEPT !.pc = "upsert_set", !.dev = d]
      BY <1>0, <1>k DEF WorkerType
    <3> QED BY <3>2, <3>3
  <2> QED BY <1>k, <1>g, <1>2, <2>1, IdleGood DEF FindExistingDevice, DeviceWith
<1>3. CASE AddPreauthorizedSet(w)
  <2> DEFINE s == Least(NewSets)
             new == [job EXCEPT !.set = s, !.sstatus = "preauthorized"]
  <2>1. ASSUME NewSets # {}, authSets' = [authSets EXCEPT ![s] = NewSet(job, "preauthorized")]
        PROVE Good([new EXCEPT !.pc = "submit"], K)
    <3>0. s \in SetIds
      BY <2>1, LeastOf, QueryTypes
    <3>1. s \in SetIds /\ s \in K
      <4>1. authSets'[s].stage = "stored"
        BY <2>1, <3>0 DEF NewSet, TypeOK
      <4> QED BY <3>0, <4>1 DEF Known, K
    <3>2. job.dev \in DeviceIds /\ job.new \in DeviceStatuses
      BY <1>0, <1>k, <1>3 DEF AddPreauthorizedSet, At, Allowed, WritesDevice
    <3>3. new \in WorkerType /\ KindOK(new, K) /\ new.new = job.new /\ new.dev = job.dev
      <4> HIDE DEF s
      <4> QED BY <1>0, <1>k, <3>1 DEF WorkerType, KindOK, SetStatuses
    <3> HIDE DEF new, s
    <3> QED BY <1>k, <3>2, <3>3, GotoGood DEF Allowed, PCs, WritesSet, WritesDevice, Verifies,
               ChangesNothing
  <2>2. [new EXCEPT !.pc = "submit"]
          = [job EXCEPT !.pc = "submit", !.set = s, !.sstatus = "preauthorized"]
    BY <1>0, <1>k DEF WorkerType
  <2> QED BY <1>k, <1>g, <1>3, <2>1, <2>2, IdleGood DEF AddPreauthorizedSet
<1>4. CASE UpsertSet(w) \/ Patch(w)
  BY <1>k, <1>g, <1>4, IdleGood DEF UpsertSet, Patch
<1> QED BY <1>1, <1>2, <1>3, <1>4 DEF Preauthorizing

\* These are the steps.
LEMMA StepsOf ==
    \A w : Step(w) <=> Admitting(w) \/ Asking(w) \/ Checking(w) \/ Changing(w) \/ Preauthorizing(w)
BY DEF Step, Admitting, Asking, Checking, Changing, Preauthorizing

\* Every step leaves every request in order.
LEMMA RequestsStep ==
    Inv /\ [Next]_vars => workers' \in [Workers -> WorkerType] /\ RequestsOK'
<1> SUFFICES ASSUME Inv, [Next]_vars PROVE workers' \in [Workers -> WorkerType] /\ RequestsOK'
  OBVIOUS
<1> USE DEF Inv
<1>1. CASE UNCHANGED <<workers, authSets>>
  BY <1>1 DEF TypeOK, RequestsOK, Known
<1>2. ASSUME NEW w \in Workers, Arrival(w)
      PROVE workers' \in [Workers -> WorkerType] /\ RequestsOK'
  BY <1>2, ArrivalGood, Started
<1>3. ASSUME NEW w \in Workers, Step(w)
      PROVE workers' \in [Workers -> WorkerType] /\ RequestsOK'
  <2>1. SetsKept
    BY <1>3, SetsStep DEF Next
  <2>2. GoesOn(w)
    BY <1>3, <2>1, StepsOf, AdmittingGood, AskingGood, CheckingGood, ChangingGood,
       PreauthorizingGood
  <2> QED BY <2>1, <2>2, Continued DEF GoesOn, SetsKept
<1>4. ASSUME NEW w \in Workers, Fail(w)
      PROVE workers' \in [Workers -> WorkerType] /\ RequestsOK'
  BY <1>4, IdleGood, Continued DEF Fail, Known, store
<1> QED BY <1>1, <1>2, <1>3, <1>4 DEF Next, vars, CacheExpires

---------------------------------------------------------------------------
(* The other variables.                                                    *)

\* A device whose status, mark or revision changes has its type.
LEMMA RevisedType ==
    ASSUME TypeOK, NEW d \in DeviceIds, NEW update \in DeviceType
    PROVE Revised(d, update) \in [DeviceIds -> DeviceType]
<1>1. [update EXCEPT !.revision = @ + 1] \in DeviceType
  BY DEF DeviceType
<1> QED BY <1>1 DEF Revised, TypeOK

\* So has a new one.
LEMMA NewDeviceType ==
    ASSUME NEW job \in WorkerType, NEW status \in DeviceStatuses
    PROVE NewDevice(job.identity, status) \in DeviceType
BY DEF NewDevice, DeviceType, WorkerType, Stages

\* Steps that change no device.
LEMMA DevicesSame ==
    ASSUME NEW w \in Workers, Arrival(w) \/ Fail(w) \/ Step(w)
    PROVE \/ UpdateDeviceWithRevision(w) \/ AddDevice(w) \/ CheckIn(w) \/ DeleteDevice(w)
          \/ Flag(w) \/ AddPreauthorizedDevice(w) \/ Patch(w) \/ UNCHANGED devices
BY DEF Arrival, Fail, Start, StartAuth, StartVerify, StartSetStatus, StartDeleteSet,
       StartDecommission, StartDeleteDevice, StartPreauthorize, StartRevoke,
       StartDeleteTokens, StartPatch, store,
       Step, ReadOnly, FindPreauthorized, GetPreauthorizedDevice, CountAccepted, RejectOthers,
       UpdateSet, Submit, FindDevice, AddSet, FindSet, Aggregate, AddToken,
       Throttle, GetToken, GetSet, GetDevice, CacheToken, Invalidate, DeleteTokens,
       RevokeGetToken, DeleteToken, StatusGetSet, StatusGetDevice, DeletionGetSet, DeleteSet,
       DeletionGetDevice, SubmitGone, DeleteSets, SubmitDecommission,
       FindExistingDevice, AddPreauthorizedSet, UpsertSet

\* What may happen to a device: nothing, a greater revision, its deletion, its
\* creation, or the write of its status.
Raised(d) ==
    /\ Stored(d)
    /\ \E update \in DeviceType :
          /\ update.stage = "stored" /\ update.status = devices[d].status
          /\ update.revision = devices[d].revision
          /\ devices' = Revised(d, update)
Deleted(d) == Stored(d) /\ devices' = [devices EXCEPT ![d].stage = "deleted"]
Created(w, d, status) ==
    /\ d \in NewDevices
    /\ devices' = [devices EXCEPT ![d] = NewDevice(workers[w].identity, status)]
Written(w) ==
    LET job == workers[w]
    IN /\ Stored(job.dev) /\ devices[job.dev].revision = job.revision
       /\ devices' = Revised(job.dev, [devices[job.dev] EXCEPT !.status = job.new])

\* The steps that change a device, and how.
LEMMA DevicesStep ==
    ASSUME Inv, NEW w \in Workers, Arrival(w) \/ Fail(w) \/ Step(w)
    PROVE \/ UNCHANGED devices
          \/ \E d \in DeviceIds :
                (CheckIn(w) \/ Flag(w) \/ Patch(w)) /\ Raised(d)
          \/ \E d \in DeviceIds : DeleteDevice(w) /\ Deleted(d)
          \/ \E d \in DeviceIds : AddDevice(w) /\ Created(w, d, "noauth")
          \/ \E d \in DeviceIds : AddPreauthorizedDevice(w) /\ Created(w, d, "preauthorized")
          \/ UpdateDeviceWithRevision(w) /\ Written(w)
<1> USE DEF Inv
<1>t. \A d \in DeviceIds : devices[d] \in DeviceType
  BY DEF TypeOK
<1>1. CASE UNCHANGED devices
  BY <1>1
<1>2. CASE UpdateDeviceWithRevision(w)
  BY <1>2 DEF UpdateDeviceWithRevision, Written
<1>3. CASE AddDevice(w)
  <2>1. CASE NewDevices # {} /\ devices' = [devices EXCEPT ![Least(NewDevices)] =
                                             NewDevice(workers[w].identity, "noauth")]
    <3>1. Least(NewDevices) \in NewDevices /\ Least(NewDevices) \in DeviceIds
      BY <2>1, LeastOf, QueryTypes
    <3> QED BY <1>3, <2>1, <3>1 DEF Created
  <2> QED BY <1>3, <2>1 DEF AddDevice
<1>4. CASE CheckIn(w)
  <2> DEFINE d == authSets[workers[w].set].dev
  <2>1. CASE Stored(d) /\ devices' = Revised(d, devices[d])
    <3>1. d \in DeviceIds /\ devices[d].stage = "stored"
      BY <2>1 DEF Stored
    <3>2. Raised(d)
      BY <1>t, <2>1, <3>1 DEF Raised
    <3> QED BY <1>4, <3>1, <3>2
  <2>2. (Stored(d) /\ devices' = Revised(d, devices[d])) \/ UNCHANGED devices
    BY <1>4 DEF CheckIn, CountCheckIn
  <2> QED BY <1>1, <2>1, <2>2
<1>5. CASE DeleteDevice(w)
  BY <1>5 DEF DeleteDevice, Deleted, Stored
<1>6. CASE Flag(w)
  <2> DEFINE d == workers[w].dev
             update == [devices[d] EXCEPT !.decommissioning = TRUE]
  <2>1. CASE Stored(d) /\ devices' = Revised(d, update)
    <3>1. d \in DeviceIds /\ devices[d].stage = "stored"
      BY <2>1 DEF Stored
    <3>2. /\ update \in DeviceType /\ update.stage = "stored"
          /\ update.status = devices[d].status /\ update.revision = devices[d].revision
      BY <1>t, <3>1 DEF DeviceType
    <3>3. Raised(d)
      <4> HIDE DEF update
      <4> QED BY <2>1, <3>1, <3>2 DEF Raised
    <3> QED BY <1>6, <3>1, <3>3
  <2>2. (Stored(d) /\ devices' = Revised(d, update)) \/ UNCHANGED devices
    BY <1>6 DEF Flag
  <2> QED BY <1>1, <2>1, <2>2
<1>7. CASE AddPreauthorizedDevice(w)
  <2>1. CASE NewDevices # {} /\ devices' = [devices EXCEPT ![Least(NewDevices)] =
                                             NewDevice(workers[w].identity, "preauthorized")]
    <3>1. Least(NewDevices) \in NewDevices /\ Least(NewDevices) \in DeviceIds
      BY <2>1, LeastOf, QueryTypes
    <3> QED BY <1>7, <2>1, <3>1 DEF Created
  <2> QED BY <1>7, <2>1 DEF AddPreauthorizedDevice
<1>8. CASE Patch(w)
  <2> DEFINE d == workers[w].dev
  <2>1. CASE Stored(d) /\ devices' = Revised(d, devices[d])
    <3>1. d \in DeviceIds /\ devices[d].stage = "stored"
      BY <2>1 DEF Stored
    <3>2. Raised(d)
      BY <1>t, <2>1, <3>1 DEF Raised
    <3> QED BY <1>8, <3>1, <3>2
  <2>2. (Stored(d) /\ devices' = Revised(d, devices[d])) \/ UNCHANGED devices
    BY <1>8 DEF Patch
  <2> QED BY <1>1, <2>1, <2>2
<1> QED BY <1>1, <1>2, <1>3, <1>4, <1>5, <1>6, <1>7, <1>8, DevicesSame

\* One more token of a set; of the others there are as many.
LEMMA OneMoreCounts ==
    ASSUME TypeOK, NEW s
    PROVE  /\ OneMore(s) \in [SetIds -> 0..Several]
           /\ \A t \in SetIds : t # s => OneMore(s)[t] = issued[t]
           /\ \A t \in SetIds : issued[t] = Several => OneMore(s)[t] = Several
<1> DEFINE n == IF issued[s] < Several THEN issued[s] + 1 ELSE issued[s]
<1>1. OneMore(s) = [issued EXCEPT ![s] = n] /\ issued \in [SetIds -> 0..Several]
  BY DEF OneMore, TypeOK
<1>2. s \in SetIds => n \in 0..Several /\ (issued[s] = Several => n = Several)
  BY <1>1 DEF Several
<1> HIDE DEF n
<1> QED BY <1>1, <1>2

\* The types of the collections.
LEMMA TypesStep == ASSUME Inv, [Next]_vars PROVE TypeOK' /\ SetsOK'
<1> USE DEF Inv
<1>k. SetsKept
  BY SetsStep
<1>1. workers' \in [Workers -> WorkerType]
  BY RequestsStep
<1>2. devices' \in [DeviceIds -> DeviceType]
  <2>t. devices \in [DeviceIds -> DeviceType]
    BY DEF TypeOK
  <2>1. CASE UNCHANGED devices
    BY <2>1, <2>t
  <2>2. ASSUME NEW w \in Workers, Arrival(w) \/ Fail(w) \/ Step(w)
        PROVE devices' \in [DeviceIds -> DeviceType]
    <3>w. workers[w] \in WorkerType
      BY DEF TypeOK
    <3>1. ASSUME NEW d \in DeviceIds, Raised(d) PROVE devices' \in [DeviceIds -> DeviceType]
      BY <3>1, RevisedType DEF Raised
    <3>2. ASSUME NEW d \in DeviceIds, Deleted(d) PROVE devices' \in [DeviceIds -> DeviceType]
      BY <2>t, <3>2 DEF Deleted, DeviceType, Stages
    <3>3. ASSUME NEW d \in DeviceIds, NEW status \in {"noauth", "preauthorized"},
                 Created(w, d, status)
          PROVE devices' \in [DeviceIds -> DeviceType]
      <4>1. NewDevice(workers[w].identity, status) \in DeviceType
        BY <3>w, NewDeviceType DEF DeviceStatuses, SetStatuses
      <4> QED BY <2>t, <3>3, <4>1 DEF Created
    <3>4. CASE UpdateDeviceWithRevision(w) /\ Written(w)
      <4> DEFINE update == [devices[workers[w].dev] EXCEPT !.status = workers[w].new]
      <4>1. workers[w].dev \in DeviceIds /\ workers[w].new \in DeviceStatuses
        BY <3>4, AtHand DEF Written, Stored, UpdateDeviceWithRevision, At, Allowed, WritesDevice
      <4>2. update \in DeviceType
        BY <2>t, <4>1 DEF DeviceType
      <4>3. devices' = Revised(workers[w].dev, update)
        BY <3>4 DEF Written
      <4> HIDE DEF update
      <4> QED BY <4>1, <4>2, <4>3, RevisedType
    <3> QED BY <2>1, <2>2, <3>1, <3>2, <3>3, <3>4, DevicesStep
  <2> QED BY <2>1, <2>2 DEF Next, vars, CacheExpires
<1>3. tokens' \subseteq SetIds
  <2>1. CASE UNCHANGED tokens
    BY <2>1 DEF TypeOK
  <2>2. ASSUME NEW w \in Workers, AddToken(w) PROVE tokens' \subseteq SetIds
    BY <2>2, AtHand DEF TypeOK, AddToken, At, Allowed
  <2>3. ASSUME NEW w \in Workers, DeleteTokens(w) \/ DeleteToken(w) PROVE tokens' \subseteq SetIds
    BY <2>3 DEF TypeOK, DeleteTokens, DeleteToken
  <2>4. ASSUME NEW w \in Workers, Step(w)
        PROVE AddToken(w) \/ DeleteTokens(w) \/ DeleteToken(w) \/ UNCHANGED tokens
    BY <2>4 DEF Step, ReadOnly, store, FindPreauthorized, GetPreauthorizedDevice, CountAccepted,
         RejectOthers, UpdateSet, UpdateDeviceWithRevision, Submit, AddDevice, FindDevice, AddSet,
         FindSet, Aggregate, CheckIn, Throttle, GetToken, GetSet, GetDevice, CacheToken,
         Invalidate, RevokeGetToken, StatusGetSet, StatusGetDevice,
         DeletionGetSet, DeleteSet, DeletionGetDevice, SubmitGone, DeleteDevice, DeleteSets, Flag,
         SubmitDecommission, AddPreauthorizedDevice, FindExistingDevice, AddPreauthorizedSet,
         UpsertSet, Patch
  <2>5. ASSUME NEW w \in Workers, Arrival(w) \/ Fail(w) PROVE UNCHANGED tokens
    BY <2>5 DEF Arrival, Fail, Start, StartAuth, StartVerify, StartSetStatus, StartDeleteSet,
         StartDecommission, StartDeleteDevice, StartPreauthorize, StartRevoke, StartDeleteTokens,
         StartPatch, store
  <2> QED BY <2>1, <2>2, <2>3, <2>4, <2>5 DEF Next, vars, CacheExpires
<1>4. cache' \in [DeviceIds -> CacheType]
  <2>1. CASE UNCHANGED cache
    BY <2>1 DEF TypeOK
  <2>2. ASSUME NEW w \in Workers, CacheToken(w) PROVE cache' \in [DeviceIds -> CacheType]
    <3>1. workers[w].set \in SetIds \union {0}
      BY DEF TypeOK, WorkerType
    <3> QED BY <2>2, <3>1 DEF TypeOK, CacheToken, CacheType, NoToken
  <2>3. ASSUME NEW w \in Workers, Invalidate(w) PROVE cache' \in [DeviceIds -> CacheType]
    BY <2>3 DEF TypeOK, Invalidate, CacheType
  <2>4. ASSUME NEW w \in Workers, Step(w)
        PROVE CacheToken(w) \/ Invalidate(w) \/ UNCHANGED cache
    BY <2>4 DEF Step, ReadOnly, store, FindPreauthorized, GetPreauthorizedDevice, CountAccepted,
         RejectOthers, UpdateSet, UpdateDeviceWithRevision, Submit, AddDevice, FindDevice, AddSet,
         FindSet, Aggregate, AddToken, CheckIn, Throttle, GetToken, GetSet, GetDevice,
         DeleteTokens, DeleteToken, RevokeGetToken, StatusGetSet, StatusGetDevice,
         DeletionGetSet, DeleteSet, DeletionGetDevice, SubmitGone, DeleteDevice, DeleteSets, Flag,
         SubmitDecommission, AddPreauthorizedDevice, FindExistingDevice, AddPreauthorizedSet,
         UpsertSet, Patch
  <2>5. ASSUME NEW w \in Workers, Arrival(w) \/ Fail(w) PROVE UNCHANGED cache
    BY <2>5 DEF Arrival, Fail, Start, StartAuth, StartVerify, StartSetStatus, StartDeleteSet,
         StartDecommission, StartDeleteDevice, StartPreauthorize, StartRevoke, StartDeleteTokens,
         StartPatch, store
  <2>6. ASSUME NEW d \in DeviceIds, CacheExpires(d) PROVE cache' \in [DeviceIds -> CacheType]
    BY <2>6 DEF CacheExpires, TypeOK, CacheType
  <2> QED BY <2>1, <2>2, <2>3, <2>4, <2>5, <2>6 DEF Next, vars
<1>5. /\ issued' \in [SetIds -> 0..Several]
      /\ \A s \in SetIds : issued'[s] > 0 => s \in Known'
  <2>1. CASE UNCHANGED issued
    BY <1>k, <2>1 DEF SetsOK, SetsKept, TypeOK
  <2>2. ASSUME NEW w \in Workers, CheckIn(w)
        PROVE  /\ issued' \in [SetIds -> 0..Several]
               /\ \A s \in SetIds : issued'[s] > 0 => s \in Known'
    <3>1. workers[w].kind = "auth" => workers[w].set \in Known
      BY <2>2, AtHand DEF CheckIn, At, Allowed
    <3>2. issued' = issued \/ (workers[w].kind = "auth" /\ issued' = OneMore(workers[w].set))
      BY <2>2 DEF CheckIn
    <3>3. /\ OneMore(workers[w].set) \in [SetIds -> 0..Several]
          /\ \A s \in SetIds : s # workers[w].set => OneMore(workers[w].set)[s] = issued[s]
      BY OneMoreCounts
    <3> QED BY <1>k, <3>1, <3>2, <3>3 DEF SetsOK, SetsKept, TypeOK
  <2>3. ASSUME NEW w \in Workers, Step(w) PROVE CheckIn(w) \/ UNCHANGED issued
    BY <2>3 DEF Step, ReadOnly, Unchanged, FindPreauthorized, GetPreauthorizedDevice,
         CountAccepted, RejectOthers, UpdateSet, UpdateDeviceWithRevision, Submit, AddDevice,
         FindDevice, AddSet, FindSet, Aggregate, AddToken, Throttle, GetToken, GetSet, GetDevice,
         CacheToken, Invalidate, DeleteTokens, DeleteToken, RevokeGetToken, StatusGetSet,
         StatusGetDevice, DeletionGetSet, DeleteSet, DeletionGetDevice, SubmitGone, DeleteDevice,
         DeleteSets, Flag, SubmitDecommission, AddPreauthorizedDevice, FindExistingDevice,
         AddPreauthorizedSet, UpsertSet, Patch
  <2>4. ASSUME NEW w \in Workers, Arrival(w) \/ Fail(w) PROVE UNCHANGED issued
    BY <2>4 DEF Arrival, Fail, Start, StartAuth, StartVerify, StartSetStatus, StartDeleteSet,
         StartDecommission, StartDeleteDevice, StartPreauthorize, StartRevoke, StartDeleteTokens,
         StartPatch
  <2> QED BY <2>1, <2>2, <2>3, <2>4 DEF Next, vars, CacheExpires
<1>6. events' \subseteq EventType /\ decommissions' \subseteq DeviceIds
  <2>1. CASE UNCHANGED <<events, decommissions>>
    BY <2>1 DEF TypeOK
  <2>2. ASSUME NEW w \in Workers, Submit(w)
        PROVE events' \subseteq EventType /\ decommissions' \subseteq DeviceIds
    <3>1. workers[w].dev \in DeviceIds /\ workers[w].new \in DeviceStatuses
      BY <2>2, AtHand DEF Submit, At, Allowed, WritesDevice
    <3>2. workers[w].revision \in Nat
      BY DEF TypeOK, WorkerType
    <3> QED BY <2>2, <3>1, <3>2 DEF Submit, TypeOK, EventType
  <2>3. ASSUME NEW w \in Workers, SubmitGone(w)
        PROVE events' \subseteq EventType /\ decommissions' \subseteq DeviceIds
    <3>1. workers[w].dev \in DeviceIds
      BY <2>3, AtHand DEF SubmitGone, At, Allowed
    <3> QED BY <2>3, <3>1 DEF SubmitGone, TypeOK, EventType
  <2>4. ASSUME NEW w \in Workers, SubmitDecommission(w)
        PROVE events' \subseteq EventType /\ decommissions' \subseteq DeviceIds
    BY <2>4, AtHand DEF SubmitDecommission, At, Allowed, TypeOK
  <2>5. ASSUME NEW w \in Workers, Step(w)
        PROVE Submit(w) \/ SubmitGone(w) \/ SubmitDecommission(w)
              \/ UNCHANGED <<events, decommissions>>
    BY <2>5 DEF Step, ReadOnly, store, FindPreauthorized, GetPreauthorizedDevice, CountAccepted,
         RejectOthers, UpdateSet, UpdateDeviceWithRevision, AddDevice, FindDevice, AddSet,
         FindSet, Aggregate, AddToken, CheckIn, Throttle, GetToken, GetSet, GetDevice, CacheToken,
         Invalidate, DeleteTokens, DeleteToken, RevokeGetToken, StatusGetSet, StatusGetDevice,
         DeletionGetSet, DeleteSet, DeletionGetDevice, DeleteDevice, DeleteSets, Flag,
         AddPreauthorizedDevice, FindExistingDevice, AddPreauthorizedSet, UpsertSet, Patch
  <2>6. ASSUME NEW w \in Workers, Arrival(w) \/ Fail(w) PROVE UNCHANGED <<events, decommissions>>
    BY <2>6 DEF Arrival, Fail, Start, StartAuth, StartVerify, StartSetStatus, StartDeleteSet,
         StartDecommission, StartDeleteDevice, StartPreauthorize, StartRevoke, StartDeleteTokens,
         StartPatch, store
  <2> QED BY <2>1, <2>2, <2>3, <2>4, <2>5, <2>6 DEF Next, vars, CacheExpires
<1>7. admin' \in 0..MaxAdmin /\ failures' \in 0..MaxFailures
  <2>t. admin \in 0..MaxAdmin /\ failures \in 0..MaxFailures
        /\ MaxAdmin \in Nat /\ MaxFailures \in Nat
    BY BoundsAssumption DEF TypeOK
  <2>1. CASE UNCHANGED <<admin, failures>>
    BY <2>1 DEF TypeOK
  <2>2. ASSUME NEW w \in Workers, NEW job, Start(w, job)
        PROVE admin' \in 0..MaxAdmin /\ failures' \in 0..MaxFailures
    BY <2>2, <2>t DEF Start
  <2>3. ASSUME NEW w \in Workers, Arrival(w)
        PROVE admin' \in 0..MaxAdmin /\ failures' \in 0..MaxFailures
    BY <2>2, <2>3, ArrivalGood
  <2>4. ASSUME NEW w \in Workers, Fail(w)
        PROVE admin' \in 0..MaxAdmin /\ failures' \in 0..MaxFailures
    BY <2>4, <2>t DEF Fail
  <2>5. ASSUME NEW w \in Workers, Step(w) PROVE UNCHANGED <<admin, failures>>
    BY <2>5 DEF Step, ReadOnly, Unchanged, FindPreauthorized, GetPreauthorizedDevice,
         CountAccepted, RejectOthers, UpdateSet, UpdateDeviceWithRevision, Submit, AddDevice,
         FindDevice, AddSet, FindSet, Aggregate, AddToken, CheckIn, Throttle, GetToken, GetSet,
         GetDevice, CacheToken, Invalidate, DeleteTokens, DeleteToken, RevokeGetToken,
         StatusGetSet, StatusGetDevice, DeletionGetSet, DeleteSet, DeletionGetDevice, SubmitGone,
         DeleteDevice, DeleteSets, Flag, SubmitDecommission, AddPreauthorizedDevice,
         FindExistingDevice, AddPreauthorizedSet, UpsertSet, Patch
  <2> QED BY <2>1, <2>3, <2>4, <2>5 DEF Next, vars, CacheExpires
<1> QED BY <1>k, <1>1, <1>2, <1>3, <1>4, <1>5, <1>6, <1>7 DEF TypeOK, SetsOK, SetsKept, Known

---------------------------------------------------------------------------
(* The invariant holds.                                                    *)

\* Every step keeps the invariant.
LEMMA InvStep == Inv /\ [Next]_vars => Inv'
BY RequestsStep, TypesStep DEF Inv

\* The invariant, with its parts.
LEMMA Invariance == Spec => []Inv
BY InvInit, InvStep, PTL DEF Spec

\* The collections, the cache and the requests always have their types.
THEOREM TypeCorrect == Spec => []TypeOK
<1>1. Inv => TypeOK
  BY DEF Inv
<1> QED BY <1>1, Invariance, PTL

---------------------------------------------------------------------------
(* What the announcements tell of a device.                                *)

\* Positions of a request that still has to announce the status it wrote.
Tells == {"submit", "add_preauthorized_set"}
Said(w) == [dev |-> workers[w].dev, status |-> workers[w].new, revision |-> workers[w].revision]

\* A device and the announcements T of its status: EventsTellStatus, and that
\* nothing is announced of a device that was never stored, and nothing with
\* revision 0.
ToldOK(device, T) ==
    /\ device.stage = "none" => T = {}
    /\ device.stage = "stored" =>
          /\ \A e \in T : e.revision \in Nat /\ 1 <= e.revision /\ e.revision <= device.revision
          /\ \A e, f \in T : e.revision = f.revision => e = f
          /\ \A e \in T : (\A f \in T : f.revision <= e.revision) => e.status = device.status
          /\ T = {} => device.status \in {"noauth", "preauthorized"}

EventsInv == failures = 0 => \A d \in DeviceIds : ToldOK(devices[d], Announcements(d))

\* The invariant says what the property says.
LEMMA EventsInvTells == EventsInv => EventsTellStatus
<1> SUFFICES ASSUME EventsInv, failures = 0, NEW d \in DeviceIds, Stored(d)
             PROVE LET told == Announcements(d)
                   IN /\ \A e \in told : e.revision <= devices[d].revision
                      /\ \A e, f \in told : e.revision = f.revision => e = f
                      /\ \A e \in told : (\A f \in told : f.revision <= e.revision)
                                          => e.status = devices[d].status
                      /\ told = {} => devices[d].status \in {"noauth", "preauthorized"}
  BY DEF EventsTellStatus
<1>1. ToldOK(devices[d], Announcements(d)) /\ devices[d].stage = "stored"
  BY DEF EventsInv, Stored
<1> QED BY <1>1 DEF ToldOK

\* The announcements, by who makes them.
LEMMA AnnouncementsAre ==
    \A d, e : e \in Announcements(d)
                <=> \/ e \in events /\ e.dev = d /\ e.status # "decommissioned"
                    \/ \E w \in Workers :
                         workers[w].dev = d /\ workers[w].pc \in Tells /\ e = Said(w)
BY DEF Announcements, Tells, Said

\* A request that neither has nor gets anything to announce.
LEMMA Quiet ==
    ASSUME TypeOK, NEW w \in Workers, NEW job, workers' = [workers EXCEPT ![w] = job],
           workers[w].pc \notin Tells, job.pc \notin Tells,
           \A e : e \in events' /\ e.status # "decommissioned"
                  <=> e \in events /\ e.status # "decommissioned"
    PROVE \A d : Announcements(d)' = Announcements(d)
<1>1. \A v \in Workers : workers'[v].pc \in Tells <=> workers[v].pc \in Tells
  BY DEF TypeOK
<1>2. \A v \in Workers : workers[v].pc \in Tells => workers'[v] = workers[v]
  BY DEF TypeOK
<1>3. \A d, e : e \in Announcements(d)' <=> e \in Announcements(d)
  BY <1>1, <1>2 DEF Announcements, Tells
<1> QED BY <1>3, Zenon DEF Announcements

\* The device that nothing happens to, or that only gets a greater revision.
LEMMA ToldRaised ==
    ASSUME NEW device \in DeviceType, NEW next \in DeviceType, NEW T, ToldOK(device, T),
           next.stage = device.stage, next.status = device.status,
           next.revision >= device.revision
    PROVE ToldOK(next, T)
<1>1. device.revision \in Nat /\ next.revision \in Nat
  BY DEF DeviceType
<1> QED BY <1>1 DEF ToldOK

\* The device whose status is written, with what is to be announced of it.
LEMMA ToldWritten ==
    ASSUME NEW device \in DeviceType, device.stage = "stored", NEW T, ToldOK(device, T),
           NEW next \in DeviceType, next.stage = "stored", next.revision = device.revision + 1,
           NEW e, e.revision = next.revision, e.status = next.status
    PROVE ToldOK(next, T \union {e})
<1> DEFINE U == T \union {e}
<1>1. device.revision \in Nat /\ next.revision \in Nat /\ next.revision > device.revision
  BY DEF DeviceType
<1>2. \A f \in T : f.revision \in Nat /\ 1 <= f.revision /\ f.revision <= device.revision
  BY DEF ToldOK
<1>3. \A f \in U : f.revision \in Nat /\ 1 <= f.revision /\ f.revision <= next.revision
  BY <1>1, <1>2
<1>4. \A f, g \in U : f.revision = g.revision => f = g
  BY <1>1, <1>2 DEF ToldOK
<1>5. ASSUME NEW f \in U, \A g \in U : g.revision <= f.revision PROVE f.status = next.status
  <2>1. e.revision <= f.revision
    BY <1>5
  <2>2. f = e
    BY <1>1, <1>2, <2>1
  <2> QED BY <2>2
<1>6. U # {}
  OBVIOUS
<1> QED BY <1>3, <1>4, <1>5, <1>6 DEF ToldOK

\* The device whose creation is announced after all, or not.
LEMMA ToldDropped ==
    ASSUME NEW device, NEW T, ToldOK(device, T), NEW U \in SUBSET T, NEW e,
           T \subseteq U \union {e}, e.revision = 1, e.status = "preauthorized"
    PROVE ToldOK(device, U)
<1>1. CASE device.stage # "stored"
  BY <1>1 DEF ToldOK
<1>2. CASE device.stage = "stored"
  <2>t. /\ \A f \in T : f.revision \in Nat /\ 1 <= f.revision /\ f.revision <= device.revision
        /\ \A f, g \in T : f.revision = g.revision => f = g
        /\ \A f \in T : (\A g \in T : g.revision <= f.revision) => f.status = device.status
        /\ T = {} => device.status \in {"noauth", "preauthorized"}
    BY <1>2 DEF ToldOK
  <2>1. ASSUME NEW f \in U, \A g \in U : g.revision <= f.revision PROVE f.status = device.status
    <3>1. f \in T /\ \A g \in T : g.revision <= f.revision
      BY <2>t, <2>1
    <3> QED BY <2>t, <3>1
  <2>2. ASSUME U = {} PROVE device.status \in {"noauth", "preauthorized"}
    <3>1. CASE T = {}
      BY <2>t, <3>1
    <3>2. CASE T # {}
      <4>1. e \in T /\ \A g \in T : g.revision <= e.revision
        BY <2>2, <3>2, <2>t
      <4> QED BY <2>t, <4>1
    <3> QED BY <3>1, <3>2
  <2> QED BY <1>2, <2>t, <2>1, <2>2 DEF ToldOK
<1> QED BY <1>1, <1>2

\* No request has nothing to announce.
LEMMA IdleQuiet == Idle.pc \notin Tells
BY DEF Idle, Tells

\* Where requests go on has nothing to announce.
LEMMA QuietContinuations ==
    ASSUME NEW job, "pc" \in DOMAIN job
    PROVE /\ Idle.pc \notin Tells /\ DeviceDone(job).pc \notin Tells
          /\ BeginDeviceUpdate(job).pc \notin Tells /\ SetKnown(job).pc \notin Tells
          /\ Admit(job).pc \notin Tells /\ AfterInvalidate(job).pc \notin Tells
          /\ Invalidating(job).pc \notin Tells /\ BeginSetUpdate(job).pc \notin Tells
          /\ AfterSetUpdate(job).pc \notin Tells /\ AfterSetDeletion(job).pc \notin Tells
          /\ AfterTokens(job).pc \notin Tells
<1>1. \A pc : [job EXCEPT !.pc = pc].pc = pc
  OBVIOUS
<1>2. Idle.pc \notin Tells
  BY DEF Idle, Tells
<1>3. DeviceDone(job).pc \notin Tells
  BY <1>1, <1>2 DEF DeviceDone, Tells
<1>4. BeginDeviceUpdate(job).pc \notin Tells
  BY <1>1, <1>3 DEF BeginDeviceUpdate, Tells
<1>5. SetKnown(job).pc \notin Tells
  BY <1>1, <1>3 DEF SetKnown, Tells
<1>6. Admit(job).pc \notin Tells
  BY <1>1 DEF Admit, Tells
<1>7. AfterInvalidate(job).pc \notin Tells
  BY <1>1, <1>2 DEF AfterInvalidate, Tells
<1>8. Invalidating(job).pc \notin Tells
  BY <1>1, <1>7 DEF Invalidating, Tells
<1>9. BeginSetUpdate(job).pc \notin Tells
  BY <1>1, <1>8 DEF BeginSetUpdate, Tells
<1>10. AfterSetUpdate(job).pc \notin Tells
  BY <1>1, <1>2, <1>4 DEF AfterSetUpdate, Tells
<1>11. AfterSetDeletion(job).pc \notin Tells
  BY <1>1 DEF AfterSetDeletion, Tells
<1>12. AfterTokens(job).pc \notin Tells
  BY <1>1, <1>2, <1>8 DEF AfterTokens, Tells
<1> QED BY <1>2, <1>3, <1>4, <1>5, <1>6, <1>7, <1>8, <1>9, <1>10, <1>11, <1>12

\* A step of a request that has nothing to announce, and gets nothing.
Silent(w) ==
    /\ workers[w].pc \notin Tells
    /\ \E job : job.pc \notin Tells /\ workers' = [workers EXCEPT ![w] = job]
    /\ \A e : e \in events' /\ e.status # "decommissioned"
              <=> e \in events /\ e.status # "decommissioned"

\* The steps of admission: two of them announce a status.
LEMMA AdmittingSilent ==
    ASSUME Inv, NEW w \in Workers, Admitting(w)
    PROVE UpdateDeviceWithRevision(w) \/ Submit(w) \/ Silent(w)
<1> DEFINE job == workers[w]
<1>0. job \in WorkerType
  BY DEF Inv, TypeOK
<1>d. "pc" \in DOMAIN job
  BY <1>0 DEF WorkerType
<1>s. ASSUME NEW new, new.pc \notin Tells, Continue(w, new), job.pc \notin Tells, events' = events
      PROVE Silent(w)
  BY <1>s DEF Silent, Continue
<1>1. CASE FindPreauthorized(w)
  <2>1. \A s : [WithSet(job, s) EXCEPT !.pc = "get_preauthorized_device",
                                       !.dev = authSets[s].dev].pc
               = "get_preauthorized_device"
    BY <1>0 DEF WithSet, WorkerType
  <2>2. [job EXCEPT !.pc = "add_device", !.new = NoStatus].pc = "add_device"
    BY <1>0 DEF WorkerType
  <2> QED BY <1>1, <1>s, <2>1, <2>2 DEF FindPreauthorized, At, Tells, ReadOnly, store
<1>2. CASE GetPreauthorizedDevice(w)
  <2>1. "pc" \in DOMAIN WithDevice(job, job.dev)
    BY <1>0 DEF WithDevice, WorkerType
  <2> QED BY <1>2, <1>s, <2>1, QuietContinuations
          DEF GetPreauthorizedDevice, At, Tells, ReadOnly, store
<1>3. CASE CountAccepted(w)
  <2>1. [job EXCEPT !.pc = "reject_others"].pc = "reject_others"
    BY <1>0 DEF WorkerType
  <2> QED BY <1>3, <1>s, <2>1, IdleQuiet DEF CountAccepted, At, Tells, ReadOnly, store
<1>4. CASE RejectOthers(w)
  <2>1. [job EXCEPT !.pc = "update_set"].pc = "update_set"
    BY <1>0 DEF WorkerType
  <2> QED BY <1>4, <1>s, <2>1 DEF RejectOthers, At, Tells
<1>5. CASE UpdateSet(w)
  <2>1. "pc" \in DOMAIN [job EXCEPT !.sstatus = job.new]
    BY <1>0 DEF WorkerType
  <2> QED BY <1>5, <1>s, <2>1, QuietContinuations DEF UpdateSet, At, Tells
<1> QED BY <1>1, <1>2, <1>3, <1>4, <1>5 DEF Admitting

\* The device and the set of a request: nothing is announced.
LEMMA AskingSilent ==
    ASSUME Inv, NEW w \in Workers, Asking(w) PROVE Silent(w)
<1> DEFINE job == workers[w]
<1>0. job \in WorkerType
  BY DEF Inv, TypeOK
<1>d. "pc" \in DOMAIN job
  BY <1>0 DEF WorkerType
<1>p. \A pc : [job EXCEPT !.pc = pc].pc = pc
  BY <1>d
<1>s. ASSUME NEW new, new.pc \notin Tells, Continue(w, new), job.pc \notin Tells, events' = events
      PROVE Silent(w)
  BY <1>s DEF Silent, Continue
<1>1. CASE AddDevice(w)
  BY <1>1, <1>s, <1>p, IdleQuiet DEF AddDevice, At, Tells
<1>2. CASE FindDevice(w)
  <2>1. \A d : [WithDevice(job, d) EXCEPT !.pc = "add_set"].pc = "add_set"
    BY <1>0 DEF WithDevice, WorkerType
  <2> QED BY <1>2, <1>s, <2>1, IdleQuiet DEF FindDevice, At, Tells, ReadOnly, store
<1>3. CASE AddSet(w)
  <2>1. "pc" \in DOMAIN [job EXCEPT !.set = Least(NewSets), !.sstatus = "pending"]
    BY <1>0 DEF WorkerType
  <2> QED BY <1>3, <1>s, <1>p, <2>1, QuietContinuations, IdleQuiet DEF AddSet, At, Tells
<1>4. CASE FindSet(w)
  <2>1. \A s : "pc" \in DOMAIN WithSet(job, s)
    BY <1>0 DEF WithSet, WorkerType
  <2> QED BY <1>4, <1>s, <2>1, QuietContinuations, IdleQuiet DEF FindSet, At, Tells, ReadOnly,
             store
<1>5. CASE Aggregate(w)
  <2> DEFINE new == [job EXCEPT !.new = Aggregated(job.dev)]
  <2>1. "pc" \in DOMAIN new
    BY <1>0 DEF WorkerType
  <2>2. \E next : Continue(w, next) /\ next.pc \notin Tells
    <3> HIDE DEF new
    <3>1. \A pc : [new EXCEPT !.pc = pc].pc = pc
      BY <2>1
    <3>2. \/ Continue(w, Idle) \/ Continue(w, BeginDeviceUpdate(new))
          \/ Continue(w, [new EXCEPT !.pc = "submit_gone"])
          \/ Continue(w, [new EXCEPT !.pc = "deletion_get_device"])
      BY <1>5 DEF Aggregate, new
    <3> QED BY <2>1, <3>1, <3>2, QuietContinuations, IdleQuiet DEF Tells
  <2> QED BY <1>5, <1>s, <2>2 DEF Aggregate, At, Tells, ReadOnly, store
<1>6. CASE AddToken(w)
  BY <1>6, <1>s, <1>p DEF AddToken, At, Tells
<1>7. CASE CheckIn(w)
  BY <1>7, <1>s, <1>p, IdleQuiet DEF CheckIn, At, Tells
<1> QED BY <1>1, <1>2, <1>3, <1>4, <1>5, <1>6, <1>7 DEF Asking

\* Tokens: nothing is announced.
LEMMA CheckingSilent ==
    ASSUME Inv, NEW w \in Workers, Checking(w) PROVE Silent(w)
<1> DEFINE job == workers[w]
<1>0. job \in WorkerType
  BY DEF Inv, TypeOK
<1>d. "pc" \in DOMAIN job
  BY <1>0 DEF WorkerType
<1>p. \A pc : [job EXCEPT !.pc = pc].pc = pc
  BY <1>d
<1>s. ASSUME NEW new, new.pc \notin Tells, Continue(w, new), job.pc \notin Tells, events' = events
      PROVE Silent(w)
  BY <1>s DEF Silent, Continue
<1>1. CASE Throttle(w)
  <2>t. PICK found \in CheckToken(job) :
          \E pc \in {"check_in", "get_token", "delete_token"} :
             Continue(w, [[job EXCEPT !.cached = found] EXCEPT !.pc = pc])
    BY <1>1 DEF Throttle
  <2> DEFINE new == [job EXCEPT !.cached = found]
  <2>1. \A pc : [new EXCEPT !.pc = pc].pc = pc
    BY <1>0 DEF WorkerType
  <2>2. \E pc \in {"check_in", "get_token", "delete_token"} : Continue(w, [new EXCEPT !.pc = pc])
    BY <2>t
  <2> HIDE DEF new
  <2> QED BY <1>1, <1>s, <2>1, <2>2 DEF Throttle, At, Tells, ReadOnly, store
<1>2. CASE GetToken(w)
  BY <1>2, <1>s, <1>p, IdleQuiet DEF GetToken, At, Tells, ReadOnly, store
<1>3. CASE GetSet(w)
  <2>1. [WithSet(job, job.set) EXCEPT !.pc = "get_device"].pc = "get_device"
    BY <1>0 DEF WithSet, WorkerType
  <2> QED BY <1>3, <1>s, <2>1, IdleQuiet DEF GetSet, At, Tells, ReadOnly, store
<1>4. CASE GetDevice(w)
  BY <1>4, <1>s, <1>p, IdleQuiet DEF GetDevice, At, Tells, ReadOnly, store
<1>5. CASE CacheToken(w)
  BY <1>5, <1>s, IdleQuiet DEF CacheToken, At, Tells
<1>6. CASE Invalidate(w)
  BY <1>6, <1>s, <1>d, QuietContinuations DEF Invalidate, At, Tells
<1>7. CASE DeleteTokens(w)
  BY <1>7, <1>s, <1>d, QuietContinuations DEF DeleteTokens, At, Tells
<1>8. CASE RevokeGetToken(w)
  BY <1>8, <1>s, <1>d, QuietContinuations DEF RevokeGetToken, At, Tells, ReadOnly, store
<1>9. CASE DeleteToken(w)
  BY <1>9, <1>s, IdleQuiet DEF DeleteToken, At, Tells
<1> QED BY <1>1, <1>2, <1>3, <1>4, <1>5, <1>6, <1>7, <1>8, <1>9 DEF Checking

\* The status of a set, and deletions: no status is announced.
LEMMA ChangingSilent ==
    ASSUME Inv, NEW w \in Workers, Changing(w) PROVE Silent(w)
<1> DEFINE job == workers[w]
<1>0. job \in WorkerType
  BY DEF Inv, TypeOK
<1>d. "pc" \in DOMAIN job
  BY <1>0 DEF WorkerType
<1>p. \A pc : [job EXCEPT !.pc = pc].pc = pc
  BY <1>d
<1>s. ASSUME NEW new, new.pc \notin Tells, Continue(w, new), job.pc \notin Tells, events' = events
      PROVE Silent(w)
  BY <1>s DEF Silent, Continue
<1>1. CASE StatusGetSet(w)
  <2>1. [WithSet(job, job.set) EXCEPT !.pc = "status_get_device"].pc = "status_get_device"
    BY <1>0 DEF WithSet, WorkerType
  <2> QED BY <1>1, <1>s, <2>1, IdleQuiet DEF StatusGetSet, At, Tells, ReadOnly, store
<1>2. CASE StatusGetDevice(w)
  <2> DEFINE copy == WithDevice(job, job.dev)
             new == [copy EXCEPT !.changes = MayChange(copy)]
  <2>1. "pc" \in DOMAIN new
    <3>1. "pc" \in DOMAIN copy
      BY <1>0 DEF WithDevice, WorkerType
    <3> HIDE DEF copy
    <3> QED BY <3>1
  <2>2. Continue(w, Idle) \/ Continue(w, Admit(new)) \/ Continue(w, BeginSetUpdate(new))
    BY <1>2 DEF StatusGetDevice
  <2> HIDE DEF new
  <2> QED BY <1>2, <1>s, <2>1, <2>2, QuietContinuations, IdleQuiet
          DEF StatusGetDevice, At, Tells, ReadOnly, store
<1>3. CASE DeletionGetSet(w)
  <2>1. [WithSet(job, job.set) EXCEPT !.pc = "delete_set"].pc = "delete_set"
    BY <1>0 DEF WithSet, WorkerType
  <2> QED BY <1>3, <1>s, <2>1, IdleQuiet DEF DeletionGetSet, At, Tells, ReadOnly, store
<1>4. CASE DeleteSet(w)
  BY <1>4, <1>s, <1>d, QuietContinuations, IdleQuiet DEF DeleteSet, At, Tells
<1>5. CASE DeletionGetDevice(w)
  <2>1. "pc" \in DOMAIN WithDevice(job, job.dev)
    BY <1>0 DEF WithDevice, WorkerType
  <2> QED BY <1>5, <1>s, <2>1, QuietContinuations, IdleQuiet
          DEF DeletionGetDevice, At, Tells, ReadOnly, store
<1>6. CASE SubmitGone(w)
  <2>1. \A e : e \in events' /\ e.status # "decommissioned"
               <=> e \in events /\ e.status # "decommissioned"
    BY <1>6 DEF SubmitGone
  <2>2. Continue(w, [job EXCEPT !.pc = "delete_device"]) /\ job.pc \notin Tells
    BY <1>6 DEF SubmitGone, At, Tells
  <2>3. [job EXCEPT !.pc = "delete_device"].pc \notin Tells
    BY <1>p DEF Tells
  <2> QED BY <2>1, <2>2, <2>3 DEF Silent, Continue
<1>7. CASE DeleteDevice(w)
  BY <1>7, <1>s, IdleQuiet DEF DeleteDevice, At, Tells
<1>8. CASE DeleteSets(w)
  BY <1>8, <1>s, <1>p DEF DeleteSets, At, Tells
<1>9. CASE Flag(w)
  BY <1>9, <1>s, <1>p, IdleQuiet DEF Flag, At, Tells
<1>10. CASE SubmitDecommission(w)
  BY <1>10, <1>s, IdleQuiet DEF SubmitDecommission, At, Tells
<1> QED BY <1>1, <1>2, <1>3, <1>4, <1>5, <1>6, <1>7, <1>8, <1>9, <1>10 DEF Changing

\* Preauthorization: creating a device is announced with its set.
LEMMA PreauthorizingSilent ==
    ASSUME Inv, NEW w \in Workers, Preauthorizing(w)
    PROVE AddPreauthorizedDevice(w) \/ AddPreauthorizedSet(w) \/ Silent(w)
<1> DEFINE job == workers[w]
<1>0. job \in WorkerType
  BY DEF Inv, TypeOK
<1>d. "pc" \in DOMAIN job
  BY <1>0 DEF WorkerType
<1>p. \A pc : [job EXCEPT !.pc = pc].pc = pc
  BY <1>d
<1>s. ASSUME NEW new, new.pc \notin Tells, Continue(w, new), job.pc \notin Tells, events' = events
      PROVE Silent(w)
  BY <1>s DEF Silent, Continue
<1>1. CASE FindExistingDevice(w)
  <2>1. \A d : [job EXCEPT !.pc = "upsert_set", !.dev = d].pc = "upsert_set"
    BY <1>0 DEF WorkerType
  <2> QED BY <1>1, <1>s, <2>1, IdleQuiet DEF FindExistingDevice, At, Tells, ReadOnly, store
<1>2. CASE UpsertSet(w)
  BY <1>2, <1>s, IdleQuiet DEF UpsertSet, At, Tells
<1>3. CASE Patch(w)
  BY <1>3, <1>s, IdleQuiet DEF Patch, At, Tells
<1> QED BY <1>1, <1>2, <1>3 DEF Preauthorizing

\* Requests that arrive have nothing to announce.
LEMMA ArrivalSilent ==
    ASSUME Inv, NEW w \in Workers, Arrival(w) PROVE Silent(w)
<1>s. ASSUME NEW job, job.pc \notin Tells, Start(w, job) PROVE Silent(w)
  BY <1>s DEF Silent, Start, At, Tells, store
<1>1. ASSUME NEW identity, NEW key, StartAuth(w, identity, key) PROVE Silent(w)
  BY <1>1, <1>s DEF StartAuth, Idle, Tells
<1>2. ASSUME NEW kind, NEW identity, NEW key, StartPreauthorize(w, kind, identity, key)
      PROVE Silent(w)
  BY <1>2, <1>s DEF StartPreauthorize, Idle, Tells
<1>3. ASSUME NEW s, StartVerify(w, s) PROVE Silent(w)
  BY <1>3, <1>s DEF StartVerify, Idle, Tells
<1>4. ASSUME NEW s, NEW status, StartSetStatus(w, s, status) PROVE Silent(w)
  BY <1>4, <1>s DEF StartSetStatus, Idle, Tells
<1>5. ASSUME NEW s, StartDeleteSet(w, s) PROVE Silent(w)
  BY <1>5, <1>s DEF StartDeleteSet, Idle, Tells
<1>6. ASSUME NEW s, StartRevoke(w, s) PROVE Silent(w)
  BY <1>6, <1>s DEF StartRevoke, Idle, Tells
<1>7. ASSUME NEW d, StartDecommission(w, d) PROVE Silent(w)
  <2> DEFINE job == [Idle EXCEPT !.kind = "decommission", !.dev = d]
  <2>1. "pc" \in DOMAIN job
    BY DEF Idle
  <2>2. Start(w, Invalidating(job))
    BY <1>7 DEF StartDecommission
  <2> HIDE DEF job
  <2> QED BY <2>1, <2>2, <1>s, QuietContinuations
<1>8. ASSUME NEW d, StartDeleteDevice(w, d) PROVE Silent(w)
  BY <1>8, <1>s DEF StartDeleteDevice, Idle, Tells
<1>9. ASSUME NEW d, StartDeleteTokens(w, d) PROVE Silent(w)
  BY <1>9, <1>s DEF StartDeleteTokens, Idle, Tells
<1>10. ASSUME NEW d, StartPatch(w, d) PROVE Silent(w)
  BY <1>10, <1>s DEF StartPatch, Idle, Tells
<1> QED BY <1>1, <1>2, <1>3, <1>4, <1>5, <1>6, <1>7, <1>8, <1>9, <1>10 DEF Arrival

\* Who announces a status, or is about to.
LEMMA WhoAnnounces ==
    ASSUME Inv, NEW w \in Workers, Arrival(w) \/ Step(w)
    PROVE \/ UpdateDeviceWithRevision(w) \/ AddPreauthorizedDevice(w)
          \/ AddPreauthorizedSet(w) \/ Submit(w) \/ Silent(w)
BY StepsOf, AdmittingSilent, AskingSilent, CheckingSilent, ChangingSilent, PreauthorizingSilent,
   ArrivalSilent

\* A request that is about to announce a status from now on.
LEMMA Announced ==
    ASSUME TypeOK, NEW w \in Workers, NEW job, workers' = [workers EXCEPT ![w] = job],
           workers[w].pc \notin Tells, job.pc \in Tells, events' = events
    PROVE \A d : /\ job.dev # d => Announcements(d)' = Announcements(d)
                 /\ job.dev = d =>
                      Announcements(d)' =
                        Announcements(d) \union
                        {[dev |-> d, status |-> job.new, revision |-> job.revision]}
<1>1. \A v \in Workers : v # w => workers'[v] = workers[v]
  BY DEF TypeOK
<1>2. workers'[w] = job
  BY DEF TypeOK
<1>3. \A d, e : e \in Announcements(d)'
                  <=> \/ e \in Announcements(d)
                      \/ /\ job.dev = d
                         /\ e = [dev |-> d, status |-> job.new, revision |-> job.revision]
  BY <1>1, <1>2 DEF Announcements, Tells
<1>4. \A d : job.dev # d => Announcements(d)' = Announcements(d)
  BY <1>3, Zenon DEF Announcements
<1>5. \A d : job.dev = d =>
                Announcements(d)' =
                  Announcements(d) \union
                  {[dev |-> d, status |-> job.new, revision |-> job.revision]}
  BY <1>3, Zenon
<1> QED BY <1>4, <1>5

\* A request that moves on to announce the same.
LEMMA StillToAnnounce ==
    ASSUME TypeOK, NEW w \in Workers, NEW job, workers' = [workers EXCEPT ![w] = job],
           workers[w].pc \in Tells, job.pc \in Tells, events' = events,
           job.dev = workers[w].dev, job.new = workers[w].new, job.revision = workers[w].revision
    PROVE \A d : Announcements(d)' = Announcements(d)
<1>1. \A v \in Workers : v # w => workers'[v] = workers[v]
  BY DEF TypeOK
<1>2. workers'[w] = job
  BY DEF TypeOK
<1>3. \A d, e : e \in Announcements(d)' <=> e \in Announcements(d)
  BY <1>1, <1>2 DEF Announcements, Tells
<1> QED BY <1>3, Zenon DEF Announcements

\* A request that has announced its status.
LEMMA Submitted ==
    ASSUME TypeOK, NEW w \in Workers, NEW job, workers' = [workers EXCEPT ![w] = job],
           workers[w].pc \in Tells, job.pc \notin Tells, events' = events \union {Said(w)},
           workers[w].new # "decommissioned"
    PROVE \A d : Announcements(d)' = Announcements(d)
<1>1. \A v \in Workers : v # w => workers'[v] = workers[v]
  BY DEF TypeOK
<1>2. workers'[w] = job
  BY DEF TypeOK
<1>3. \A d, e : e \in Announcements(d)' <=> e \in Announcements(d)
  BY <1>1, <1>2 DEF Announcements, Tells, Said
<1> QED BY <1>3, Zenon DEF Announcements

\* A request that gives up announcing.
LEMMA GaveUp ==
    ASSUME TypeOK, NEW w \in Workers, NEW job, workers' = [workers EXCEPT ![w] = job],
           workers[w].pc \in Tells, job.pc \notin Tells, events' = events
    PROVE \A d : /\ Announcements(d)' \subseteq Announcements(d)
                 /\ Announcements(d) \subseteq Announcements(d)' \union {Said(w)}
<1>1. \A v \in Workers : v # w => workers'[v] = workers[v]
  BY DEF TypeOK
<1>2. workers'[w] = job
  BY DEF TypeOK
<1>3. \A d, e : e \in Announcements(d)' => e \in Announcements(d)
  BY <1>1, <1>2 DEF Announcements, Tells
<1>4. \A d, e : e \in Announcements(d) => e \in Announcements(d)' \/ e = Said(w)
  BY <1>1, <1>2 DEF Announcements, Tells, Said
<1> QED BY <1>3, <1>4

\* Every step keeps what the announcements tell.
LEMMA EventsStep == ASSUME Inv, EventsInv, [Next]_vars PROVE EventsInv'
<1> USE DEF Inv
<1> SUFFICES ASSUME failures' = 0, NEW d \in DeviceIds
             PROVE ToldOK(devices'[d], Announcements(d)')
  BY DEF EventsInv
<1> DEFINE Goal == ToldOK(devices'[d], Announcements(d)')
<1>t. devices[d] \in DeviceType /\ devices'[d] \in DeviceType
      /\ devices \in [DeviceIds -> DeviceType]
  BY TypesStep DEF TypeOK
<1>1. CASE UNCHANGED <<devices, events, workers, failures>>
  BY <1>1 DEF EventsInv, Announcements
<1>2. ASSUME NEW w \in Workers, Arrival(w) \/ Step(w), failures = 0 PROVE Goal
  <2> DEFINE job == workers[w]
  <2>i. ToldOK(devices[d], Announcements(d))
    BY <1>2 DEF EventsInv
  <2>j. job \in WorkerType /\ "pc" \in DOMAIN job
    BY DEF TypeOK, WorkerType
  <2>1. ASSUME Announcements(d)' = Announcements(d),
               \/ UNCHANGED devices
               \/ \E x \in DeviceIds : Raised(x) \/ Deleted(x) \/ Created(w, x, "noauth")
        PROVE Goal
    <3>1. CASE devices'[d] = devices[d]
      BY <2>i, <2>1, <3>1
    <3>2. CASE Raised(d)
      <4>1. PICK update \in DeviceType :
              /\ update.stage = "stored" /\ update.status = devices[d].status
              /\ update.revision = devices[d].revision /\ devices' = Revised(d, update)
        BY <3>2 DEF Raised
      <4>2. devices'[d] = [update EXCEPT !.revision = @ + 1]
        BY <1>t, <4>1 DEF Revised
      <4>3. /\ devices'[d].stage = devices[d].stage /\ devices'[d].status = devices[d].status
            /\ devices'[d].revision >= devices[d].revision
        BY <1>t, <3>2, <4>1, <4>2 DEF DeviceType, Raised, Stored
      <4> QED BY <1>t, <2>i, <2>1, <4>3, ToldRaised
    <3>3. CASE Deleted(d)
      <4>1. devices'[d].stage = "deleted"
        BY <1>t, <3>3 DEF Deleted, DeviceType
      <4> QED BY <4>1 DEF ToldOK
    <3>4. CASE Created(w, d, "noauth")
      <4>1. devices[d].stage = "none"
        BY <3>4 DEF Created, NewDevices
      <4>2. Announcements(d)' = {}
        BY <2>i, <2>1, <4>1 DEF ToldOK
      <4>3. devices'[d].stage = "stored" /\ devices'[d].status = "noauth"
        BY <1>t, <3>4 DEF Created, NewDevice
      <4> QED BY <4>2, <4>3 DEF ToldOK
    <3>5. ASSUME NEW x \in DeviceIds, x # d, Raised(x) \/ Deleted(x) \/ Created(w, x, "noauth")
          PROVE devices'[d] = devices[d]
      BY <1>t, <3>5 DEF Raised, Revised, Deleted, Created
    <3> QED BY <2>1, <3>1, <3>2, <3>3, <3>4, <3>5
  <2>2. CASE UpdateDeviceWithRevision(w)
    <3>p. job.pc \notin Tells /\ events' = events
      BY <2>2 DEF UpdateDeviceWithRevision, At, Tells
    <3>1. CASE UNCHANGED devices /\ Continue(w, DeviceDone(job))
      <4>1. DeviceDone(job).pc \notin Tells
        BY <2>j, QuietContinuations
      <4>2. Announcements(d)' = Announcements(d)
        BY <3>p, <3>1, <4>1, Quiet DEF Continue
      <4> QED BY <2>1, <3>1, <4>2
    <3>2. CASE Written(w) /\ Continue(w, [job EXCEPT !.pc = "submit", !.dstatus = job.new,
                                                      !.revision = job.revision + 1])
      <4> DEFINE next == [job EXCEPT !.pc = "submit", !.dstatus = job.new,
                                     !.revision = job.revision + 1]
                 e == [dev |-> d, status |-> next.new, revision |-> next.revision]
      <4>1. /\ next.pc \in Tells /\ next.dev = job.dev /\ next.new = job.new
            /\ next.revision = job.revision + 1
        BY <2>j DEF WorkerType, Tells
      <4>2. workers' = [workers EXCEPT ![w] = next]
        BY <3>2 DEF Continue
      <4> HIDE DEF next
      <4>3. /\ next.dev # d => Announcements(d)' = Announcements(d)
            /\ next.dev = d => Announcements(d)' = Announcements(d) \union {e}
        BY <3>p, <4>1, <4>2, Announced
      <4>4. CASE job.dev # d
        <5>1. devices'[d] = devices[d]
          BY <1>t, <3>2, <4>4 DEF Written, Revised
        <5>2. Announcements(d)' = Announcements(d)
          BY <4>1, <4>3, <4>4
        <5> QED BY <2>i, <5>1, <5>2
      <4>5. CASE job.dev = d
        <5>1. devices[d].stage = "stored" /\ devices[d].revision = job.revision
          BY <3>2, <4>5 DEF Written, Stored
        <5>2. devices'[d] = [[devices[d] EXCEPT !.status = job.new] EXCEPT !.revision = @ + 1]
          BY <1>t, <3>2, <4>5 DEF Written, Revised
        <5>3. /\ devices'[d].stage = "stored" /\ devices'[d].status = job.new
              /\ devices'[d].revision = devices[d].revision + 1
          BY <1>t, <5>1, <5>2 DEF DeviceType
        <5>4. Announcements(d)' = Announcements(d) \union {e}
          BY <4>1, <4>3, <4>5
        <5>5. e.revision = devices'[d].revision /\ e.status = devices'[d].status
          BY <4>1, <5>1, <5>3
        <5> HIDE DEF e
        <5> QED BY <1>t, <2>i, <5>1, <5>3, <5>4, <5>5, ToldWritten
      <4> QED BY <4>4, <4>5
    <3> QED BY <2>2, <3>1, <3>2 DEF UpdateDeviceWithRevision, Written
  <2>3. CASE AddPreauthorizedDevice(w)
    <3>p. job.pc \notin Tells /\ events' = events
      BY <2>3 DEF AddPreauthorizedDevice, At, Tells
    <3>1. CASE UNCHANGED devices /\ (Continue(w, Idle)
                                     \/ Continue(w, [job EXCEPT !.pc = "find_existing_device"]))
      <4>1. Idle.pc \notin Tells /\ [job EXCEPT !.pc = "find_existing_device"].pc \notin Tells
        BY <2>j, IdleQuiet DEF Tells
      <4>2. Announcements(d)' = Announcements(d)
        BY <3>p, <3>1, <4>1, Quiet DEF Continue
      <4> QED BY <2>1, <3>1, <4>2
    <3>2. CASE /\ NewDevices # {}
               /\ devices' = [devices EXCEPT ![Least(NewDevices)] =
                                NewDevice(job.identity, "preauthorized")]
               /\ Continue(w, [job EXCEPT !.pc = "add_preauthorized_set",
                                          !.dev = Least(NewDevices),
                                          !.dstatus = "preauthorized", !.revision = 1])
      <4> DEFINE x == Least(NewDevices)
                 next == [job EXCEPT !.pc = "add_preauthorized_set", !.dev = x,
                                     !.dstatus = "preauthorized", !.revision = 1]
                 e == [dev |-> d, status |-> next.new, revision |-> next.revision]
      <4>0. x \in NewDevices /\ x \in DeviceIds
        BY <3>2, LeastOf, QueryTypes
      <4>n. job.new = "preauthorized"
        BY <2>3, AtHand DEF AddPreauthorizedDevice, At, Allowed
      <4>1. next.pc \in Tells /\ next.dev = x /\ next.new = "preauthorized" /\ next.revision = 1
        <5> HIDE DEF x
        <5> QED BY <2>j, <4>n DEF WorkerType, Tells
      <4>2. workers' = [workers EXCEPT ![w] = next]
        BY <3>2 DEF Continue
      <4>d. devices' = [devices EXCEPT ![x] = NewDevice(job.identity, "preauthorized")]
        BY <3>2
      <4> HIDE DEF next, x
      <4>3. /\ next.dev # d => Announcements(d)' = Announcements(d)
            /\ next.dev = d => Announcements(d)' = Announcements(d) \union {e}
        BY <3>p, <4>1, <4>2, Announced
      <4>4. CASE x # d
        <5>1. devices'[d] = devices[d]
          BY <1>t, <4>d, <4>4
        <5>2. Announcements(d)' = Announcements(d)
          BY <4>1, <4>3, <4>4
        <5> QED BY <2>i, <5>1, <5>2
      <4>5. CASE x = d
        <5>1. devices[d].stage = "none"
          BY <4>0, <4>5 DEF NewDevices
        <5>2. devices'[d] = NewDevice(job.identity, "preauthorized")
          BY <1>t, <4>d, <4>5
        <5>3. /\ devices'[d].stage = "stored" /\ devices'[d].status = "preauthorized"
              /\ devices'[d].revision = 1
          BY <5>2 DEF NewDevice
        <5>4. Announcements(d)' = {e}
          BY <2>i, <4>1, <4>3, <4>5, <5>1 DEF ToldOK
        <5>5. e.revision = 1 /\ e.status = "preauthorized"
          BY <4>1
        <5> HIDE DEF e
        <5> QED BY <5>3, <5>4, <5>5 DEF ToldOK
      <4> QED BY <4>4, <4>5
    <3> QED BY <2>3, <3>1, <3>2 DEF AddPreauthorizedDevice
  <2>4. CASE AddPreauthorizedSet(w)
    <3>p. job.pc \in Tells /\ events' = events /\ UNCHANGED devices
      BY <2>4 DEF AddPreauthorizedSet, At, Tells
    <3>1. CASE Continue(w, Idle)
      <4>1. Idle.pc \notin Tells
        BY IdleQuiet
      <4>2. /\ Announcements(d)' \subseteq Announcements(d)
            /\ Announcements(d) \subseteq Announcements(d)' \union {Said(w)}
        BY <3>p, <3>1, <4>1, GaveUp DEF Continue
      <4>3. Said(w).revision = 1 /\ Said(w).status = "preauthorized"
        BY <2>4, AtHand DEF AddPreauthorizedSet, At, Allowed, Said
      <4> QED BY <2>i, <3>p, <4>2, <4>3, ToldDropped
    <3>2. CASE \E s : Continue(w, [job EXCEPT !.pc = "submit", !.set = s,
                                              !.sstatus = "preauthorized"])
      <4>1. PICK s : Continue(w, [job EXCEPT !.pc = "submit", !.set = s,
                                             !.sstatus = "preauthorized"])
        BY <3>2
      <4> DEFINE next == [job EXCEPT !.pc = "submit", !.set = s, !.sstatus = "preauthorized"]
      <4>2. /\ next.pc \in Tells /\ next.dev = job.dev /\ next.new = job.new
            /\ next.revision = job.revision
        BY <2>j DEF WorkerType, Tells
      <4>3. workers' = [workers EXCEPT ![w] = next]
        BY <4>1 DEF Continue
      <4> HIDE DEF next
      <4>4. Announcements(d)' = Announcements(d)
        BY <3>p, <4>2, <4>3, StillToAnnounce
      <4> QED BY <2>1, <3>p, <4>4
    <3> QED BY <2>4, <3>1, <3>2 DEF AddPreauthorizedSet
  <2>5. CASE Submit(w)
    <3>1. DeviceDone(job).pc \notin Tells
      BY <2>j, QuietContinuations
    <3>2. job.new # "decommissioned"
      BY <2>5, AtHand DEF Submit, At, Allowed, WritesDevice, DeviceStatuses, SetStatuses
    <3>3. /\ workers' = [workers EXCEPT ![w] = DeviceDone(job)] /\ job.pc \in Tells
          /\ events' = events \union {Said(w)} /\ UNCHANGED devices
      BY <2>5 DEF Submit, Continue, At, Tells, Said
    <3>4. Announcements(d)' = Announcements(d)
      BY <3>1, <3>2, <3>3, Submitted
    <3> QED BY <2>1, <3>3, <3>4
  <2>6. CASE /\ Silent(w) /\ ~UpdateDeviceWithRevision(w) /\ ~AddPreauthorizedDevice(w)
    <3>1. Announcements(d)' = Announcements(d)
      BY <2>6, Quiet DEF Silent
    <3>2. \/ UNCHANGED devices
          \/ \E x \in DeviceIds : Raised(x) \/ Deleted(x) \/ Created(w, x, "noauth")
      BY <1>2, <2>6, DevicesStep
    <3> QED BY <2>1, <3>1, <3>2
  <2> QED BY <1>2, <2>2, <2>3, <2>4, <2>5, <2>6, WhoAnnounces
<1>3. CASE UNCHANGED vars
  BY <1>1, <1>3 DEF vars
<1>4. ASSUME NEW x \in DeviceIds, CacheExpires(x) PROVE Goal
  BY <1>1, <1>4 DEF CacheExpires
<1>5. ASSUME NEW w \in Workers, Fail(w) PROVE FALSE
  BY <1>5 DEF Fail, TypeOK
<1>6. ASSUME NEW w \in Workers, Arrival(w) \/ Step(w) PROVE failures = 0
  <2>1. UNCHANGED failures
    BY <1>6 DEF Arrival, Start, StartAuth, StartVerify, StartSetStatus, StartDeleteSet,
         StartDecommission, StartDeleteDevice, StartPreauthorize, StartRevoke, StartDeleteTokens,
         StartPatch, Step, ReadOnly, Unchanged, FindPreauthorized, GetPreauthorizedDevice,
         CountAccepted, RejectOthers, UpdateSet, UpdateDeviceWithRevision, Submit, AddDevice,
         FindDevice, AddSet, FindSet, Aggregate, AddToken, CheckIn, Throttle, GetToken, GetSet,
         GetDevice, CacheToken, Invalidate, DeleteTokens, DeleteToken, RevokeGetToken,
         StatusGetSet, StatusGetDevice, DeletionGetSet, DeleteSet, DeletionGetDevice, SubmitGone,
         DeleteDevice, DeleteSets, Flag, SubmitDecommission, AddPreauthorizedDevice,
         FindExistingDevice, AddPreauthorizedSet, UpsertSet, Patch
  <2> QED BY <2>1
<1> QED BY <1>2, <1>3, <1>4, <1>5, <1>6 DEF Next

\* At first nothing is announced.
LEMMA EventsInit == Init => EventsInv
<1> SUFFICES ASSUME Init, NEW d \in DeviceIds PROVE ToldOK(devices[d], Announcements(d))
  BY DEF EventsInv
<1>1. Announcements(d) = {}
  BY DEF Init, Announcements, Idle
<1>2. devices[d].stage = "none"
  BY DEF Init, NoDeviceYet
<1> QED BY <1>1, <1>2 DEF ToldOK

\* As long as no request was cut short, the announcement of a device with the
\* greatest revision tells the status it has, whatever requests run at the
\* same time and however many: the write of the status compares the revision.
THEOREM AnnouncedStatus == Spec => []EventsTellStatus
<1>1. Init => Inv /\ EventsInv
  BY InvInit, EventsInit
<1>2. Inv /\ EventsInv /\ [Next]_vars => Inv' /\ EventsInv'
  BY InvStep, EventsStep
<1>3. EventsInv => EventsTellStatus
  BY EventsInvTells
<1> QED BY <1>1, <1>2, <1>3, PTL DEF Spec

---------------------------------------------------------------------------
(* Requests one after the other.  What they rely on is restored at the end *)
(* of each; in between the invariant says, per position, what the request  *)
(* has already done to its device, its set and what is cached of them.     *)

\* The statuses of the sets of a device.
Marks(d) == {authSets[s].status : s \in SetsOf(d)}
Single(S) == \A s, t \in S : s = t
Whole(d) == Single(InSetStatus(d, "accepted")) /\ Single(InSetStatus(d, "preauthorized"))
Belongs(s, d) == s \in Known /\ authSets[s].dev = d

\* Between requests: the status of a device, and what is cached of it.
Settled(d) == Stored(d) => Whole(d) /\ devices[d].status = Heaviest(Marks(d))
Uncached(d) == d \in DeviceIds => cache[d] \notin SetIds
OwnToken(d) == CacheOn /\ Belongs(cache[d], d)
InService(d) == Stored(d) /\ ~devices[d].decommissioning
CacheFine(d) == Uncached(d) \/ (OwnToken(d) /\ InService(d) /\ "accepted" \in Marks(d))
Proper(d) == Settled(d) /\ CacheFine(d)

\* A set belongs to the stored device with its identity, of which there is one; only
\* devices that are marked are deleted by the job; and the limit is kept.
OneDevice ==
    \A d, e \in DeviceIds :
        Stored(d) /\ Stored(e) /\ devices[d].identity = devices[e].identity => d = e
SetsHaveDevices ==
    \A s \in StoredSets :
        Stored(authSets[s].dev) /\ authSets[s].identity = devices[authSets[s].dev].identity
MarkedAreDeleted ==
    \A d \in decommissions :
        devices[d].stage # "none" /\ (Stored(d) => devices[d].decommissioning)
AcceptedDevices == {d \in DeviceIds : Stored(d) /\ devices[d].status = "accepted"}
LimitKept == Cardinality(AcceptedDevices) <= DeviceLimit
World == OneDevice /\ SetsHaveDevices /\ MarkedAreDeleted /\ LimitKept

\* The request has a copy of its device, or of its set, as they are.
DeviceAtHand(job) ==
    /\ Stored(job.dev) /\ job.dstatus = devices[job.dev].status
    /\ job.revision = devices[job.dev].revision
SetAtHand(job) ==
    /\ job.set \in StoredSets /\ authSets[job.set].dev = job.dev
    /\ authSets[job.set].status = job.sstatus

\* A set is to get another status, of the choice of an operator or by admission.
Choices == {"accepted", "rejected", "pending"}
Decided(job) ==
    /\ DeviceAtHand(job) /\ SetAtHand(job) /\ job.new \in Choices /\ job.new # job.sstatus
    /\ job.kind = "set_status" => job.changes = MayChange(job)
    /\ job.kind # "set_status" => job.new = "accepted"
Withdrawn(job) ==
    job.kind = "set_status" /\ Decided(job) /\ job.sstatus = "accepted" /\ job.new # "accepted"

\* The device is accepted already, or may be.
MayAdmit(job) == job.dstatus = "accepted" \/ Admits

\* The sets of the device changed; that alone does not accept it.
Changed(job) ==
    /\ Stored(job.dev) /\ Whole(job.dev)
    /\ "accepted" \in Marks(job.dev) => devices[job.dev].status = "accepted"

\* A token the service knows, of an accepted set.
Verified(job) == SetAtHand(job) /\ job.sstatus = "accepted" /\ job.set \in tokens
ToBeCached(job) == Verified(job) /\ InService(job.dev)

\* Per position: just before the operation on the database or the cache.
BeforeUpdateSet(job) ==
    /\ Decided(job)
    /\ IF job.new = "accepted"
       THEN /\ MayAdmit(job) /\ "accepted" \notin Marks(job.dev) /\ Whole(job.dev)
            /\ Uncached(job.dev) \/ (OwnToken(job.dev) /\ InService(job.dev))
       ELSE job.sstatus = "accepted" => Uncached(job.dev)
BeforeUpdateDevice(job) ==
    /\ DeviceAtHand(job) /\ Whole(job.dev) /\ job.new = Heaviest(Marks(job.dev))
    /\ CacheFine(job.dev) /\ job.new # job.dstatus /\ (job.new = "accepted" => Admits)
BeforeAggregate(job) ==
    /\ Changed(job) /\ CacheFine(job.dev)
    /\ job.kind # "delete_set" => DeviceAtHand(job)
BeforeInvalidate(job) ==
    /\ job.kind \in {"set_status", "delete_set", "decommission", "revoke"}
    /\ job.dev \in DeviceIds
    /\ job.kind = "set_status" => Withdrawn(job)
    /\ job.kind = "delete_set" => Changed(job) /\ CacheOn
    /\ job.kind = "revoke" => Belongs(job.set, job.dev)
BeforeDeleteTokens(job) ==
    /\ job.kind \in {"set_status", "delete_set", "delete_device", "delete_tokens"}
    /\ job.kind = "set_status" => Withdrawn(job) /\ Uncached(job.dev)
    /\ job.kind = "delete_set" =>
         Changed(job) /\ (Uncached(job.dev) \/ (CacheOn /\ Belongs(cache[job.dev], job.dev)))
    /\ job.kind = "delete_device" => SetsOf(job.dev) = {} /\ Uncached(job.dev)
BeforeAddPreauthorizedSet(job) ==
    /\ Stored(job.dev) /\ devices[job.dev].identity = job.identity
    /\ devices[job.dev].status = "preauthorized"
    /\ SetsOf(job.dev) = {} /\ Uncached(job.dev) /\ NewSets # {}

Here(job) ==
    LET pc == job.pc
        d == job.dev
    IN /\ pc \notin {"upsert_set", "find_existing_device"}
       /\ pc \in {"find_preauthorized", "get_preauthorized_device"} =>
            job.kind = "auth" /\ job.new = "accepted"
       /\ pc \in {"find_set", "add_set"} => DeviceAtHand(job)
       /\ pc = "add_set" => devices[d].identity = job.identity
       /\ pc = "get_preauthorized_device" =>
            SetAtHand(job) /\ job.sstatus = "preauthorized"
       /\ pc \in {"status_get_set", "status_get_device"} =>
            job.kind = "set_status" /\ job.new \in Choices /\ Belongs(job.set, d)
       /\ pc = "status_get_device" => SetAtHand(job) /\ job.sstatus # job.new
       /\ pc \in {"count_accepted", "reject_others"} => Decided(job) /\ job.new = "accepted"
       /\ pc = "reject_others" => MayAdmit(job)
       /\ pc = "update_set" => BeforeUpdateSet(job)
       /\ pc = "update_device" => BeforeUpdateDevice(job)
       /\ pc = "aggregate" => BeforeAggregate(job)
       /\ pc = "deletion_get_device" =>
            Changed(job) /\ CacheFine(d) /\ job.new = Heaviest(Marks(d))
       /\ pc \in {"throttle", "get_token", "get_set", "revoke_get_token", "delete_token",
                  "deletion_get_set"} => Belongs(job.set, d)
       /\ pc = "add_token" => job.kind = "auth"
       /\ pc = "revoke_get_token" => job.kind = "revoke"
       /\ pc = "deletion_get_set" => job.kind = "delete_set"
       /\ pc = "get_set" => job.set \in tokens
       /\ pc = "get_device" => Verified(job)
       /\ pc = "check_in" /\ job.kind = "verify" =>
            job.cached = job.set \/ ToBeCached(job)
       /\ pc = "cache_token" => ToBeCached(job) /\ CacheOn
       /\ pc = "invalidate" => BeforeInvalidate(job)
       /\ pc = "delete_tokens" => BeforeDeleteTokens(job)
       /\ pc = "delete_set" => job.kind = "delete_set" /\ SetAtHand(job)
       /\ pc \in {"submit_gone", "delete_device"} => SetsOf(d) = {} /\ Uncached(d)
       /\ pc = "delete_sets" => job.kind = "delete_device" /\ d \in decommissions
       /\ pc = "flag" => Uncached(d)
       /\ pc = "submit_decommission" => Stored(d) /\ devices[d].decommissioning
       /\ pc = "add_preauthorized_device" => job.kind = "preauthorize"
       /\ pc = "add_preauthorized_set" => BeforeAddPreauthorizedSet(job)

\* Positions at which the device of the request is not as it is between requests.
Loose(job) ==
    \/ job.pc \in {"update_device", "aggregate", "deletion_get_device", "submit_gone",
                   "delete_device", "add_preauthorized_set"}
    \/ job.pc = "update_set" /\ job.new = "accepted"
    \/ job.pc = "invalidate" /\ job.kind = "delete_set"
    \/ job.pc = "delete_tokens" /\ job.kind \in {"delete_set", "delete_device"}
Elsewhere(job) == \A d \in DeviceIds : d # job.dev \/ ~Loose(job) => Proper(d)

Situation(job) == World /\ Elsewhere(job) /\ Here(job)

\* Between requests everything is in order.
AllProper == \A d \in DeviceIds : Proper(d)
Others(job) == \A d \in DeviceIds : d # job.dev => Proper(d)

\* The same request at another position.
Goto(new, job, pc) ==
    /\ new.pc = pc /\ new.kind = job.kind /\ new.identity = job.identity
    /\ new.key = job.key /\ new.dev = job.dev /\ new.set = job.set
    /\ new.dstatus = job.dstatus /\ new.revision = job.revision
    /\ new.sstatus = job.sstatus /\ new.new = job.new
    /\ new.changes = job.changes /\ new.cached = job.cached

\* An update of the position alone.
LEMMA GotoFields ==
    ASSUME NEW job \in WorkerType, NEW pc PROVE Goto([job EXCEPT !.pc = pc], job, pc)
BY DEF WorkerType, Goto

\* The heaviest status tells which ones are there.
LEMMA HeaviestTells ==
    ASSUME NEW S \in SUBSET DeviceStatuses
    PROVE  /\ Heaviest(S) = "accepted" <=> "accepted" \in S
           /\ Heaviest(S) = "preauthorized" <=> "preauthorized" \in S /\ "accepted" \notin S
           /\ Heaviest(S) = "pending" <=>
                "pending" \in S /\ "preauthorized" \notin S /\ "accepted" \notin S
           /\ Heaviest(S) = "rejected" <=>
                "rejected" \in S /\ "pending" \notin S /\ "preauthorized" \notin S
                  /\ "accepted" \notin S
           /\ Heaviest(S) = "noauth" <=> S \subseteq {"noauth"}
<1>w. /\ Weight["noauth"] = 0 /\ Weight["rejected"] = 1 /\ Weight["pending"] = 2
      /\ Weight["preauthorized"] = 3 /\ Weight["accepted"] = 4
  BY DEF Weight
<1>d. /\ \A st \in S : st \in {"noauth", "rejected", "pending", "preauthorized", "accepted"}
      /\ DeviceStatuses = {"noauth", "rejected", "pending", "preauthorized", "accepted"}
  BY DEF DeviceStatuses, SetStatuses
<1>1. CASE S = {}
  BY <1>1 DEF Heaviest
<1>2. CASE S # {}
  <2>1. \E st \in S : \A x \in S : Weight[x] <= Weight[st]
    <3>1. CASE "accepted" \in S
      BY <3>1, <1>w, <1>d
    <3>2. CASE "accepted" \notin S /\ "preauthorized" \in S
      BY <3>2, <1>w, <1>d
    <3>3. CASE "accepted" \notin S /\ "preauthorized" \notin S /\ "pending" \in S
      BY <3>3, <1>w, <1>d
    <3>4. CASE "accepted" \notin S /\ "preauthorized" \notin S /\ "pending" \notin S
               /\ "rejected" \in S
      BY <3>4, <1>w, <1>d
    <3>5. CASE S = {"noauth"}
      BY <3>5, <1>w
    <3> QED BY <1>2, <1>d, <3>1, <3>2, <3>3, <3>4, <3>5
  <2> DEFINE h == Heaviest(S)
  <2>2. h \in S /\ \A x \in S : Weight[x] <= Weight[h]
    BY <1>2, <2>1 DEF Heaviest
  <2> HIDE DEF h
  <2>3. h \in {"noauth", "rejected", "pending", "preauthorized", "accepted"}
    BY <2>2, <1>d
  <2>4. h = "accepted" <=> "accepted" \in S
    BY <2>2, <2>3, <1>w, <1>d
  <2>5. h = "preauthorized" <=> "preauthorized" \in S /\ "accepted" \notin S
    BY <2>2, <2>3, <1>w, <1>d
  <2>6. h = "pending" <=> "pending" \in S /\ "preauthorized" \notin S /\ "accepted" \notin S
    BY <2>2, <2>3, <1>w, <1>d
  <2>7. h = "rejected" <=> "rejected" \in S /\ "pending" \notin S /\ "preauthorized" \notin S
                             /\ "accepted" \notin S
    BY <2>2, <2>3, <1>w, <1>d
  <2>8. h = "noauth" <=> S \subseteq {"noauth"}
    BY <2>2, <2>3, <1>w, <1>d
  <2> QED BY <2>4, <2>5, <2>6, <2>7, <2>8 DEF h
<1> QED BY <1>1, <1>2

\* What the sets of a device and their statuses are.
SetFacts ==
    /\ \A d, s : s \in SetsOf(d) <=>
         s \in SetIds /\ authSets[s].stage = "stored" /\ authSets[s].dev = d
    /\ \A d, st : st \in Marks(d) <=> \E s \in SetsOf(d) : authSets[s].status = st
    /\ \A d, s, st : s \in InSetStatus(d, st) <=> s \in SetsOf(d) /\ authSets[s].status = st
MarkFacts ==
    /\ \A d : Marks(d) \in SUBSET DeviceStatuses
    /\ \A d : Marks(d) \subseteq {"noauth"} => SetsOf(d) = {}
    /\ \A d : SetsOf(d) = {} => Marks(d) = {}

\* The sets of a device, and their statuses.
LEMMA SetsAre == SetFacts
BY DEF SetFacts, SetsOf, StoredSets, Marks, InSetStatus

\* No set has the status of a device without sets.
LEMMA MarksAre == TypeOK => MarkFacts
<1> SUFFICES ASSUME TypeOK PROVE MarkFacts
  OBVIOUS
<1>1. SetFacts
  BY SetsAre
<1>2. \A s \in SetIds : authSets[s].status \in SetStatuses
  BY DEF TypeOK, AuthSetType
<1>3. \A d : Marks(d) \in SUBSET SetStatuses
  BY <1>1, <1>2 DEF SetFacts
<1>4. SetStatuses \subseteq DeviceStatuses /\ "noauth" \notin SetStatuses
  BY DEF SetStatuses, DeviceStatuses
<1>5. \A d : Marks(d) \subseteq {"noauth"} => SetsOf(d) = {}
  <2> SUFFICES ASSUME NEW d, NEW s \in SetsOf(d) PROVE ~(Marks(d) \subseteq {"noauth"})
    OBVIOUS
  <2>1. authSets[s].status \in Marks(d)
    BY <1>1 DEF SetFacts
  <2> QED BY <1>3, <1>4, <2>1
<1>6. \A d : SetsOf(d) = {} => Marks(d) = {}
  BY <1>1 DEF SetFacts
<1> QED BY <1>3, <1>4, <1>5, <1>6 DEF MarkFacts

\* The same after a step.
LEMMA SetsAreNext == SetFacts' /\ (TypeOK' => MarkFacts')
BY SetsAre, MarksAre, PTL

\* At most one set is accepted, at most one preauthorized: what getDeviceStatus asks.
LEMMA WholeIsNotBroken ==
    ASSUME NEW d PROVE  Whole(d) <=> ~Broken(d)
<1>1. \A st : IsFiniteSet(InSetStatus(d, st))
  <2>1. IsFiniteSet(SetIds)
    BY FS_Interval, SizesAssumption DEF SetIds
  <2>2. \A st : InSetStatus(d, st) \subseteq SetIds
    BY DEF InSetStatus, SetsOf, StoredSets
  <2> QED BY <2>1, <2>2, FS_Subset
<1>2. ASSUME NEW S, IsFiniteSet(S) PROVE Single(S) <=> ~(Cardinality(S) > 1)
  <2>0. Cardinality(S) \in Nat
    BY <1>2, FS_CardinalityType
  <2>1. CASE S = {}
    BY <2>1, FS_EmptySet DEF Single
  <2>2. ASSUME NEW x \in S, S # {x} PROVE ~Single(S) /\ Cardinality(S) > 1
    <3>1. PICK y \in S : y # x
      BY <2>2
    <3>2. ~Single(S)
      BY <3>1 DEF Single
    <3>3. IsFiniteSet({x}) /\ Cardinality({x}) = 1
      BY FS_Singleton
    <3>4. {x} \subseteq S /\ {x} # S
      BY <2>2
    <3>5. Cardinality({x}) <= Cardinality(S) /\ Cardinality({x}) # Cardinality(S)
      BY <1>2, <3>4, FS_Subset
    <3> QED BY <2>0, <3>2, <3>3, <3>5
  <2>3. ASSUME NEW x, S = {x} PROVE Single(S) /\ Cardinality(S) = 1
    BY <2>3, FS_Singleton DEF Single
  <2> QED BY <2>0, <2>1, <2>2, <2>3
<1>3. Single(InSetStatus(d, "accepted")) <=> ~(Cardinality(InSetStatus(d, "accepted")) > 1)
  BY <1>1, <1>2
<1>4. Single(InSetStatus(d, "preauthorized"))
        <=> ~(Cardinality(InSetStatus(d, "preauthorized")) > 1)
  BY <1>1, <1>2
<1> QED BY <1>3, <1>4 DEF Whole, Broken
---------------------------------------------------------------------------
(* Where a request may go from what it has done: one formula for each of   *)
(* the continuations, of one state, so that they are there after a step.   *)

\* Positions at which nothing is left to do with the device.
PlainPCs ==
    {"idle", "add_device", "find_device", "submit", "patch"}
FitsPlain ==
    \A new \in WorkerType : World /\ AllProper /\ new.pc \in PlainPCs => Situation(new)

\* The positions that look at the device as it is between requests.
FitsHere ==
    \A new \in WorkerType : World /\ AllProper /\ Here(new) => Situation(new)
FitsLoose ==
    \A new \in WorkerType :
        World /\ Others(new) /\ new.dev \in DeviceIds /\ Loose(new) /\ Here(new) => Situation(new)

FitsDone ==
    \A job, new \in WorkerType :
        World /\ AllProper /\ new = DeviceDone(job) => Situation(new)

FitsDeviceUpdate ==
    \A job, new \in WorkerType :
        /\ World /\ Others(job) /\ DeviceAtHand(job) /\ Whole(job.dev) /\ CacheFine(job.dev)
        /\ job.new = Heaviest(Marks(job.dev))
        /\ job.new = "accepted" /\ job.dstatus # "accepted" => Admits
        /\ new = BeginDeviceUpdate(job)
        => Situation(new)

FitsSetKnown ==
    \A job, new \in WorkerType :
        /\ World /\ Others(job) /\ DeviceAtHand(job) /\ Changed(job) /\ CacheFine(job.dev)
        /\ Heaviest({job.sstatus, job.dstatus}) = job.dstatus => Settled(job.dev)
        /\ new = SetKnown(job)
        => Situation(new)

FitsAdmit ==
    \A job, new \in WorkerType :
        /\ World /\ AllProper /\ Decided(job) /\ job.new = "accepted"
        /\ new = Admit(job)
        => Situation(new)

\* The kinds of requests that see to the cache, and what they have done before.
ToInvalidate(job) ==
    /\ job.kind \in {"set_status", "delete_set", "decommission", "revoke"}
    /\ job.dev \in DeviceIds /\ Others(job)
    /\ job.kind # "delete_set" => Proper(job.dev)
    /\ job.kind = "set_status" => Withdrawn(job)
    /\ job.kind = "delete_set" => Changed(job)
    /\ job.kind = "revoke" => Belongs(job.set, job.dev)

FitsAfterInvalidate ==
    \A job, new \in WorkerType :
        World /\ ToInvalidate(job) /\ Uncached(job.dev) /\ new = AfterInvalidate(job)
        => Situation(new)

FitsInvalidating ==
    \A job, new \in WorkerType :
        /\ World /\ ToInvalidate(job) /\ new = Invalidating(job)
        /\ job.kind = "delete_set" => CacheOn \/ Uncached(job.dev)
        => Situation(new)

FitsSetUpdate ==
    \A job, new \in WorkerType :
        /\ World /\ AllProper /\ Decided(job) /\ job.kind = "set_status"
        /\ job.new # "accepted" /\ new = BeginSetUpdate(job)
        => Situation(new)

\* What is to be shown of a request is what its position asks for.
LEMMA HereFits == FitsHere
BY DEF FitsHere, Situation, Elsewhere, AllProper

\* A request that is in the middle of what it does to its device.
LEMMA LooseFits == FitsLoose
BY DEF FitsLoose, Situation, Elsewhere, Others

\* A request at a position that asks for nothing.
LEMMA PlainFits == FitsPlain
<1>1. ASSUME NEW new \in WorkerType, new.pc \in PlainPCs PROVE Here(new)
  BY <1>1 DEF Here, PlainPCs
<1> QED BY <1>1, HereFits DEF FitsPlain, FitsHere

\* The end of what a request does to a device (DeviceDone).
LEMMA DoneFits == FitsDone
<1> SUFFICES ASSUME NEW job \in WorkerType, NEW new \in WorkerType, World, AllProper,
                    new = DeviceDone(job)
             PROVE  Situation(new)
  BY DEF FitsDone
<1>1. CASE job.kind = "auth" /\ job.sstatus = "accepted"
  <2>1. new.pc = "add_token" /\ new.kind = "auth"
    BY <1>1, GotoFields DEF DeviceDone, Goto
  <2>2. Here(new)
    BY <2>1 DEF Here
  <2> QED BY <2>2, HereFits DEF FitsHere
<1>2. CASE ~(job.kind = "auth" /\ job.sstatus = "accepted")
  <2>1. new.pc = "idle"
    BY <1>2 DEF DeviceDone, Idle
  <2> QED BY <2>1, PlainFits DEF FitsPlain, PlainPCs
<1> QED BY <1>1, <1>2

\* The update of a device, to the status of its sets (BeginDeviceUpdate).
LEMMA DeviceUpdateFits == FitsDeviceUpdate
<1> SUFFICES ASSUME NEW job \in WorkerType, NEW new \in WorkerType,
                    World, Others(job), DeviceAtHand(job), Whole(job.dev), CacheFine(job.dev),
                    job.new = Heaviest(Marks(job.dev)),
                    job.new = "accepted" /\ job.dstatus # "accepted" => Admits,
                    new = BeginDeviceUpdate(job)
             PROVE  Situation(new)
  BY DEF FitsDeviceUpdate
<1>1. job.dev \in DeviceIds
  BY DEF DeviceAtHand, Stored
<1>2. CASE job.dstatus = job.new
  <2>1. Settled(job.dev)
    BY <1>2 DEF DeviceAtHand, Settled
  <2>2. AllProper
    BY <2>1 DEF AllProper, Others, Proper
  <2> QED BY <1>2, <2>2, DoneFits DEF FitsDone, BeginDeviceUpdate
<1>3. CASE job.dstatus # job.new
  <2>1. Goto(new, job, "update_device")
    BY <1>3, GotoFields DEF BeginDeviceUpdate
  <2>2. BeforeUpdateDevice(new)
    BY <1>3, <2>1 DEF BeforeUpdateDevice, Goto, DeviceAtHand
  <2>3. Here(new) /\ Loose(new)
    BY <2>1, <2>2 DEF Here, Loose, Goto
  <2>4. Others(new) /\ new.dev \in DeviceIds
    BY <1>1, <2>1 DEF Others, Goto
  <2> QED BY <2>3, <2>4, LooseFits DEF FitsLoose
<1> QED BY <1>2, <1>3

\* An authentication request that has its set (SetKnown).
LEMMA SetKnownFits == FitsSetKnown
<1> SUFFICES ASSUME NEW job \in WorkerType, NEW new \in WorkerType,
                    World, Others(job), DeviceAtHand(job), Changed(job), CacheFine(job.dev),
                    Heaviest({job.sstatus, job.dstatus}) = job.dstatus => Settled(job.dev),
                    new = SetKnown(job)
             PROVE  Situation(new)
  BY DEF FitsSetKnown
<1>1. job.dev \in DeviceIds
  BY DEF DeviceAtHand, Stored
<1>2. CASE Heaviest({job.sstatus, job.dstatus}) = job.dstatus
  <2>1. AllProper
    BY <1>2 DEF AllProper, Others, Proper
  <2> QED BY <1>2, <2>1, DoneFits DEF FitsDone, SetKnown
<1>3. CASE Heaviest({job.sstatus, job.dstatus}) # job.dstatus
  <2>1. Goto(new, job, "aggregate")
    BY <1>3, GotoFields DEF SetKnown
  <2>2. BeforeAggregate(new)
    BY <2>1 DEF BeforeAggregate, Goto, DeviceAtHand, Changed
  <2>3. Here(new) /\ Loose(new)
    BY <2>1, <2>2 DEF Here, Loose, Goto
  <2>4. Others(new) /\ new.dev \in DeviceIds
    BY <1>1, <2>1 DEF Others, Goto
  <2> QED BY <2>3, <2>4, LooseFits DEF FitsLoose
<1> QED BY <1>2, <1>3

\* The acceptance of a set (Admit).
LEMMA AdmitFits == FitsAdmit
<1> SUFFICES ASSUME NEW job \in WorkerType, NEW new \in WorkerType,
                    World, AllProper, Decided(job), job.new = "accepted", new = Admit(job)
             PROVE  Situation(new)
  BY DEF FitsAdmit
<1>1. PICK pc \in {"reject_others", "count_accepted"} :
        /\ Goto(new, job, pc) /\ (pc = "reject_others" => job.dstatus = "accepted")
  BY GotoFields DEF Admit
<1>2. Decided(new) /\ new.new = "accepted"
  BY <1>1 DEF Goto, Decided, DeviceAtHand, SetAtHand, MayChange
<1>3. new.pc = "reject_others" => MayAdmit(new)
  BY <1>1 DEF Goto, MayAdmit
<1>4. Here(new)
  BY <1>1, <1>2, <1>3 DEF Here, Goto
<1> QED BY <1>4, HereFits DEF FitsHere

\* Past the cache (AfterInvalidate).
LEMMA AfterInvalidateFits == FitsAfterInvalidate
<1> SUFFICES ASSUME NEW job \in WorkerType, NEW new \in WorkerType,
                    World, ToInvalidate(job), Uncached(job.dev), new = AfterInvalidate(job)
             PROVE  Situation(new)
  BY DEF FitsAfterInvalidate
<1>1. job.kind # "delete_set" => AllProper
  BY DEF ToInvalidate, AllProper, Others
<1>2. CASE job.kind = "set_status"
  <2>1. Goto(new, job, "delete_tokens")
    BY <1>2, GotoFields DEF AfterInvalidate
  <2>2. Withdrawn(new) /\ Uncached(new.dev) /\ new.kind = "set_status"
    BY <1>2, <2>1 DEF ToInvalidate, Goto, Withdrawn, Decided, DeviceAtHand, SetAtHand, MayChange
  <2>3. Here(new)
    BY <2>1, <2>2 DEF Here, Goto, BeforeDeleteTokens
  <2> QED BY <1>1, <1>2, <2>3, HereFits DEF FitsHere
<1>3. CASE job.kind = "delete_set"
  <2>1. Goto(new, job, "aggregate")
    BY <1>3, GotoFields DEF AfterInvalidate
  <2>2. BeforeAggregate(new)
    BY <1>3, <2>1 DEF BeforeAggregate, Goto, ToInvalidate, Changed, CacheFine
  <2>3. Here(new) /\ Loose(new)
    BY <2>1, <2>2 DEF Here, Loose, Goto
  <2>4. Others(new) /\ new.dev \in DeviceIds
    BY <2>1 DEF ToInvalidate, Others, Goto
  <2> QED BY <2>3, <2>4, LooseFits DEF FitsLoose
<1>4. CASE job.kind = "decommission"
  <2>1. Goto(new, job, "flag")
    BY <1>4, GotoFields DEF AfterInvalidate
  <2>2. Here(new)
    BY <2>1 DEF Here, Goto
  <2> QED BY <1>1, <1>4, <2>2, HereFits DEF FitsHere
<1>5. CASE job.kind = "revoke"
  <2>1. Goto(new, job, "delete_token")
    BY <1>5, GotoFields DEF AfterInvalidate
  <2>2. Belongs(new.set, new.dev)
    BY <1>5, <2>1 DEF ToInvalidate, Goto, Belongs, Known
  <2>3. Here(new)
    BY <2>1, <2>2 DEF Here, Goto
  <2> QED BY <1>1, <1>5, <2>3, HereFits DEF FitsHere
<1> QED BY <1>2, <1>3, <1>4, <1>5 DEF ToInvalidate

\* To the cache (Invalidating).
LEMMA InvalidatingFits == FitsInvalidating
<1> SUFFICES ASSUME NEW job \in WorkerType, NEW new \in WorkerType,
                    World, ToInvalidate(job), new = Invalidating(job),
                    job.kind = "delete_set" => CacheOn \/ Uncached(job.dev)
             PROVE  Situation(new)
  BY DEF FitsInvalidating
<1>1. CASE ~CacheOn
  <2>1. Uncached(job.dev)
    BY <1>1 DEF ToInvalidate, Proper, CacheFine, OwnToken
  <2> QED BY <1>1, <2>1, AfterInvalidateFits DEF FitsAfterInvalidate, Invalidating
<1>2. CASE CacheOn
  <2>1. Goto(new, job, "invalidate")
    BY <1>2, GotoFields DEF Invalidating
  <2>2. BeforeInvalidate(new)
    BY <1>2, <2>1 DEF BeforeInvalidate, ToInvalidate, Goto, Withdrawn, Decided, DeviceAtHand,
                      SetAtHand, MayChange, Changed
  <2>3. Here(new)
    BY <2>1, <2>2 DEF Here, Goto
  <2>4. CASE job.kind = "delete_set"
    <3>1. Others(new) /\ new.dev \in DeviceIds /\ Loose(new)
      BY <2>1, <2>4 DEF ToInvalidate, Others, Goto, Loose
    <3> QED BY <2>3, <3>1, LooseFits DEF FitsLoose
  <2>5. CASE job.kind # "delete_set"
    <3>1. AllProper
      BY <2>5 DEF ToInvalidate, AllProper, Others
    <3> QED BY <2>3, <3>1, HereFits DEF FitsHere
  <2> QED BY <2>4, <2>5
<1> QED BY <1>1, <1>2

\* A set that an operator does not accept (BeginSetUpdate).
LEMMA SetUpdateFits == FitsSetUpdate
<1> SUFFICES ASSUME NEW job \in WorkerType, NEW new \in WorkerType,
                    World, AllProper, Decided(job), job.kind = "set_status",
                    job.new # "accepted", new = BeginSetUpdate(job)
             PROVE  Situation(new)
  BY DEF FitsSetUpdate
<1>1. job.dev \in DeviceIds
  BY DEF Decided, DeviceAtHand, Stored
<1>2. CASE job.sstatus = "accepted"
  <2>1. ToInvalidate(job)
    BY <1>1, <1>2 DEF ToInvalidate, Withdrawn, AllProper, Others
  <2> QED BY <1>2, <2>1, InvalidatingFits DEF FitsInvalidating, BeginSetUpdate
<1>3. CASE job.sstatus # "accepted"
  <2>1. Goto(new, job, "update_set")
    BY <1>3, GotoFields DEF BeginSetUpdate
  <2>2. BeforeUpdateSet(new)
    BY <1>3, <2>1 DEF BeforeUpdateSet, Goto, Decided, DeviceAtHand, SetAtHand, MayChange
  <2>3. Here(new)
    BY <2>1, <2>2 DEF Here, Goto
  <2> QED BY <2>3, HereFits DEF FitsHere
<1> QED BY <1>2, <1>3

\* All of them, before and after a step.
Fitting ==
    /\ FitsPlain /\ FitsHere /\ FitsLoose /\ FitsDone /\ FitsDeviceUpdate /\ FitsSetKnown
    /\ FitsAdmit /\ FitsAfterInvalidate /\ FitsInvalidating /\ FitsSetUpdate

\* Every continuation fits.
LEMMA AllFits == Fitting
BY PlainFits, HereFits, LooseFits, DoneFits, DeviceUpdateFits, SetKnownFits, AdmitFits,
   AfterInvalidateFits, InvalidatingFits, SetUpdateFits DEF Fitting

\* And does after a step.
LEMMA AllFitsNext == Fitting'
BY AllFits, PTL

---------------------------------------------------------------------------
(* What a step leaves as it is.                                             *)

\* Of the devices, when they are not written.
DevicesStay ==
    /\ \A d : (Stored(d)' <=> Stored(d)) /\ (InService(d)' <=> InService(d))
    /\ OneDevice' <=> OneDevice
    /\ LimitKept' <=> LimitKept
    /\ Admits' <=> Admits
    /\ NewDevices' = NewDevices
    /\ \A job : (DeviceAtHand(job)' <=> DeviceAtHand(job)) /\ (MayAdmit(job)' <=> MayAdmit(job))

\* A step that writes no device.
LEMMA DevicesKept == UNCHANGED devices => DevicesStay
<1> SUFFICES ASSUME UNCHANGED devices PROVE DevicesStay
  OBVIOUS
<1>1. \A d : (Stored(d)' <=> Stored(d)) /\ (InService(d)' <=> InService(d))
  BY DEF Stored, InService
<1>2. OneDevice' <=> OneDevice
  BY DEF Stored, OneDevice
<1>3. AcceptedDevices' = AcceptedDevices
  BY DEF AcceptedDevices, Stored
<1>4. LimitKept' <=> LimitKept
  BY <1>3 DEF LimitKept
<1>5. Admits' <=> Admits
  BY DEF Admits, Stored
<1>6. NewDevices' = NewDevices
  BY DEF NewDevices
<1>7. \A job : DeviceAtHand(job)' <=> DeviceAtHand(job)
  BY DEF DeviceAtHand, Stored
<1>8. \A job : MayAdmit(job)' <=> MayAdmit(job)
  BY <1>5 DEF MayAdmit
<1> QED BY <1>1, <1>2, <1>4, <1>5, <1>6, <1>7, <1>8 DEF DevicesStay

\* Of the sets of one device.
SetsLike(d) ==
    /\ SetsOf(d)' = SetsOf(d)
    /\ \A s \in SetsOf(d) : authSets'[s].status = authSets[s].status

\* Sets that stay as they are have the statuses they had.
LEMMA LikeMarks ==
    ASSUME NEW d, SetsLike(d)
    PROVE  Marks(d)' = Marks(d) /\ (Whole(d)' <=> Whole(d))
<1>1. Marks(d)' = Marks(d)
  BY DEF Marks, SetsLike
<1>2. InSetStatus(d, "accepted")' = InSetStatus(d, "accepted")
  BY DEF InSetStatus, SetsLike
<1>3. InSetStatus(d, "preauthorized")' = InSetStatus(d, "preauthorized")
  BY DEF InSetStatus, SetsLike
<1> QED BY <1>1, <1>2, <1>3 DEF Whole, Single

\* Of all sets, when they are not written.
SetsStay ==
    /\ \A d : /\ SetsOf(d)' = SetsOf(d) /\ Marks(d)' = Marks(d) /\ (Whole(d)' <=> Whole(d))
              /\ SetsLike(d)
    /\ \A s, d : Belongs(s, d)' <=> Belongs(s, d)
    /\ NewSets' = NewSets /\ StoredSets' = StoredSets
    /\ \A job : SetAtHand(job)' <=> SetAtHand(job)

\* A step that writes no set.
LEMMA SetsUnchanged == UNCHANGED authSets => SetsStay
<1> SUFFICES ASSUME UNCHANGED authSets PROVE SetsStay
  OBVIOUS
<1>1. NewSets' = NewSets /\ StoredSets' = StoredSets
  BY DEF NewSets, StoredSets
<1>2. \A d : SetsOf(d)' = SetsOf(d)
  BY DEF SetsOf, StoredSets
<1>3. \A d : SetsLike(d)
  BY <1>2 DEF SetsLike
<1>4. \A d : Marks(d)' = Marks(d) /\ (Whole(d)' <=> Whole(d))
  BY <1>3, LikeMarks
<1>5. \A s, d : Belongs(s, d)' <=> Belongs(s, d)
  BY DEF Belongs, Known
<1>6. \A job : SetAtHand(job)' <=> SetAtHand(job)
  BY <1>1 DEF SetAtHand
<1> QED BY <1>1, <1>2, <1>3, <1>4, <1>5, <1>6 DEF SetsStay

\* A device whose document, sets and cached token are as they were.
LEMMA ProperApart ==
    ASSUME NEW d, Proper(d), SetsLike(d), Stored(d)' <=> Stored(d),
           devices'[d].status = devices[d].status,
           devices'[d].decommissioning = devices[d].decommissioning,
           cache'[d] = cache[d], Belongs(cache[d], d) => Belongs(cache[d], d)'
    PROVE  Proper(d)'
<1>1. Marks(d)' = Marks(d) /\ (Whole(d)' <=> Whole(d))
  BY LikeMarks
<1>2. Settled(d)'
  BY <1>1 DEF Proper, Settled
<1>4. CASE Uncached(d)
  BY <1>2, <1>4 DEF Proper, CacheFine, Uncached
<1>5. CASE ~Uncached(d)
  <2>1. OwnToken(d) /\ InService(d) /\ "accepted" \in Marks(d)
    BY <1>5 DEF Proper, CacheFine
  <2>2. CacheOn /\ cache[d] \in Known' /\ authSets'[cache[d]].dev = d
    BY <2>1 DEF OwnToken, Belongs
  <2>4. OwnToken(d)'
    BY <2>2 DEF OwnToken, Belongs
  <2>5. InService(d)'
    BY <2>1 DEF InService
  <2> QED BY <1>1, <1>2, <2>1, <2>4, <2>5 DEF Proper, CacheFine
<1> QED BY <1>4, <1>5

\* Everything, when nothing is written.
LEMMA SituationStays ==
    ASSUME UNCHANGED <<devices, authSets, tokens, cache, decommissions>>,
           NEW job \in WorkerType, Situation(job)
    PROVE  Situation(job)'
<1>1. DevicesStay /\ SetsStay
  BY DevicesKept, SetsUnchanged
<1>2. World'
  BY <1>1 DEF Situation, World, DevicesStay, SetsStay, SetsHaveDevices, MarkedAreDeleted
<1>3. \A d : Proper(d) => Proper(d)'
  BY <1>1, ProperApart DEF SetsStay, DevicesStay
<1>4. Elsewhere(job)'
  BY <1>3 DEF Situation, Elsewhere
<1>5. \A d : /\ Uncached(d)' <=> Uncached(d)
             /\ OwnToken(d)' <=> OwnToken(d)
             /\ CacheFine(d)' <=> CacheFine(d)
  BY <1>1 DEF Uncached, OwnToken, CacheFine, DevicesStay, SetsStay
<1>6. /\ Decided(job)' <=> Decided(job)
      /\ Withdrawn(job)' <=> Withdrawn(job)
      /\ Changed(job)' <=> Changed(job)
      /\ Verified(job)' <=> Verified(job)
      /\ ToBeCached(job)' <=> ToBeCached(job)
  BY <1>1 DEF Decided, Withdrawn, Changed, Verified, ToBeCached, DevicesStay, SetsStay
<1>7. /\ BeforeUpdateSet(job)' <=> BeforeUpdateSet(job)
      /\ BeforeUpdateDevice(job)' <=> BeforeUpdateDevice(job)
      /\ BeforeAggregate(job)' <=> BeforeAggregate(job)
      /\ BeforeInvalidate(job)' <=> BeforeInvalidate(job)
      /\ BeforeDeleteTokens(job)' <=> BeforeDeleteTokens(job)
      /\ BeforeAddPreauthorizedSet(job)' <=> BeforeAddPreauthorizedSet(job)
  BY <1>1, <1>5, <1>6
     DEF BeforeUpdateSet, BeforeUpdateDevice, BeforeAggregate, BeforeInvalidate,
         BeforeDeleteTokens, BeforeAddPreauthorizedSet, DevicesStay, SetsStay
<1>8. Here(job)'
  BY <1>1, <1>5, <1>6, <1>7 DEF Situation, Here, DevicesStay, SetsStay
<1> QED BY <1>2, <1>4, <1>8 DEF Situation

---------------------------------------------------------------------------
(* The steps of a request that is the only one.                             *)

\* A request with its situation, and what it is after the step.
Serving(w, job, next) ==
    /\ TypeOK /\ TypeOK' /\ SetsOK /\ Good(job, Known) /\ Situation(job)
    /\ job = workers[w] /\ next = workers'[w]

\* What the situation says at first sight.
LEMMA Around ==
    ASSUME NEW job, Situation(job)
    PROVE  World /\ Others(job) /\ Here(job) /\ (~Loose(job) => AllProper)
BY DEF Situation, Elsewhere, Others, AllProper

\* What the request is after the step.
LEMMA NextIs ==
    ASSUME NEW w \in Workers, NEW job, NEW next, Serving(w, job, next), NEW e, Continue(w, e)
    PROVE  next = e
BY DEF Serving, Continue, TypeOK

\* What was only read stays as it was.
LEMMA Read ==
    ASSUME NEW job \in WorkerType, ReadOnly, Situation(job) PROVE Situation(job)'
BY SituationStays DEF ReadOnly, store

\* processPreAuthRequest
LEMMA FindPreauthorizedServes ==
    ASSUME NEW w \in Workers, NEW job \in WorkerType, NEW next \in WorkerType,
           Serving(w, job, next), FindPreauthorized(w)
    PROVE  Situation(next)'
<1>1. job = workers[w] /\ job.pc = "find_preauthorized" /\ ReadOnly
  BY DEF Serving, FindPreauthorized, At
<1>2. World /\ AllProper /\ job.kind = "auth" /\ job.new = "accepted"
  BY <1>1, Around DEF Serving, Loose, Here
<1> DEFINE found == {s \in SetWith(job.identity, job.key) : authSets[s].status = "preauthorized"}
<1>3. CASE Continue(w, [job EXCEPT !.pc = "add_device", !.new = NoStatus])
  <2>1. next = [job EXCEPT !.pc = "add_device", !.new = NoStatus]
    BY <1>3, NextIs
  <2>2. next.pc = "add_device"
    BY <2>1 DEF WorkerType
  <2> QED BY <1>1, <1>2, <2>2, AllFits, Read DEF Fitting, FitsPlain, PlainPCs
<1>4. ASSUME NEW s \in found,
             Continue(w, [WithSet(job, s) EXCEPT !.pc = "get_preauthorized_device",
                                                 !.dev = authSets[s].dev])
      PROVE  Situation(next)'
  <2>1. next = [WithSet(job, s) EXCEPT !.pc = "get_preauthorized_device",
                                       !.dev = authSets[s].dev]
    BY <1>4, NextIs
  <2>2. /\ next.pc = "get_preauthorized_device" /\ next.set = s /\ next.dev = authSets[s].dev
        /\ next.sstatus = authSets[s].status /\ next.kind = job.kind /\ next.new = job.new
    BY <2>1 DEF WorkerType, WithSet
  <2>3. s \in StoredSets /\ authSets[s].status = "preauthorized"
    BY DEF SetWith
  <2>4. Here(next)
    BY <1>2, <2>2, <2>3 DEF Here, SetAtHand
  <2> QED BY <1>1, <1>2, <2>4, AllFits, Read DEF Fitting, FitsHere
<1> QED BY <1>1, <1>3, <1>4 DEF FindPreauthorized

\* What the copy of a device is.
LEMMA CopyOfDevice ==
    ASSUME TypeOK, NEW job \in WorkerType, NEW d, Stored(d)
    PROVE  LET copy == WithDevice(job, d)
           IN /\ copy \in WorkerType /\ copy.dev = d /\ copy.dstatus = devices[d].status
              /\ copy.revision = devices[d].revision /\ copy.pc = job.pc /\ copy.kind = job.kind
              /\ copy.identity = job.identity /\ copy.key = job.key /\ copy.set = job.set
              /\ copy.sstatus = job.sstatus /\ copy.new = job.new /\ copy.changes = job.changes
              /\ DeviceAtHand(copy)
<1>1. d \in DeviceIds /\ devices[d] \in DeviceType
  BY DEF Stored, TypeOK
<1>2. devices[d].status \in DeviceStatuses /\ devices[d].revision \in Nat
  BY <1>1 DEF DeviceType
<1> QED BY <1>1, <1>2 DEF WithDevice, WorkerType, DeviceAtHand

\* What the copy of a set is.
LEMMA CopyOfSet ==
    ASSUME TypeOK, NEW job \in WorkerType, NEW s \in StoredSets
    PROVE  LET copy == WithSet(job, s)
           IN /\ copy \in WorkerType /\ copy.set = s /\ copy.sstatus = authSets[s].status
              /\ copy.pc = job.pc /\ copy.kind = job.kind /\ copy.dev = job.dev
              /\ copy.identity = job.identity /\ copy.key = job.key
              /\ copy.dstatus = job.dstatus /\ copy.revision = job.revision
              /\ copy.new = job.new /\ copy.changes = job.changes /\ copy.cached = job.cached
<1>1. s \in SetIds /\ authSets[s].status \in SetStatuses
  BY DEF StoredSets, TypeOK, AuthSetType
<1> QED BY <1>1 DEF WithSet, WorkerType

\* handlePreAuthDevice
LEMMA GetPreauthorizedDeviceServes ==
    ASSUME NEW w \in Workers, NEW job \in WorkerType, NEW next \in WorkerType,
           Serving(w, job, next), GetPreauthorizedDevice(w)
    PROVE  Situation(next)'
<1>1. /\ TypeOK /\ job = workers[w] /\ job.pc = "get_preauthorized_device" /\ ReadOnly
      /\ Continue(w, IF ~Stored(job.dev) \/ devices[job.dev].decommissioning THEN Idle
                     ELSE Admit(WithDevice(job, job.dev)))
  BY DEF Serving, GetPreauthorizedDevice, At
<1>2. /\ World /\ AllProper /\ job.kind = "auth" /\ job.new = "accepted"
      /\ SetAtHand(job) /\ job.sstatus = "preauthorized"
  BY <1>1, Around DEF Serving, Loose, Here
<1>3. next = IF ~Stored(job.dev) \/ devices[job.dev].decommissioning THEN Idle
             ELSE Admit(WithDevice(job, job.dev))
  BY <1>1, NextIs
<1>4. CASE next = Idle
  <2>1. next.pc = "idle"
    BY <1>4 DEF Idle
  <2> QED BY <1>1, <1>2, <2>1, AllFits, Read DEF Fitting, FitsPlain, PlainPCs
<1>5. CASE Stored(job.dev) /\ next = Admit(WithDevice(job, job.dev))
  <2>1. PICK copy \in WorkerType :
          /\ copy = WithDevice(job, job.dev) /\ DeviceAtHand(copy) /\ copy.dev = job.dev
          /\ copy.kind = job.kind /\ copy.new = job.new /\ copy.set = job.set
          /\ copy.sstatus = job.sstatus
    BY <1>1, <1>5, CopyOfDevice
  <2>2. Decided(copy) /\ copy.new = "accepted"
    BY <1>2, <2>1 DEF Decided, SetAtHand, Choices
  <2> QED BY <1>1, <1>2, <1>5, <2>1, <2>2, AllFits, Read DEF Fitting, FitsAdmit
<1> QED BY <1>3, <1>4, <1>5

\* canAcceptDevice
LEMMA CountAcceptedServes ==
    ASSUME NEW w \in Workers, NEW job \in WorkerType, NEW next \in WorkerType,
           Serving(w, job, next), CountAccepted(w)
    PROVE  Situation(next)'
<1>1. /\ job = workers[w] /\ job.pc = "count_accepted" /\ ReadOnly
      /\ Continue(w, IF Admits THEN [job EXCEPT !.pc = "reject_others"] ELSE Idle)
  BY DEF Serving, CountAccepted, At
<1>2. World /\ AllProper /\ Decided(job) /\ job.new = "accepted"
  BY <1>1, Around DEF Serving, Loose, Here
<1>3. next = IF Admits THEN [job EXCEPT !.pc = "reject_others"] ELSE Idle
  BY <1>1, NextIs
<1>4. CASE next = Idle
  <2>1. next.pc = "idle"
    BY <1>4 DEF Idle
  <2> QED BY <1>1, <1>2, <2>1, AllFits, Read DEF Fitting, FitsPlain, PlainPCs
<1>5. CASE Admits /\ next = [job EXCEPT !.pc = "reject_others"]
  <2>1. Goto(next, job, "reject_others")
    BY <1>5, GotoFields
  <2>2. Decided(next) /\ next.new = "accepted" /\ MayAdmit(next)
    BY <1>2, <1>5, <2>1 DEF Goto, Decided, DeviceAtHand, SetAtHand, MayChange, MayAdmit
  <2>3. Here(next)
    BY <2>1, <2>2 DEF Here, Goto
  <2> QED BY <1>1, <1>2, <2>3, AllFits, Read DEF Fitting, FitsHere
<1> QED BY <1>3, <1>4, <1>5

\* getDeviceFromAuthRequest, past the insertion.
LEMMA FindDeviceServes ==
    ASSUME NEW w \in Workers, NEW job \in WorkerType, NEW next \in WorkerType,
           Serving(w, job, next), FindDevice(w)
    PROVE  Situation(next)'
<1>1. TypeOK /\ job = workers[w] /\ job.pc = "find_device" /\ ReadOnly
  BY DEF Serving, FindDevice, At
<1>2. World /\ AllProper
  BY <1>1, Around DEF Serving, Loose
<1>3. CASE Continue(w, Idle)
  <2>1. next.pc = "idle"
    BY <1>3, NextIs DEF Idle
  <2> QED BY <1>1, <1>2, <2>1, AllFits, Read DEF Fitting, FitsPlain, PlainPCs
<1>4. ASSUME NEW d \in DeviceWith(job.identity),
             Continue(w, [WithDevice(job, d) EXCEPT !.pc = "add_set"])
      PROVE  Situation(next)'
  <2>1. d \in DeviceIds /\ Stored(d) /\ devices[d].identity = job.identity
    BY DEF DeviceWith
  <2>2. PICK copy \in WorkerType :
          /\ copy = WithDevice(job, d) /\ DeviceAtHand(copy) /\ copy.dev = d
          /\ copy.identity = job.identity
    BY <1>1, <2>1, CopyOfDevice
  <2>3. next = [copy EXCEPT !.pc = "add_set"]
    BY <1>4, <2>2, NextIs
  <2>4. Goto(next, copy, "add_set")
    BY <2>3, GotoFields
  <2>5. Here(next)
    BY <2>1, <2>2, <2>4 DEF Here, Goto, DeviceAtHand
  <2> QED BY <1>1, <1>2, <2>5, AllFits, Read DEF Fitting, FitsHere
<1>5. \/ Continue(w, Idle)
      \/ \E d \in DeviceWith(job.identity) :
           Continue(w, [WithDevice(job, d) EXCEPT !.pc = "add_set"])
  BY <1>1 DEF FindDevice
<1> QED BY <1>3, <1>4, <1>5

\* GetAuthSetByIdDataHashKey
LEMMA FindSetServes ==
    ASSUME NEW w \in Workers, NEW job \in WorkerType, NEW next \in WorkerType,
           Serving(w, job, next), FindSet(w)
    PROVE  Situation(next)'
<1>1. TypeOK /\ job = workers[w] /\ job.pc = "find_set" /\ ReadOnly
  BY DEF Serving, FindSet, At
<1>2. World /\ AllProper /\ DeviceAtHand(job)
  BY <1>1, Around DEF Serving, Loose, Here
<1>3. CASE Continue(w, Idle)
  <2>1. next.pc = "idle"
    BY <1>3, NextIs DEF Idle
  <2> QED BY <1>1, <1>2, <2>1, AllFits, Read DEF Fitting, FitsPlain, PlainPCs
<1>4. ASSUME NEW s \in SetWith(job.identity, job.key), Continue(w, SetKnown(WithSet(job, s)))
      PROVE  Situation(next)'
  <2>1. s \in StoredSets
    BY DEF SetWith
  <2>2. PICK copy \in WorkerType :
          /\ copy = WithSet(job, s) /\ copy.dev = job.dev
          /\ copy.dstatus = job.dstatus /\ copy.revision = job.revision
    BY <1>1, <2>1, CopyOfSet
  <2>3. next = SetKnown(copy)
    BY <1>4, <2>2, NextIs
  <2>4. DeviceAtHand(copy) /\ copy.dev \in DeviceIds
    BY <1>2, <2>2 DEF DeviceAtHand, Stored
  <2>5. Settled(copy.dev) /\ CacheFine(copy.dev) /\ Others(copy)
    BY <1>2, <2>4 DEF AllProper, Proper, Others
  <2>6. Changed(copy)
    <3>1. Marks(copy.dev) \in SUBSET DeviceStatuses
      BY <1>1, MarksAre DEF MarkFacts
    <3>2. Heaviest(Marks(copy.dev)) = "accepted" <=> "accepted" \in Marks(copy.dev)
      BY <3>1, HeaviestTells
    <3> QED BY <2>4, <2>5, <3>2 DEF Changed, Settled, DeviceAtHand
  <2> QED BY <1>1, <1>2, <2>3, <2>4, <2>5, <2>6, AllFits, Read DEF Fitting, FitsSetKnown
<1>5. \/ Continue(w, Idle)
      \/ \E s \in SetWith(job.identity, job.key) : Continue(w, SetKnown(WithSet(job, s)))
  BY <1>1 DEF FindSet
<1> QED BY <1>3, <1>4, <1>5

\* A request with a status of its device to write.
LEMMA CopyOfStatus ==
    ASSUME NEW job \in WorkerType, NEW st \in DeviceStatuses
    PROVE  LET copy == [job EXCEPT !.new = st]
           IN /\ copy \in WorkerType /\ copy.new = st /\ copy.dev = job.dev
              /\ copy.kind = job.kind /\ copy.dstatus = job.dstatus
              /\ copy.revision = job.revision /\ copy.sstatus = job.sstatus
BY DEF WorkerType

\* GetDeviceStatus
LEMMA AggregateServes ==
    ASSUME NEW w \in Workers, NEW job \in WorkerType, NEW next \in WorkerType,
           Serving(w, job, next), Aggregate(w)
    PROVE  Situation(next)'
<1>1. TypeOK /\ job = workers[w] /\ job.pc = "aggregate" /\ ReadOnly
  BY DEF Serving, Aggregate, At
<1>2. World /\ Others(job) /\ BeforeAggregate(job)
  BY <1>1, Around DEF Serving, Here
<1>3. Changed(job) /\ CacheFine(job.dev) /\ Stored(job.dev) /\ job.dev \in DeviceIds
  BY <1>2 DEF BeforeAggregate, Changed, Stored
<1>4. ~Broken(job.dev)
  BY <1>3, WholeIsNotBroken DEF Changed
<1>5. Aggregated(job.dev) = Heaviest(Marks(job.dev)) /\ Aggregated(job.dev) \in DeviceStatuses
  BY <1>1, AggregatedType DEF Aggregated, Marks
<1>6. Marks(job.dev) \in SUBSET DeviceStatuses
  BY <1>1, MarksAre DEF MarkFacts
<1>7. PICK copy \in WorkerType :
        /\ copy = [job EXCEPT !.new = Aggregated(job.dev)]
        /\ copy.new = Heaviest(Marks(job.dev)) /\ copy.dev = job.dev /\ copy.kind = job.kind
        /\ copy.dstatus = job.dstatus /\ copy.revision = job.revision
        /\ copy.sstatus = job.sstatus
  BY <1>5, CopyOfStatus
<1>8. next = IF copy.kind # "delete_set" THEN BeginDeviceUpdate(copy)
             ELSE IF copy.sstatus = "preauthorized" /\ copy.new = "noauth"
             THEN [copy EXCEPT !.pc = "submit_gone"]
             ELSE [copy EXCEPT !.pc = "deletion_get_device"]
  BY <1>1, <1>4, <1>7, NextIs DEF Aggregate
<1>9. Changed(copy) /\ Others(copy)
  BY <1>2, <1>3, <1>7 DEF Changed, Others
<1>10. Heaviest(Marks(job.dev)) = "accepted" <=> "accepted" \in Marks(job.dev)
  BY <1>6, HeaviestTells
<1>11. CASE copy.kind # "delete_set"
  <2>1. DeviceAtHand(copy)
    BY <1>2, <1>7, <1>11 DEF BeforeAggregate, DeviceAtHand
  <2>2. copy.new = "accepted" => copy.dstatus = "accepted"
    BY <1>3, <1>7, <1>10, <2>1 DEF Changed, DeviceAtHand
  <2> QED BY <1>1, <1>2, <1>3, <1>7, <1>8, <1>9, <1>11, <2>1, <2>2, AllFits, Read
          DEF Fitting, FitsDeviceUpdate, Changed
<1>12. CASE copy.kind = "delete_set" /\ next = [copy EXCEPT !.pc = "submit_gone"]
            /\ copy.new = "noauth"
  <2>1. Goto(next, copy, "submit_gone")
    BY <1>12, GotoFields
  <2>2. Marks(job.dev) \subseteq {"noauth"}
    BY <1>6, <1>7, <1>12, HeaviestTells
  <2>3. SetsOf(job.dev) = {} /\ Marks(job.dev) = {}
    BY <1>1, <2>2, MarksAre DEF MarkFacts
  <2>4. Uncached(job.dev)
    BY <1>3, <2>3 DEF CacheFine
  <2>5. Here(next) /\ Loose(next)
    BY <1>7, <2>1, <2>3, <2>4 DEF Here, Loose, Goto
  <2>6. Others(next) /\ next.dev \in DeviceIds
    BY <1>3, <1>7, <1>9, <2>1 DEF Others, Goto
  <2> QED BY <1>1, <1>2, <2>5, <2>6, AllFits, Read DEF Fitting, FitsLoose
<1>13. CASE copy.kind = "delete_set" /\ next = [copy EXCEPT !.pc = "deletion_get_device"]
  <2>1. Goto(next, copy, "deletion_get_device")
    BY <1>13, GotoFields
  <2>2. Changed(next) /\ CacheFine(next.dev) /\ next.new = Heaviest(Marks(next.dev))
    BY <1>3, <1>7, <1>9, <2>1 DEF Changed, Goto
  <2>3. Here(next) /\ Loose(next)
    BY <2>1, <2>2 DEF Here, Loose, Goto
  <2>4. Others(next) /\ next.dev \in DeviceIds
    BY <1>3, <1>7, <1>9, <2>1 DEF Others, Goto
  <2> QED BY <1>1, <1>2, <2>3, <2>4, AllFits, Read DEF Fitting, FitsLoose
<1> QED BY <1>8, <1>11, <1>12, <1>13

\* A request with what it found in the cache, or with what it is to do of the device.
LEMMA CopyOfToken ==
    ASSUME NEW job \in WorkerType, NEW token \in CacheType
    PROVE  LET copy == [job EXCEPT !.cached = token]
           IN /\ copy \in WorkerType /\ copy.cached = token
              /\ copy.dev = job.dev /\ copy.set = job.set /\ copy.kind = job.kind
BY DEF WorkerType

\* What is known of a request once it is decided whether the device changes.
LEMMA CopyOfChanges ==
    ASSUME NEW job \in WorkerType, NEW changes \in BOOLEAN
    PROVE  LET copy == [job EXCEPT !.changes = changes]
           IN /\ copy \in WorkerType /\ copy.changes = changes /\ copy.dev = job.dev
              /\ copy.kind = job.kind /\ copy.new = job.new /\ copy.set = job.set
              /\ copy.sstatus = job.sstatus /\ copy.dstatus = job.dstatus
              /\ copy.revision = job.revision
BY DEF WorkerType

\* Throttle
LEMMA ThrottleServes ==
    ASSUME NEW w \in Workers, NEW job \in WorkerType, NEW next \in WorkerType,
           Serving(w, job, next), Throttle(w)
    PROVE  Situation(next)'
<1>1. TypeOK /\ job = workers[w] /\ job.pc = "throttle" /\ ReadOnly
  BY DEF Serving, Throttle, At
<1>2. World /\ AllProper /\ Belongs(job.set, job.dev)
  BY <1>1, Around DEF Serving, Loose, Here
<1>3. job.set \in SetIds /\ job.dev \in DeviceIds /\ job.kind = "verify"
  BY <1>1 DEF Serving, Good, KindOK, Allowed, Verifies
<1>4. PICK token \in CheckToken(job) :
        LET after == [job EXCEPT !.cached = token]
        IN \/ after.cached = after.set /\ Continue(w, [after EXCEPT !.pc = "check_in"])
           \/ after.cached # after.set /\ Continue(w, [after EXCEPT !.pc = "get_token"])
           \/ after.cached # after.set /\ Continue(w, [after EXCEPT !.pc = "delete_token"])
  BY <1>1 DEF Throttle
<1>c. token \in CacheType
  BY <1>3, <1>4 DEF CheckToken, CacheType
<1>5. PICK copy \in WorkerType :
        /\ copy = [job EXCEPT !.cached = token] /\ copy.cached = token
        /\ copy.dev = job.dev /\ copy.set = job.set /\ copy.kind = job.kind
  BY <1>c, CopyOfToken
<1>6. \/ copy.cached = copy.set /\ next = [copy EXCEPT !.pc = "check_in"]
      \/ copy.cached # copy.set /\ next = [copy EXCEPT !.pc = "get_token"]
      \/ copy.cached # copy.set /\ next = [copy EXCEPT !.pc = "delete_token"]
  BY <1>4, <1>5, NextIs
<1>8. CASE copy.cached = copy.set /\ next = [copy EXCEPT !.pc = "check_in"]
  <2>1. Goto(next, copy, "check_in")
    BY <1>8, GotoFields
  <2>2. Here(next)
    BY <1>8, <2>1 DEF Here, Goto
  <2> QED BY <1>1, <1>2, <2>2, AllFits, Read DEF Fitting, FitsHere
<1>9. CASE copy.cached # copy.set /\ next = [copy EXCEPT !.pc = "get_token"]
  <2>1. Goto(next, copy, "get_token")
    BY <1>9, GotoFields
  <2>2. Here(next)
    BY <1>2, <1>5, <2>1 DEF Here, Goto
  <2> QED BY <1>1, <1>2, <2>2, AllFits, Read DEF Fitting, FitsHere
<1>10. CASE copy.cached # copy.set /\ next = [copy EXCEPT !.pc = "delete_token"]
  <2>1. Goto(next, copy, "delete_token")
    BY <1>10, GotoFields
  <2>2. Here(next)
    BY <1>2, <1>5, <2>1 DEF Here, Goto
  <2> QED BY <1>1, <1>2, <2>2, AllFits, Read DEF Fitting, FitsHere
<1> QED BY <1>6, <1>8, <1>9, <1>10

\* A request that ends where it only read.
LEMMA Ends ==
    ASSUME NEW next \in WorkerType, next = Idle, World, AllProper, ReadOnly
    PROVE  Situation(next)'
<1>1. next.pc = "idle"
  BY DEF Idle
<1> QED BY <1>1, AllFits, Read DEF Fitting, FitsPlain, PlainPCs

\* GetToken
LEMMA GetTokenServes ==
    ASSUME NEW w \in Workers, NEW job \in WorkerType, NEW next \in WorkerType,
           Serving(w, job, next), GetToken(w)
    PROVE  Situation(next)'
<1>1. /\ job = workers[w] /\ job.pc = "get_token" /\ ReadOnly
      /\ Continue(w, IF job.set \in tokens THEN [job EXCEPT !.pc = "get_set"] ELSE Idle)
  BY DEF Serving, GetToken, At
<1>2. World /\ AllProper /\ Belongs(job.set, job.dev)
  BY <1>1, Around DEF Serving, Loose, Here
<1>3. next = IF job.set \in tokens THEN [job EXCEPT !.pc = "get_set"] ELSE Idle
  BY <1>1, NextIs
<1>4. CASE job.set \in tokens /\ next = [job EXCEPT !.pc = "get_set"]
  <2>1. Goto(next, job, "get_set")
    BY <1>4, GotoFields
  <2>2. Here(next)
    BY <1>2, <1>4, <2>1 DEF Here, Goto
  <2> QED BY <1>1, <1>2, <2>2, AllFits, Read DEF Fitting, FitsHere
<1> QED BY <1>1, <1>2, <1>3, <1>4, Ends

\* GetAuthSetById of VerifyToken.
LEMMA GetSetServes ==
    ASSUME NEW w \in Workers, NEW job \in WorkerType, NEW next \in WorkerType,
           Serving(w, job, next), GetSet(w)
    PROVE  Situation(next)'
<1>1. /\ TypeOK /\ job = workers[w] /\ job.pc = "get_set" /\ ReadOnly
      /\ Continue(w, IF job.set \in StoredSets /\ authSets[job.set].status = "accepted"
                     THEN [WithSet(job, job.set) EXCEPT !.pc = "get_device"] ELSE Idle)
  BY DEF Serving, GetSet, At
<1>2. World /\ AllProper /\ Belongs(job.set, job.dev) /\ job.set \in tokens
  BY <1>1, Around DEF Serving, Loose, Here
<1>3. next = IF job.set \in StoredSets /\ authSets[job.set].status = "accepted"
             THEN [WithSet(job, job.set) EXCEPT !.pc = "get_device"] ELSE Idle
  BY <1>1, NextIs
<1>4. CASE job.set \in StoredSets /\ authSets[job.set].status = "accepted"
  <2>1. PICK copy \in WorkerType :
          /\ copy = WithSet(job, job.set) /\ copy.dev = job.dev /\ copy.set = job.set
          /\ copy.sstatus = authSets[job.set].status
    BY <1>1, <1>4, CopyOfSet
  <2>2. Goto(next, copy, "get_device")
    BY <1>3, <1>4, <2>1, GotoFields
  <2>3. Verified(next)
    BY <1>2, <1>4, <2>1, <2>2 DEF Verified, SetAtHand, Goto, Belongs
  <2>4. Here(next)
    BY <2>2, <2>3 DEF Here, Goto
  <2> QED BY <1>1, <1>2, <2>4, AllFits, Read DEF Fitting, FitsHere
<1> QED BY <1>1, <1>2, <1>3, <1>4, Ends

\* GetDeviceById of VerifyToken.
LEMMA GetDeviceServes ==
    ASSUME NEW w \in Workers, NEW job \in WorkerType, NEW next \in WorkerType,
           Serving(w, job, next), GetDevice(w)
    PROVE  Situation(next)'
<1>1. /\ TypeOK /\ job = workers[w] /\ job.pc = "get_device" /\ ReadOnly
      /\ Continue(w, IF ~Stored(job.dev) THEN [job EXCEPT !.pc = "delete_set"]
                     ELSE IF devices[job.dev].decommissioning THEN Idle
                     ELSE [job EXCEPT !.pc = "check_in"])
  BY DEF Serving, GetDevice, At
<1>2. World /\ AllProper /\ Verified(job)
  BY <1>1, Around DEF Serving, Loose, Here
<1>3. Stored(job.dev)
  BY <1>2 DEF World, SetsHaveDevices, Verified, SetAtHand
<1>4. next = IF devices[job.dev].decommissioning THEN Idle ELSE [job EXCEPT !.pc = "check_in"]
  BY <1>1, <1>3, NextIs
<1>5. CASE ~devices[job.dev].decommissioning
  <2>1. Goto(next, job, "check_in")
    BY <1>4, <1>5, GotoFields
  <2>2. ToBeCached(next)
    BY <1>2, <1>3, <1>5, <2>1 DEF ToBeCached, Verified, SetAtHand, InService, Goto
  <2>3. Here(next)
    BY <2>1, <2>2 DEF Here, Goto
  <2> QED BY <1>1, <1>2, <2>3, AllFits, Read DEF Fitting, FitsHere
<1> QED BY <1>1, <1>2, <1>4, <1>5, Ends

\* GetToken of RevokeToken.
LEMMA RevokeGetTokenServes ==
    ASSUME NEW w \in Workers, NEW job \in WorkerType, NEW next \in WorkerType,
           Serving(w, job, next), RevokeGetToken(w)
    PROVE  Situation(next)'
<1>1. /\ job = workers[w] /\ job.pc = "revoke_get_token" /\ ReadOnly
      /\ Continue(w, IF job.set \in tokens THEN Invalidating(job) ELSE Idle)
  BY DEF Serving, RevokeGetToken, At
<1>2. World /\ AllProper /\ Belongs(job.set, job.dev) /\ job.kind = "revoke"
  BY <1>1, Around DEF Serving, Loose, Here
<1>3. job.dev \in DeviceIds
  BY <1>2 DEF Serving, Belongs, SetsOK
<1>4. next = IF job.set \in tokens THEN Invalidating(job) ELSE Idle
  BY <1>1, NextIs
<1>5. ToInvalidate(job)
  BY <1>2, <1>3 DEF ToInvalidate, AllProper, Others
<1>6. CASE job.set \in tokens
  BY <1>1, <1>2, <1>4, <1>5, <1>6, AllFits, Read DEF Fitting, FitsInvalidating
<1> QED BY <1>1, <1>2, <1>4, <1>6, Ends

\* GetAuthSetById of updateAuthSetStatus.
LEMMA StatusGetSetServes ==
    ASSUME NEW w \in Workers, NEW job \in WorkerType, NEW next \in WorkerType,
           Serving(w, job, next), StatusGetSet(w)
    PROVE  Situation(next)'
<1> DEFINE valid == /\ job.set \in StoredSets /\ authSets[job.set].status # job.new
                    /\ ValidTransition(authSets[job.set].status, job.new)
<1>1. /\ TypeOK /\ job = workers[w] /\ job.pc = "status_get_set" /\ ReadOnly
      /\ Continue(w, IF valid THEN [WithSet(job, job.set) EXCEPT !.pc = "status_get_device"]
                     ELSE Idle)
  BY DEF Serving, StatusGetSet, At
<1>2. /\ World /\ AllProper /\ Belongs(job.set, job.dev)
      /\ job.kind = "set_status" /\ job.new \in Choices
  BY <1>1, Around DEF Serving, Loose, Here
<1>3. next = IF valid THEN [WithSet(job, job.set) EXCEPT !.pc = "status_get_device"] ELSE Idle
  BY <1>1, NextIs
<1>4. CASE valid
  <2>1. PICK copy \in WorkerType :
          /\ copy = WithSet(job, job.set) /\ copy.dev = job.dev /\ copy.set = job.set
          /\ copy.sstatus = authSets[job.set].status /\ copy.kind = job.kind
          /\ copy.new = job.new
    BY <1>1, <1>4, CopyOfSet
  <2>2. Goto(next, copy, "status_get_device")
    BY <1>3, <1>4, <2>1, GotoFields
  <2>3. SetAtHand(next) /\ next.sstatus # next.new
    BY <1>2, <1>4, <2>1, <2>2 DEF SetAtHand, Goto, Belongs
  <2>4. Here(next)
    BY <1>2, <2>1, <2>2, <2>3 DEF Here, Goto
  <2> QED BY <1>1, <1>2, <2>4, AllFits, Read DEF Fitting, FitsHere
<1> QED BY <1>1, <1>2, <1>3, <1>4, Ends

\* GetDeviceById of updateAuthSetStatus.
LEMMA StatusGetDeviceServes ==
    ASSUME NEW w \in Workers, NEW job \in WorkerType, NEW next \in WorkerType,
           Serving(w, job, next), StatusGetDevice(w)
    PROVE  Situation(next)'
<1>1. TypeOK /\ job = workers[w] /\ job.pc = "status_get_device" /\ ReadOnly
  BY DEF Serving, StatusGetDevice, At
<1>2. /\ World /\ AllProper /\ SetAtHand(job) /\ job.sstatus # job.new
      /\ job.kind = "set_status" /\ job.new \in Choices
  BY <1>1, Around DEF Serving, Loose, Here
<1>3. Stored(job.dev)
  BY <1>2 DEF World, SetsHaveDevices, SetAtHand
<1>4. PICK copy \in WorkerType :
        /\ copy = WithDevice(job, job.dev) /\ DeviceAtHand(copy) /\ copy.dev = job.dev
        /\ copy.kind = job.kind /\ copy.new = job.new /\ copy.set = job.set
        /\ copy.sstatus = job.sstatus
  BY <1>1, <1>3, CopyOfDevice
<1>5. MayChange(copy) \in BOOLEAN
  BY DEF MayChange
<1>6. PICK after \in WorkerType :
        /\ after = [copy EXCEPT !.changes = MayChange(copy)]
        /\ after.changes = MayChange(copy) /\ after.dev = copy.dev /\ after.kind = copy.kind
        /\ after.new = copy.new /\ after.set = copy.set /\ after.sstatus = copy.sstatus
        /\ after.dstatus = copy.dstatus /\ after.revision = copy.revision
  BY <1>5, CopyOfChanges
<1>7. next = IF after.new = "accepted" THEN Admit(after) ELSE BeginSetUpdate(after)
  BY <1>1, <1>3, <1>4, <1>6, NextIs DEF StatusGetDevice
<1>8. Decided(after)
  BY <1>2, <1>4, <1>6 DEF Decided, SetAtHand, DeviceAtHand, MayChange
<1>9. CASE after.new = "accepted"
  BY <1>1, <1>2, <1>7, <1>8, <1>9, AllFits, Read DEF Fitting, FitsAdmit
<1>10. CASE after.new # "accepted"
  BY <1>1, <1>2, <1>4, <1>6, <1>7, <1>8, <1>10, AllFits, Read DEF Fitting, FitsSetUpdate
<1> QED BY <1>9, <1>10

\* GetAuthSetById of DeleteAuthSet.
LEMMA DeletionGetSetServes ==
    ASSUME NEW w \in Workers, NEW job \in WorkerType, NEW next \in WorkerType,
           Serving(w, job, next), DeletionGetSet(w)
    PROVE  Situation(next)'
<1>1. /\ TypeOK /\ job = workers[w] /\ job.pc = "deletion_get_set" /\ ReadOnly
      /\ Continue(w, IF job.set \in StoredSets
                     THEN [WithSet(job, job.set) EXCEPT !.pc = "delete_set"] ELSE Idle)
  BY DEF Serving, DeletionGetSet, At
<1>2. World /\ AllProper /\ Belongs(job.set, job.dev) /\ job.kind = "delete_set"
  BY <1>1, Around DEF Serving, Loose, Here
<1>3. next = IF job.set \in StoredSets
             THEN [WithSet(job, job.set) EXCEPT !.pc = "delete_set"] ELSE Idle
  BY <1>1, NextIs
<1>4. CASE job.set \in StoredSets
  <2>1. PICK copy \in WorkerType :
          /\ copy = WithSet(job, job.set) /\ copy.dev = job.dev /\ copy.set = job.set
          /\ copy.sstatus = authSets[job.set].status /\ copy.kind = job.kind
    BY <1>1, <1>4, CopyOfSet
  <2>2. Goto(next, copy, "delete_set")
    BY <1>3, <1>4, <2>1, GotoFields
  <2>3. SetAtHand(next)
    BY <1>2, <1>4, <2>1, <2>2 DEF SetAtHand, Goto, Belongs
  <2>4. Here(next)
    BY <1>2, <2>1, <2>2, <2>3 DEF Here, Goto
  <2> QED BY <1>1, <1>2, <2>4, AllFits, Read DEF Fitting, FitsHere
<1> QED BY <1>1, <1>2, <1>3, <1>4, Ends

\* GetDeviceById of deleteAuthSet.
LEMMA DeletionGetDeviceServes ==
    ASSUME NEW w \in Workers, NEW job \in WorkerType, NEW next \in WorkerType,
           Serving(w, job, next), DeletionGetDevice(w)
    PROVE  Situation(next)'
<1>1. TypeOK /\ job = workers[w] /\ job.pc = "deletion_get_device" /\ ReadOnly
  BY DEF Serving, DeletionGetDevice, At
<1>2. /\ World /\ Others(job) /\ Changed(job) /\ CacheFine(job.dev)
      /\ job.new = Heaviest(Marks(job.dev))
  BY <1>1, Around DEF Serving, Here
<1>3. Stored(job.dev)
  BY <1>2 DEF Changed
<1>4. PICK copy \in WorkerType :
        /\ copy = WithDevice(job, job.dev) /\ DeviceAtHand(copy) /\ copy.dev = job.dev
        /\ copy.new = job.new
  BY <1>1, <1>3, CopyOfDevice
<1>5. next = BeginDeviceUpdate(copy)
  BY <1>1, <1>3, <1>4, NextIs DEF DeletionGetDevice
<1>6. Heaviest(Marks(job.dev)) = "accepted" <=> "accepted" \in Marks(job.dev)
  <2>1. Marks(job.dev) \in SUBSET DeviceStatuses
    BY <1>1, MarksAre DEF MarkFacts
  <2> QED BY <2>1, HeaviestTells
<1>7. copy.new = "accepted" => copy.dstatus = "accepted"
  BY <1>2, <1>4, <1>6 DEF Changed, DeviceAtHand
<1>8. Others(copy) /\ Whole(copy.dev) /\ CacheFine(copy.dev)
  BY <1>2, <1>4 DEF Others, Changed
<1> QED BY <1>1, <1>2, <1>4, <1>5, <1>7, <1>8, AllFits, Read DEF Fitting, FitsDeviceUpdate

\* StartWorkflow of update_device_status or provision_device.
LEMMA SubmitServes ==
    ASSUME NEW w \in Workers, NEW job \in WorkerType, NEW next \in WorkerType,
           Serving(w, job, next), Submit(w)
    PROVE  Situation(next)'
<1>1. /\ job = workers[w] /\ job.pc = "submit" /\ Continue(w, DeviceDone(job))
      /\ UNCHANGED <<devices, authSets, tokens, cache, decommissions>>
  BY DEF Serving, Submit, At
<1>2. World /\ AllProper
  BY <1>1, Around DEF Serving, Loose
<1>3. next = DeviceDone(job)
  BY <1>1, NextIs
<1> QED BY <1>1, <1>2, <1>3, AllFits, SituationStays DEF Fitting, FitsDone

\* The inventory is told that a device is gone.
LEMMA SubmitGoneServes ==
    ASSUME NEW w \in Workers, NEW job \in WorkerType, NEW next \in WorkerType,
           Serving(w, job, next), SubmitGone(w)
    PROVE  Situation(next)'
<1>1. /\ job = workers[w] /\ job.pc = "submit_gone"
      /\ Continue(w, [job EXCEPT !.pc = "delete_device"])
      /\ UNCHANGED <<devices, authSets, tokens, cache, decommissions>>
  BY DEF Serving, SubmitGone, At
<1>2. World /\ Others(job) /\ SetsOf(job.dev) = {} /\ Uncached(job.dev)
  BY <1>1, Around DEF Serving, Here
<1>3. job.dev \in DeviceIds
  BY <1>1 DEF Serving, Good, Allowed
<1>4. Goto(next, job, "delete_device")
  BY <1>1, NextIs, GotoFields
<1>5. Here(next) /\ Loose(next) /\ Others(next) /\ next.dev \in DeviceIds
  BY <1>2, <1>3, <1>4 DEF Here, Loose, Others, Goto
<1> QED BY <1>1, <1>2, <1>5, AllFits, SituationStays DEF Fitting, FitsLoose

---------------------------------------------------------------------------
(* Steps that write tokens or the cache.                                    *)

\* A step that writes neither devices nor sets.
LEMMA WorldStays ==
    ASSUME UNCHANGED <<devices, authSets, decommissions>>, World PROVE World'
<1>1. DevicesStay /\ SetsStay
  BY DevicesKept, SetsUnchanged
<1> QED BY <1>1 DEF World, DevicesStay, SetsStay, SetsHaveDevices, MarkedAreDeleted

\* A device, whatever becomes of the records of tokens.
LEMMA ProperButTokens ==
    ASSUME UNCHANGED <<devices, authSets, cache>>, NEW d, Proper(d)
    PROVE  Proper(d)'
<1>1. DevicesStay /\ SetsStay
  BY DevicesKept, SetsUnchanged
<1> QED BY <1>1, ProperApart DEF DevicesStay, SetsStay

\* AddToken
LEMMA AddTokenServes ==
    ASSUME NEW w \in Workers, NEW job \in WorkerType, NEW next \in WorkerType,
           Serving(w, job, next), AddToken(w)
    PROVE  Situation(next)'
<1>1. /\ job = workers[w] /\ job.pc = "add_token" /\ tokens' = tokens \union {job.set}
      /\ Continue(w, [job EXCEPT !.pc = "check_in"])
      /\ UNCHANGED <<devices, authSets, cache, events, decommissions>>
  BY DEF Serving, AddToken, At
<1>2. World /\ AllProper /\ job.kind = "auth"
  BY <1>1, Around DEF Serving, Loose, Here
<1>3. World' /\ AllProper'
  BY <1>1, <1>2, WorldStays, ProperButTokens DEF AllProper
<1>4. Goto(next, job, "check_in")
  BY <1>1, NextIs, GotoFields
<1>5. Here(next)'
  BY <1>2, <1>4 DEF Here, Goto
<1> QED BY <1>3, <1>5, AllFitsNext DEF Fitting, FitsHere

\* A request that ends, with everything in order.
LEMMA EndsWell ==
    ASSUME NEW next \in WorkerType, next = Idle, World', AllProper' PROVE Situation(next)'
<1>1. next.pc = "idle"
  BY DEF Idle
<1> QED BY <1>1, AllFitsNext DEF Fitting, FitsPlain, PlainPCs

\* DeleteToken
LEMMA DeleteTokenServes ==
    ASSUME NEW w \in Workers, NEW job \in WorkerType, NEW next \in WorkerType,
           Serving(w, job, next), DeleteToken(w)
    PROVE  Situation(next)'
<1>1. /\ job = workers[w] /\ job.pc = "delete_token" /\ tokens' = tokens \ {job.set}
      /\ Continue(w, Idle) /\ UNCHANGED <<devices, authSets, cache, events, decommissions>>
  BY DEF Serving, DeleteToken, At
<1>2. World /\ AllProper
  BY <1>1, Around DEF Serving, Loose
<1>3. World' /\ AllProper'
  BY <1>1, <1>2, WorldStays, ProperButTokens DEF AllProper
<1> QED BY <1>1, <1>3, NextIs, EndsWell

\* DeleteTokenByDevId
LEMMA DeleteTokensServes ==
    ASSUME NEW w \in Workers, NEW job \in WorkerType, NEW next \in WorkerType,
           Serving(w, job, next), DeleteTokens(w)
    PROVE  Situation(next)'
<1>1. /\ job = workers[w] /\ job.pc = "delete_tokens"
      /\ tokens' = {s \in tokens : authSets[s].dev # job.dev}
      /\ Continue(w, AfterTokens(job))
      /\ UNCHANGED <<devices, authSets, cache, events, decommissions>>
  BY DEF Serving, DeleteTokens, At
<1>2. World /\ Others(job) /\ BeforeDeleteTokens(job) /\ (~Loose(job) => AllProper)
  BY <1>1, Around DEF Serving, Here
<1>3. World' /\ DevicesStay /\ SetsStay
  BY <1>1, <1>2, WorldStays, DevicesKept, SetsUnchanged
<1>4. Others(job)'
  <2> SUFFICES ASSUME NEW d \in DeviceIds, d # job.dev PROVE Proper(d)'
    BY DEF Others
  <2>1. Proper(d)
    BY <1>2 DEF Others
  <2> QED BY <1>1, <2>1, ProperButTokens
<1>5. next = AfterTokens(job)
  BY <1>1, NextIs
<1>6. \A d : Uncached(d)' <=> Uncached(d)
  BY <1>1 DEF Uncached
<1>7. CASE job.kind = "set_status"
  <2>1. Goto(next, job, "update_set")
    BY <1>5, <1>7, GotoFields DEF AfterTokens
  <2>2. AllProper /\ Withdrawn(job) /\ Uncached(job.dev)
    BY <1>1, <1>2, <1>7 DEF Loose, BeforeDeleteTokens
  <2>3. Proper(job.dev)'
    <3>1. job.dev \in DeviceIds
      BY <2>2 DEF Withdrawn, Decided, DeviceAtHand, Stored
    <3>2. Proper(job.dev) /\ ~OwnToken(job.dev)
      BY <2>2, <3>1 DEF AllProper, OwnToken, Uncached, Belongs, Known
    <3> QED BY <1>1, <3>2, ProperButTokens
  <2>4. AllProper'
    BY <1>4, <2>3 DEF Others, AllProper
  <2>5. Decided(job) /\ job.new # "accepted"
    BY <2>2 DEF Withdrawn
  <2>6. DeviceAtHand(next)' /\ SetAtHand(next)'
    BY <1>3, <2>1, <2>5 DEF Decided, DevicesStay, SetsStay, DeviceAtHand, SetAtHand, Goto
  <2>7. Decided(next)'
    BY <1>7, <2>1, <2>5, <2>6 DEF Decided, Goto, MayChange
  <2>8. BeforeUpdateSet(next)'
    BY <1>6, <2>1, <2>2, <2>5, <2>7 DEF BeforeUpdateSet, Goto
  <2>9. Here(next)'
    BY <2>1, <2>8 DEF Here, Goto
  <2> QED BY <1>3, <2>4, <2>9, AllFitsNext DEF Fitting, FitsHere
<1>8. CASE job.kind = "delete_set"
  <2>1. /\ Changed(job) /\ job.dev \in DeviceIds
        /\ Uncached(job.dev) \/ CacheOn
    BY <1>2, <1>8 DEF BeforeDeleteTokens, Changed, Stored
  <2>2. Changed(job)'
    BY <1>1, <1>3, <2>1 DEF Changed, DevicesStay, SetsStay
  <2>3. ToInvalidate(job)'
    BY <1>4, <1>8, <2>1, <2>2 DEF ToInvalidate
  <2>4. next = Invalidating(job)
    BY <1>5, <1>8 DEF AfterTokens
  <2>5. CacheOn \/ Uncached(job.dev)'
    BY <1>6, <2>1
  <2> QED BY <1>3, <2>3, <2>4, <2>5, AllFitsNext DEF Fitting, FitsInvalidating
<1>9. CASE job.kind = "delete_device"
  <2>1. SetsOf(job.dev) = {} /\ Uncached(job.dev)
    BY <1>2, <1>9 DEF BeforeDeleteTokens
  <2>2. Goto(next, job, "delete_device")
    BY <1>5, <1>9, GotoFields DEF AfterTokens
  <2>3. SetsOf(next.dev)' = {} /\ Uncached(next.dev)'
    BY <1>3, <1>6, <2>1, <2>2 DEF SetsStay, Goto
  <2>4. Here(next)' /\ Loose(next)'
    BY <2>2, <2>3 DEF Here, Loose, Goto
  <2>5. CASE job.dev \in DeviceIds
    <3>1. Others(next)' /\ next.dev \in DeviceIds
      BY <1>4, <2>2, <2>5 DEF Others, Goto
    <3> QED BY <1>3, <2>4, <3>1, AllFitsNext DEF Fitting, FitsLoose
  <2>6. CASE job.dev \notin DeviceIds
    <3>1. AllProper'
      BY <1>4, <2>6 DEF Others, AllProper
    <3> QED BY <1>3, <2>4, <3>1, AllFitsNext DEF Fitting, FitsHere
  <2> QED BY <2>5, <2>6
<1>10. CASE job.kind = "delete_tokens"
  <2>1. AllProper /\ "delete_tokens" \in Kinds
    BY <1>1, <1>2, <1>10 DEF Loose, Serving, Good, WorkerType
  <2>2. ASSUME job.dev \in DeviceIds PROVE Proper(job.dev)'
    <3>1. Proper(job.dev)
      BY <2>1, <2>2 DEF AllProper
    <3>2. Settled(job.dev)'
      BY <1>1, <1>3, <3>1 DEF Proper, Settled, DevicesStay, SetsStay
    <3>3. OwnToken(job.dev)' <=> OwnToken(job.dev)
      BY <1>1, <1>3, <2>1 DEF OwnToken, SetsStay
    <3>4. CacheFine(job.dev)'
      BY <1>3, <1>6, <3>1, <3>3 DEF Proper, CacheFine, DevicesStay, SetsStay
    <3> QED BY <3>2, <3>4 DEF Proper
  <2>3. AllProper'
    BY <1>4, <2>2 DEF Others, AllProper
  <2>4. next = Idle
    BY <1>5, <1>10 DEF AfterTokens
  <2> QED BY <1>3, <2>3, <2>4, EndsWell
<1> QED BY <1>2, <1>7, <1>8, <1>9, <1>10 DEF BeforeDeleteTokens

\* A device of which something else is cached.
LEMMA SettledStays ==
    ASSUME UNCHANGED <<devices, authSets>>, NEW d
    PROVE  Settled(d)' <=> Settled(d)
BY DevicesKept, SetsUnchanged DEF DevicesStay, SetsStay, Settled

\* A device whose cached token stays.
LEMMA ProperOfOthers ==
    ASSUME UNCHANGED <<devices, authSets, tokens>>, NEW d, Proper(d), cache'[d] = cache[d]
    PROVE  Proper(d)'
<1>1. DevicesStay /\ SetsStay
  BY DevicesKept, SetsUnchanged
<1> QED BY <1>1, ProperApart DEF DevicesStay, SetsStay

\* cacheSetToken
LEMMA CacheTokenServes ==
    ASSUME NEW w \in Workers, NEW job \in WorkerType, NEW next \in WorkerType,
           Serving(w, job, next), CacheToken(w)
    PROVE  Situation(next)'
<1>1. /\ job = workers[w] /\ job.pc = "cache_token"
      /\ cache' = [cache EXCEPT ![job.dev] = job.set]
      /\ Continue(w, Idle) /\ UNCHANGED <<devices, authSets, tokens, events, decommissions>>
  BY DEF Serving, CacheToken, At
<1>2. World /\ AllProper /\ ToBeCached(job) /\ CacheOn
  BY <1>1, Around DEF Serving, Loose, Here
<1>3. job.dev \in DeviceIds /\ cache \in [DeviceIds -> CacheType]
  BY <1>2 DEF ToBeCached, InService, Stored, Serving, TypeOK
<1>4. cache'[job.dev] = job.set /\ \A d \in DeviceIds : d # job.dev => cache'[d] = cache[d]
  BY <1>1, <1>3
<1>5. DevicesStay /\ SetsStay
  BY <1>1, DevicesKept, SetsUnchanged
<1>6. Proper(job.dev)'
  <2>1. Belongs(job.set, job.dev) /\ job.set \in tokens
    BY <1>2 DEF ToBeCached, Verified, SetAtHand, Belongs, Known, StoredSets
  <2>2. OwnToken(job.dev)'
    BY <1>1, <1>2, <1>4, <1>5, <2>1 DEF OwnToken, SetsStay
  <2>3. "accepted" \in Marks(job.dev)
    BY <1>2, SetsAre DEF SetFacts, ToBeCached, Verified, SetAtHand, StoredSets
  <2>4. CacheFine(job.dev)'
    BY <1>2, <1>5, <2>2, <2>3 DEF CacheFine, ToBeCached, DevicesStay, SetsStay
  <2> QED BY <1>1, <1>2, <1>3, <2>4, SettledStays DEF Proper, AllProper
<1>7. World' /\ AllProper'
  BY <1>1, <1>2, <1>4, <1>6, WorldStays, ProperOfOthers DEF AllProper
<1> QED BY <1>1, <1>7, NextIs, EndsWell

\* DeleteToken of the cache.
LEMMA InvalidateServes ==
    ASSUME NEW w \in Workers, NEW job \in WorkerType, NEW next \in WorkerType,
           Serving(w, job, next), Invalidate(w)
    PROVE  Situation(next)'
<1>1. /\ job = workers[w] /\ job.pc = "invalidate"
      /\ cache' = [cache EXCEPT ![job.dev] = Marker]
      /\ Continue(w, AfterInvalidate(job))
      /\ UNCHANGED <<devices, authSets, tokens, events, decommissions>>
  BY DEF Serving, Invalidate, At
<1>2. World /\ Others(job) /\ BeforeInvalidate(job) /\ (~Loose(job) => AllProper)
  BY <1>1, Around DEF Serving, Here
<1>3. job.dev \in DeviceIds /\ cache \in [DeviceIds -> CacheType]
  BY <1>2 DEF BeforeInvalidate, Serving, TypeOK
<1>4. cache'[job.dev] = Marker /\ \A d \in DeviceIds : d # job.dev => cache'[d] = cache[d]
  BY <1>1, <1>3
<1>5. DevicesStay /\ SetsStay
  BY <1>1, DevicesKept, SetsUnchanged
<1>6. Uncached(job.dev)'
  BY <1>4 DEF Uncached, Marker, SetIds
<1>7. World' /\ Others(job)'
  BY <1>1, <1>2, <1>4, WorldStays, ProperOfOthers DEF Others
<1>8. job.kind # "delete_set" => Proper(job.dev)'
  <2>1. job.kind # "delete_set" => Proper(job.dev)
    BY <1>1, <1>2, <1>3 DEF Loose, AllProper
  <2> QED BY <1>1, <1>6, <2>1, SettledStays DEF Proper, CacheFine
<1>9. job.kind = "set_status" => Withdrawn(job)'
  BY <1>2, <1>5 DEF BeforeInvalidate, Withdrawn, Decided, DevicesStay, SetsStay
<1>10. job.kind = "delete_set" => Changed(job)'
  BY <1>1, <1>2, <1>5 DEF BeforeInvalidate, Changed, DevicesStay, SetsStay
<1>11. job.kind = "revoke" => Belongs(job.set, job.dev)'
  BY <1>2, <1>5 DEF BeforeInvalidate, SetsStay
<1>12. ToInvalidate(job)'
  BY <1>2, <1>3, <1>7, <1>8, <1>9, <1>10, <1>11 DEF ToInvalidate, BeforeInvalidate
<1>13. next = AfterInvalidate(job)
  BY <1>1, NextIs
<1> QED BY <1>6, <1>7, <1>12, <1>13, AllFitsNext DEF Fitting, FitsAfterInvalidate

---------------------------------------------------------------------------
(* Steps that write a device.                                               *)

\* Devices that are there as before, those being decommissioned still so.
DevicesRemain ==
    \A d \in DeviceIds :
        /\ devices'[d].stage = devices[d].stage
        /\ devices'[d].identity = devices[d].identity
        /\ devices[d].decommissioning => devices'[d].decommissioning

\* Devices that are written without being added or deleted.
LEMMA WorldRemains ==
    ASSUME UNCHANGED <<authSets, decommissions>>, World, DevicesRemain, LimitKept', TypeOK
    PROVE  World'
<1>1. \A d : Stored(d)' <=> Stored(d)
  BY DEF DevicesRemain, Stored
<1>2. SetsStay
  BY SetsUnchanged
<1>3. OneDevice'
  BY <1>1 DEF World, OneDevice, DevicesRemain
<1>4. SetsHaveDevices'
  BY <1>1, <1>2 DEF World, SetsHaveDevices, DevicesRemain, SetsStay, Stored
<1>5. MarkedAreDeleted'
  BY <1>1 DEF World, MarkedAreDeleted, DevicesRemain, TypeOK
<1> QED BY <1>3, <1>4, <1>5 DEF World

\* A device that is read as before.
LEMMA ProperRemains ==
    ASSUME UNCHANGED <<authSets, tokens, cache>>, NEW d \in DeviceIds, Proper(d),
           devices'[d].stage = devices[d].stage, devices'[d].status = devices[d].status,
           devices'[d].decommissioning = devices[d].decommissioning
    PROVE  Proper(d)'
<1>1. SetsStay
  BY SetsUnchanged
<1>2. Stored(d)' <=> Stored(d)
  BY DEF Stored
<1> QED BY <1>1, <1>2, ProperApart DEF SetsStay

\* The limit, when no other device becomes accepted.
LEMMA LimitRemains ==
    ASSUME LimitKept,
           \A d \in DeviceIds : Stored(d)' /\ devices'[d].status = "accepted" =>
                                Stored(d) /\ devices[d].status = "accepted"
    PROVE  LimitKept'
<1>1. IsFiniteSet(AcceptedDevices) /\ AcceptedDevices' \subseteq AcceptedDevices
  <2>1. IsFiniteSet(DeviceIds)
    BY FS_Interval, SizesAssumption DEF DeviceIds
  <2>2. AcceptedDevices \subseteq DeviceIds
    BY DEF AcceptedDevices
  <2>3. IsFiniteSet(AcceptedDevices)
    BY <2>1, <2>2, FS_Subset
  <2> QED BY <2>3 DEF AcceptedDevices
<1>2. /\ IsFiniteSet(AcceptedDevices')
      /\ Cardinality(AcceptedDevices') <= Cardinality(AcceptedDevices)
  BY <1>1, FS_Subset
<1>3. Cardinality(AcceptedDevices') \in Nat /\ Cardinality(AcceptedDevices) \in Nat
  BY <1>1, <1>2, FS_CardinalityType
<1> QED BY <1>2, <1>3, BoundsAssumption DEF LimitKept

\* And when one does that may.
LEMMA LimitReached ==
    ASSUME Admits, NEW d \in DeviceIds,
           \A e \in DeviceIds : e # d /\ Stored(e)' /\ devices'[e].status = "accepted" =>
                                Stored(e) /\ devices[e].status = "accepted"
    PROVE  LimitKept'
<1>1. IsFiniteSet(AcceptedDevices) /\ AcceptedDevices' \subseteq AcceptedDevices \union {d}
  <2>1. IsFiniteSet(DeviceIds)
    BY FS_Interval, SizesAssumption DEF DeviceIds
  <2>2. AcceptedDevices \subseteq DeviceIds
    BY DEF AcceptedDevices
  <2>3. IsFiniteSet(AcceptedDevices)
    BY <2>1, <2>2, FS_Subset
  <2> QED BY <2>3 DEF AcceptedDevices
<1>2. /\ IsFiniteSet(AcceptedDevices \union {d}) /\ Cardinality(AcceptedDevices) \in Nat
      /\ Cardinality(AcceptedDevices \union {d}) <= Cardinality(AcceptedDevices) + 1
  <2>1. Cardinality(AcceptedDevices) \in Nat
    BY <1>1, FS_CardinalityType
  <2>2. /\ IsFiniteSet(AcceptedDevices \union {d})
        /\ Cardinality(AcceptedDevices \union {d}) =
             IF d \in AcceptedDevices THEN Cardinality(AcceptedDevices)
             ELSE Cardinality(AcceptedDevices) + 1
    BY <1>1, FS_AddElement
  <2> QED BY <2>1, <2>2
<1>3. /\ IsFiniteSet(AcceptedDevices')
      /\ Cardinality(AcceptedDevices') <= Cardinality(AcceptedDevices \union {d})
  BY <1>1, <1>2, FS_Subset
<1>4. /\ Cardinality(AcceptedDevices') \in Nat
      /\ Cardinality(AcceptedDevices \union {d}) \in Nat
  BY <1>2, <1>3, FS_CardinalityType
<1>5. Cardinality(AcceptedDevices) + 1 <= DeviceLimit
  BY DEF Admits, AcceptedDevices
<1> QED BY <1>2, <1>3, <1>4, <1>5, BoundsAssumption DEF LimitKept

\* updateDeviceStatus
LEMMA UpdateDeviceServes ==
    ASSUME NEW w \in Workers, NEW job \in WorkerType, NEW next \in WorkerType,
           Serving(w, job, next), UpdateDeviceWithRevision(w)
    PROVE  Situation(next)'
<1>1. /\ TypeOK /\ job = workers[w] /\ job.pc = "update_device"
      /\ UNCHANGED <<authSets, tokens, cache, events, decommissions>>
  BY DEF Serving, UpdateDeviceWithRevision, At
<1>2. World /\ Others(job) /\ BeforeUpdateDevice(job)
  BY <1>1, Around DEF Serving, Here
<1>3. /\ Stored(job.dev) /\ devices[job.dev].revision = job.revision
      /\ job.dev \in DeviceIds /\ devices[job.dev] \in DeviceType
  BY <1>1, <1>2 DEF BeforeUpdateDevice, DeviceAtHand, Stored, TypeOK
<1>4. /\ devices' = Revised(job.dev, [devices[job.dev] EXCEPT !.status = job.new])
      /\ Continue(w, [job EXCEPT !.pc = "submit", !.dstatus = job.new,
                                 !.revision = job.revision + 1])
  BY <1>1, <1>3 DEF UpdateDeviceWithRevision
<1>5. /\ devices'[job.dev].stage = devices[job.dev].stage
      /\ devices'[job.dev].identity = devices[job.dev].identity
      /\ devices'[job.dev].decommissioning = devices[job.dev].decommissioning
      /\ devices'[job.dev].status = job.new
      /\ \A d \in DeviceIds : d # job.dev => devices'[d] = devices[d]
  BY <1>1, <1>3, <1>4 DEF Revised, DeviceType, TypeOK
<1>6. \A d \in DeviceIds : Stored(d)' <=> Stored(d)
  BY <1>5 DEF Stored
<1>7. LimitKept'
  <2>1. CASE job.new = "accepted"
    BY <1>2, <1>3, <1>5, <1>6, <2>1, LimitReached DEF BeforeUpdateDevice
  <2>2. CASE job.new # "accepted"
    BY <1>2, <1>5, <1>6, <2>2, LimitRemains DEF World
  <2> QED BY <2>1, <2>2
<1>8. World'
  BY <1>1, <1>2, <1>5, <1>7, WorldRemains DEF DevicesRemain
<1>9. SetsStay
  BY <1>1, SetsUnchanged
<1>10. Proper(job.dev)'
  <2>1. Settled(job.dev)'
    BY <1>2, <1>5, <1>9 DEF Settled, BeforeUpdateDevice, SetsStay
  <2>2. InService(job.dev)' <=> InService(job.dev)
    BY <1>3, <1>5, <1>6 DEF InService
  <2>3. CacheFine(job.dev)'
    BY <1>1, <1>2, <1>9, <2>2 DEF BeforeUpdateDevice, CacheFine, Uncached, OwnToken, SetsStay
  <2> QED BY <2>1, <2>3 DEF Proper
<1>11. AllProper'
  BY <1>1, <1>2, <1>5, <1>10, ProperRemains DEF Others, AllProper
<1>12. next = [job EXCEPT !.pc = "submit", !.dstatus = job.new, !.revision = job.revision + 1]
  BY <1>4, NextIs
<1>13. next.pc = "submit"
  BY <1>12 DEF WorkerType
<1> QED BY <1>8, <1>11, <1>13, AllFitsNext DEF Fitting, FitsPlain, PlainPCs

\* A device that is counted a revision, or is not touched.
Counted ==
    \A d \in DeviceIds :
        /\ devices'[d].stage = devices[d].stage /\ devices'[d].identity = devices[d].identity
        /\ devices'[d].status = devices[d].status
        /\ devices'[d].decommissioning = devices[d].decommissioning

\* A device whose revision alone is counted.
LEMMA CountedOnly ==
    ASSUME UNCHANGED <<authSets, tokens, cache, decommissions>>, TypeOK, Counted,
           World, AllProper
    PROVE  World' /\ AllProper' /\ \A d : InService(d)' <=> InService(d)
<1>1. \A d : (Stored(d)' <=> Stored(d)) /\ (InService(d)' <=> InService(d))
  BY DEF Counted, Stored, InService
<1>2. LimitKept'
  BY <1>1, LimitRemains DEF Counted, World
<1>3. World'
  BY <1>2, WorldRemains DEF Counted, DevicesRemain
<1> QED BY <1>1, <1>3, ProperRemains DEF Counted, AllProper

\* A check-in, or the like, counts the revision alone.
LEMMA RevisedIsCounted ==
    ASSUME TypeOK, NEW d, Stored(d), devices' = Revised(d, devices[d]) PROVE Counted
<1>1. d \in DeviceIds /\ devices[d] \in DeviceType /\ devices \in [DeviceIds -> DeviceType]
  BY DEF Stored, TypeOK
<1> QED BY <1>1 DEF Revised, Counted, DeviceType

\* UpdateDevice by the job provision_device.
LEMMA PatchServes ==
    ASSUME NEW w \in Workers, NEW job \in WorkerType, NEW next \in WorkerType,
           Serving(w, job, next), Patch(w)
    PROVE  Situation(next)'
<1>1. /\ TypeOK /\ job = workers[w] /\ job.pc = "patch" /\ Continue(w, Idle)
      /\ UNCHANGED <<authSets, tokens, cache, events, decommissions>>
      /\ \/ Stored(job.dev) /\ devices' = Revised(job.dev, devices[job.dev])
         \/ devices' = devices
  BY DEF Serving, Patch, At
<1>2. World /\ AllProper
  BY <1>1, Around DEF Serving, Loose
<1>3. Counted
  BY <1>1, RevisedIsCounted DEF Counted
<1> QED BY <1>1, <1>2, <1>3, CountedOnly, NextIs, EndsWell

\* updateCheckInTime
LEMMA CheckInServes ==
    ASSUME NEW w \in Workers, NEW job \in WorkerType, NEW next \in WorkerType,
           Serving(w, job, next), CheckIn(w)
    PROVE  Situation(next)'
<1>1. /\ TypeOK /\ job = workers[w] /\ job.pc = "check_in"
      /\ CountCheckIn(authSets[job.set].dev)
      /\ Continue(w, IF job.kind = "verify" /\ CacheOn /\ job.cached # job.set
                     THEN [job EXCEPT !.pc = "cache_token"] ELSE Idle)
      /\ UNCHANGED <<authSets, tokens, cache, events, decommissions>>
  BY DEF Serving, CheckIn, At
<1>2. /\ World /\ AllProper
      /\ job.kind = "verify" => job.cached = job.set \/ ToBeCached(job)
  BY <1>1, Around DEF Serving, Loose, Here
<1>3. Counted
  <2>1. \/ /\ Stored(authSets[job.set].dev)
           /\ devices' = Revised(authSets[job.set].dev, devices[authSets[job.set].dev])
        \/ devices' = devices
    BY <1>1 DEF CountCheckIn
  <2> QED BY <1>1, <2>1, RevisedIsCounted DEF Counted
<1>4. World' /\ AllProper' /\ \A d : InService(d)' <=> InService(d)
  BY <1>1, <1>2, <1>3, CountedOnly
<1>5. SetsStay
  BY <1>1, SetsUnchanged
<1>6. next = IF job.kind = "verify" /\ CacheOn /\ job.cached # job.set
             THEN [job EXCEPT !.pc = "cache_token"] ELSE Idle
  BY <1>1, NextIs
<1>7. CASE job.kind = "verify" /\ CacheOn /\ job.cached # job.set
  <2>1. Goto(next, job, "cache_token")
    BY <1>6, <1>7, GotoFields
  <2>2. ToBeCached(job)
    BY <1>2, <1>7
  <2>3. ToBeCached(next)'
    BY <1>1, <1>4, <1>5, <2>1, <2>2 DEF ToBeCached, Verified, SetAtHand, SetsStay, Goto
  <2>4. Here(next)'
    BY <1>7, <2>1, <2>3 DEF Here, Goto
  <2> QED BY <1>4, <2>4, AllFitsNext DEF Fitting, FitsHere
<1> QED BY <1>4, <1>6, <1>7, EndsWell

\* DeleteDevice
LEMMA DeleteDeviceServes ==
    ASSUME NEW w \in Workers, NEW job \in WorkerType, NEW next \in WorkerType,
           Serving(w, job, next), DeleteDevice(w)
    PROVE  Situation(next)'
<1>1. /\ TypeOK /\ job = workers[w] /\ job.pc = "delete_device" /\ Continue(w, Idle)
      /\ devices' = IF Stored(job.dev) THEN [devices EXCEPT ![job.dev].stage = "deleted"]
                    ELSE devices
      /\ UNCHANGED <<authSets, tokens, cache, events, decommissions>>
  BY DEF Serving, DeleteDevice, At
<1>2. World /\ Others(job) /\ SetsOf(job.dev) = {} /\ Uncached(job.dev)
  BY <1>1, Around DEF Serving, Here
<1>3. devices \in [DeviceIds -> DeviceType] /\ SetsStay
  BY <1>1, SetsUnchanged DEF TypeOK
<1>4. /\ \A d \in DeviceIds : d # job.dev => devices'[d] = devices[d]
      /\ \A d \in DeviceIds : /\ devices'[d].identity = devices[d].identity
                              /\ devices'[d].status = devices[d].status
                              /\ devices'[d].decommissioning = devices[d].decommissioning
                              /\ devices'[d].stage = "none" <=> devices[d].stage = "none"
      /\ \A d \in DeviceIds : Stored(d)' <=> Stored(d) /\ d # job.dev
  BY <1>1, <1>3 DEF Stored, DeviceType
<1>5. World'
  <2>1. LimitKept'
    BY <1>2, <1>4, LimitRemains DEF World
  <2>2. OneDevice'
    BY <1>2, <1>4 DEF World, OneDevice
  <2>3. SetsHaveDevices'
    <3> SUFFICES ASSUME NEW s \in StoredSets
                 PROVE  /\ Stored(authSets[s].dev)'
                        /\ authSets[s].identity = devices'[authSets[s].dev].identity
      BY <1>1, <1>3 DEF SetsHaveDevices, SetsStay
    <3>1. Stored(authSets[s].dev) /\ authSets[s].dev \in DeviceIds
      BY <1>2 DEF World, SetsHaveDevices, Stored
    <3>2. authSets[s].dev # job.dev
      BY <1>2 DEF SetsOf
    <3> QED BY <1>1, <1>2, <1>4, <3>1, <3>2 DEF World, SetsHaveDevices, Stored
  <2>4. MarkedAreDeleted'
    BY <1>1, <1>2, <1>4 DEF World, MarkedAreDeleted, TypeOK
  <2> QED BY <2>1, <2>2, <2>3, <2>4 DEF World
<1>6. AllProper'
  <2>1. ASSUME job.dev \in DeviceIds PROVE Proper(job.dev)'
    BY <1>1, <1>2, <1>4, <2>1 DEF Proper, Settled, CacheFine, Uncached
  <2>2. ASSUME NEW d \in DeviceIds, d # job.dev PROVE Proper(d)'
    BY <1>1, <1>2, <1>4, <2>2, ProperRemains DEF Others
  <2> QED BY <2>1, <2>2 DEF AllProper
<1> QED BY <1>1, <1>5, <1>6, NextIs, EndsWell

\* DecommissionDevice
LEMMA FlagServes ==
    ASSUME NEW w \in Workers, NEW job \in WorkerType, NEW next \in WorkerType,
           Serving(w, job, next), Flag(w)
    PROVE  Situation(next)'
<1>1. /\ TypeOK /\ job = workers[w] /\ job.pc = "flag"
      /\ devices' = IF Stored(job.dev)
                    THEN Revised(job.dev, [devices[job.dev] EXCEPT !.decommissioning = TRUE])
                    ELSE devices
      /\ Continue(w, IF Stored(job.dev) THEN [job EXCEPT !.pc = "submit_decommission"]
                     ELSE Idle)
      /\ UNCHANGED <<authSets, tokens, cache, events, decommissions>>
  BY DEF Serving, Flag, At
<1>2. World /\ AllProper /\ Uncached(job.dev)
  BY <1>1, Around DEF Serving, Loose, Here
<1>3. CASE ~Stored(job.dev)
  <2>1. World' /\ AllProper'
    BY <1>1, <1>2, <1>3, CountedOnly DEF Counted
  <2>2. next = Idle
    BY <1>1, <1>3, NextIs
  <2> QED BY <2>1, <2>2, EndsWell
<1>4. CASE Stored(job.dev)
  <2>1. /\ devices \in [DeviceIds -> DeviceType] /\ job.dev \in DeviceIds
        /\ devices[job.dev] \in DeviceType /\ SetsStay
    BY <1>1, <1>4, SetsUnchanged DEF TypeOK, Stored
  <2>2. /\ devices'[job.dev].stage = devices[job.dev].stage
        /\ devices'[job.dev].identity = devices[job.dev].identity
        /\ devices'[job.dev].status = devices[job.dev].status
        /\ devices'[job.dev].decommissioning
        /\ \A d \in DeviceIds : d # job.dev => devices'[d] = devices[d]
    BY <1>1, <1>4, <2>1 DEF Revised, DeviceType
  <2>3. \A d \in DeviceIds : Stored(d)' <=> Stored(d)
    BY <2>2 DEF Stored
  <2>4. LimitKept'
    BY <1>2, <2>2, <2>3, LimitRemains DEF World
  <2>5. World'
    BY <1>1, <1>2, <2>2, <2>4, WorldRemains DEF DevicesRemain
  <2>6. Proper(job.dev)'
    BY <1>1, <1>2, <2>1, <2>2, <2>3
       DEF AllProper, Proper, Settled, CacheFine, Uncached, SetsStay
  <2>7. AllProper'
    BY <1>1, <1>2, <2>2, <2>6, ProperRemains DEF AllProper
  <2>8. Goto(next, job, "submit_decommission")
    BY <1>1, <1>4, NextIs, GotoFields
  <2>9. Here(next)'
    BY <1>4, <2>1, <2>2, <2>3, <2>8 DEF Here, Goto
  <2> QED BY <2>5, <2>7, <2>9, AllFitsNext DEF Fitting, FitsHere
<1> QED BY <1>3, <1>4

\* The job decommission_device is submitted.
LEMMA SubmitDecommissionServes ==
    ASSUME NEW w \in Workers, NEW job \in WorkerType, NEW next \in WorkerType,
           Serving(w, job, next), SubmitDecommission(w)
    PROVE  Situation(next)'
<1>1. /\ job = workers[w] /\ job.pc = "submit_decommission" /\ Continue(w, Idle)
      /\ decommissions' = decommissions \union {job.dev}
      /\ UNCHANGED <<devices, authSets, tokens, cache, events>>
  BY DEF Serving, SubmitDecommission, At
<1>2. World /\ AllProper /\ Stored(job.dev) /\ devices[job.dev].decommissioning
  BY <1>1, Around DEF Serving, Loose, Here
<1>3. DevicesStay /\ SetsStay
  BY <1>1, DevicesKept, SetsUnchanged
<1>4. World'
  <2>1. MarkedAreDeleted'
    BY <1>1, <1>2, <1>3 DEF World, MarkedAreDeleted, DevicesStay, Stored
  <2>2. SetsHaveDevices'
    BY <1>1, <1>2, <1>3 DEF World, SetsHaveDevices, DevicesStay, SetsStay
  <2> QED BY <1>2, <1>3, <2>1, <2>2 DEF World, DevicesStay
<1>5. AllProper'
  BY <1>1, <1>2, ProperButTokens DEF AllProper
<1> QED BY <1>1, <1>4, <1>5, NextIs, EndsWell

\* A new device has no sets, nothing is cached of it, and it is not accepted.
LEMMA DeviceAdded ==
    ASSUME TypeOK, World, AllProper, NEW d \in NewDevices,
           NEW identity \in Identities \union {NoIdentity},
           DeviceWith(identity) = {}, NEW status \in {"noauth", "preauthorized"},
           devices' = [devices EXCEPT ![d] = NewDevice(identity, status)],
           UNCHANGED <<authSets, tokens, cache, decommissions>>
    PROVE  /\ World' /\ SetsOf(d)' = {} /\ Uncached(d)'
           /\ Stored(d)' /\ devices'[d].identity = identity /\ devices'[d].status = status
           /\ \A e \in DeviceIds : e # d => Proper(e)'
<1>1. /\ d \in DeviceIds /\ devices[d].stage = "none" /\ ~Stored(d)
      /\ devices \in [DeviceIds -> DeviceType]
  BY DEF NewDevices, Stored, TypeOK
<1>2. /\ devices'[d] = NewDevice(identity, status)
      /\ \A e \in DeviceIds : e # d => devices'[e] = devices[e]
  BY <1>1
<1>3. /\ devices'[d].stage = "stored" /\ devices'[d].identity = identity
      /\ devices'[d].status = status /\ ~devices'[d].decommissioning
  BY <1>2 DEF NewDevice
<1>4. Stored(d)' /\ \A e \in DeviceIds : e # d => (Stored(e)' <=> Stored(e))
  BY <1>1, <1>2, <1>3 DEF Stored
<1>5. SetsStay
  BY SetsUnchanged
<1>6. SetsOf(d) = {}
  BY <1>1, SetsAre DEF World, SetsHaveDevices, SetFacts, StoredSets
<1>7. Uncached(d)
  BY <1>1 DEF AllProper, Proper, CacheFine, InService
<1>8. SetsOf(d)' = {} /\ Uncached(d)'
  BY <1>5, <1>6, <1>7 DEF SetsStay, Uncached
<1>9. OneDevice'
  <2> SUFFICES ASSUME NEW e \in DeviceIds, NEW f \in DeviceIds, Stored(e)', Stored(f)',
                      devices'[e].identity = devices'[f].identity
               PROVE  e = f
    BY DEF OneDevice
  <2>1. \A x \in DeviceIds : x # d /\ Stored(x)' => devices'[x].identity # identity
    BY <1>2, <1>4 DEF DeviceWith
  <2> QED BY <1>2, <1>3, <1>4, <2>1 DEF World, OneDevice
<1>10. SetsHaveDevices'
  <2> SUFFICES ASSUME NEW s \in StoredSets
               PROVE  /\ Stored(authSets[s].dev)'
                      /\ authSets[s].identity = devices'[authSets[s].dev].identity
    BY <1>5 DEF SetsHaveDevices, SetsStay
  <2>1. /\ Stored(authSets[s].dev) /\ authSets[s].dev \in DeviceIds
        /\ authSets[s].identity = devices[authSets[s].dev].identity
    BY DEF World, SetsHaveDevices, Stored
  <2>2. devices'[authSets[s].dev] = devices[authSets[s].dev]
    BY <1>1, <1>2, <2>1
  <2> QED BY <2>1, <2>2 DEF Stored
<1>11. MarkedAreDeleted'
  BY <1>1, <1>2, <1>4 DEF World, MarkedAreDeleted, TypeOK
<1>12. LimitKept'
  BY <1>2, <1>3, <1>4, LimitRemains DEF World
<1>13. \A e \in DeviceIds : e # d => Proper(e)'
  BY <1>2, ProperRemains DEF AllProper
<1> QED BY <1>3, <1>4, <1>8, <1>9, <1>10, <1>11, <1>12, <1>13 DEF World

\* Whatever device gets the next identifier.
LEMMA NextDevice == NewDevices # {} => Least(NewDevices) \in NewDevices
BY QueryTypes, LeastOf

\* AddDevice
LEMMA AddDeviceServes ==
    ASSUME NEW w \in Workers, NEW job \in WorkerType, NEW next \in WorkerType,
           Serving(w, job, next), AddDevice(w)
    PROVE  Situation(next)'
<1> DEFINE add == DeviceWith(job.identity) = {}
<1>1. /\ TypeOK /\ job = workers[w] /\ job.pc = "add_device"
      /\ devices' = IF add /\ NewDevices # {}
                    THEN [devices EXCEPT ![Least(NewDevices)] = NewDevice(job.identity, "noauth")]
                    ELSE devices
      /\ Continue(w, IF add /\ NewDevices = {} THEN Idle ELSE [job EXCEPT !.pc = "find_device"])
      /\ UNCHANGED <<authSets, tokens, cache, events, decommissions>>
  BY DEF Serving, AddDevice, At
<1>2. World /\ AllProper
  BY <1>1, Around DEF Serving, Loose
<1>3. next.pc \in {"idle", "find_device"}
  <2>1. next = IF add /\ NewDevices = {} THEN Idle ELSE [job EXCEPT !.pc = "find_device"]
    BY <1>1, NextIs
  <2> QED BY <2>1, GotoFields DEF Goto, Idle
<1>4. World' /\ AllProper'
  <2>1. CASE ~(add /\ NewDevices # {})
    BY <1>1, <1>2, <2>1, CountedOnly DEF Counted
  <2>2. CASE add /\ NewDevices # {}
    <3>1. PICK d \in NewDevices : d = Least(NewDevices)
      BY <2>2, NextDevice
    <3>2. job.identity \in Identities \union {NoIdentity}
      BY DEF WorkerType
    <3>a. /\ devices' = [devices EXCEPT ![d] = NewDevice(job.identity, "noauth")]
          /\ UNCHANGED <<authSets, tokens, cache, decommissions>>
      BY <1>1, <2>2, <3>1
    <3>3. /\ World' /\ SetsOf(d)' = {} /\ Uncached(d)' /\ devices'[d].status = "noauth"
          /\ \A e \in DeviceIds : e # d => Proper(e)'
      BY <1>1, <1>2, <2>2, <3>2, <3>a, DeviceAdded
    <3>4. Marks(d)' = {} /\ Whole(d)'
      BY <3>3, SetsAreNext DEF SetFacts, Marks, Whole, Single
    <3>5. Heaviest({}) = "noauth"
      BY DEF Heaviest
    <3>6. Proper(d)'
      BY <3>3, <3>4, <3>5 DEF Proper, Settled, CacheFine
    <3> QED BY <3>3, <3>6 DEF AllProper
  <2> QED BY <2>1, <2>2
<1> QED BY <1>3, <1>4, AllFitsNext DEF Fitting, FitsPlain, PlainPCs

\* AddDevice of PreauthorizeDevice.
LEMMA AddPreauthorizedDeviceServes ==
    ASSUME NEW w \in Workers, NEW job \in WorkerType, NEW next \in WorkerType,
           Serving(w, job, next), AddPreauthorizedDevice(w)
    PROVE  Situation(next)'
<1>1. /\ TypeOK /\ job = workers[w] /\ job.pc = "add_preauthorized_device"
      /\ UNCHANGED <<authSets, tokens, cache, events, decommissions>>
  BY DEF Serving, AddPreauthorizedDevice, At
<1>2. World /\ AllProper /\ job.kind = "preauthorize"
  BY <1>1, Around DEF Serving, Loose, Here
<1>3. CASE devices' = devices /\ Continue(w, Idle)
  <2>1. World' /\ AllProper'
    BY <1>1, <1>2, <1>3, CountedOnly DEF Counted
  <2> QED BY <1>3, <2>1, NextIs, EndsWell
<1>4. ASSUME NEW d, d = Least(NewDevices), DeviceWith(job.identity) = {},
             NewDevices # {}, NewSets # {},
             devices' = [devices EXCEPT ![d] = NewDevice(job.identity, "preauthorized")],
             Continue(w, [job EXCEPT !.pc = "add_preauthorized_set", !.dev = d,
                                     !.dstatus = "preauthorized", !.revision = 1])
      PROVE  Situation(next)'
  <2>1. d \in NewDevices /\ d \in DeviceIds
    BY <1>4, NextDevice DEF NewDevices
  <2>2. job.identity \in Identities \union {NoIdentity}
    BY DEF WorkerType
  <2>3. /\ World' /\ SetsOf(d)' = {} /\ Uncached(d)'
        /\ Stored(d)' /\ devices'[d].identity = job.identity
        /\ devices'[d].status = "preauthorized" /\ \A e \in DeviceIds : e # d => Proper(e)'
    <3>1. UNCHANGED <<authSets, tokens, cache, decommissions>>
      BY <1>1
    <3> QED BY <1>1, <1>2, <1>4, <2>1, <2>2, <3>1, DeviceAdded
  <2>4. /\ next.pc = "add_preauthorized_set" /\ next.dev = d /\ next.kind = job.kind
        /\ next.identity = job.identity
    <3>1. next = [job EXCEPT !.pc = "add_preauthorized_set", !.dev = d,
                             !.dstatus = "preauthorized", !.revision = 1]
      BY <1>4, NextIs
    <3> QED BY <3>1 DEF WorkerType
  <2>5. NewSets' # {}
    BY <1>1, <1>4, SetsUnchanged DEF SetsStay
  <2>6. BeforeAddPreauthorizedSet(next)'
    BY <2>3, <2>4, <2>5 DEF BeforeAddPreauthorizedSet
  <2>7. Here(next)' /\ Loose(next)'
    BY <2>4, <2>6 DEF Here, Loose
  <2>8. Others(next)' /\ next.dev \in DeviceIds
    BY <2>1, <2>3, <2>4 DEF Others
  <2> QED BY <2>3, <2>7, <2>8, AllFitsNext DEF Fitting, FitsLoose
<1>5. \/ devices' = devices /\ Continue(w, Idle)
      \/ /\ DeviceWith(job.identity) = {} /\ NewDevices # {} /\ NewSets # {}
         /\ devices' = [devices EXCEPT ![Least(NewDevices)] =
                                       NewDevice(job.identity, "preauthorized")]
         /\ Continue(w, [job EXCEPT !.pc = "add_preauthorized_set", !.dev = Least(NewDevices),
                                    !.dstatus = "preauthorized", !.revision = 1])
  BY <1>1, <1>2 DEF AddPreauthorizedDevice
<1> QED BY <1>3, <1>4, <1>5

---------------------------------------------------------------------------
(* Steps that write authentication sets.                                    *)

\* Sets that keep their devices, the new ones having theirs.
LEMMA SetsInWorld ==
    ASSUME UNCHANGED <<devices, decommissions>>, World,
           \A s \in StoredSets' :
               \/ /\ s \in StoredSets /\ authSets'[s].dev = authSets[s].dev
                  /\ authSets'[s].identity = authSets[s].identity
               \/ /\ Stored(authSets'[s].dev)
                  /\ authSets'[s].identity = devices[authSets'[s].dev].identity
    PROVE  World'
<1>1. DevicesStay
  BY DevicesKept
<1>2. \A s \in StoredSets' :
        /\ Stored(authSets'[s].dev)
        /\ authSets'[s].identity = devices[authSets'[s].dev].identity
  BY DEF World, SetsHaveDevices
<1>3. SetsHaveDevices'
  BY <1>2 DEF SetsHaveDevices, Stored
<1> QED BY <1>1, <1>3 DEF World, DevicesStay, MarkedAreDeleted, Stored

\* Sets that stay with their devices.
SetsKeepDevices == \A t, d : Belongs(t, d) => Belongs(t, d)'

\* A device with the sets it had.
LEMMA ProperWithSets ==
    ASSUME UNCHANGED <<devices, tokens, cache>>, NEW d, Proper(d), SetsLike(d), SetsKeepDevices
    PROVE  Proper(d)'
<1>1. Stored(d)' <=> Stored(d)
  BY DEF Stored
<1>2. Belongs(cache[d], d) => Belongs(cache[d], d)'
  <2>1. PICK c : c = cache[d]
    OBVIOUS
  <2>2. Belongs(c, d) => Belongs(c, d)'
    BY DEF SetsKeepDevices
  <2> QED BY <2>1, <2>2 DEF Belongs
<1> QED BY <1>1, <1>2, ProperApart

\* One set is written, that stays with its device.
OneSet(s) ==
    /\ s \in SetIds /\ authSets \in [SetIds -> AuthSetType]
    /\ \A t \in SetIds : t # s => authSets'[t] = authSets[t]
    /\ authSets[s].stage # "none" =>
         authSets'[s].stage # "none" /\ authSets'[s].dev = authSets[s].dev

\* A set that is written stays with its device.
LEMMA OneSetBelongs ==
    ASSUME NEW s, OneSet(s), NEW t, NEW d, Belongs(t, d) PROVE Belongs(t, d)'
BY DEF OneSet, Belongs, Known

\* The sets of the other devices are as they were.
LEMMA OneSetOthers ==
    ASSUME NEW s, OneSet(s), NEW d, d # authSets'[s].dev,
           authSets[s].stage = "stored" => d # authSets[s].dev
    PROVE  SetsLike(d)
<1>1. SetsOf(d)' = SetsOf(d)
  <2>1. ASSUME NEW t PROVE t \in SetsOf(d)' <=> t \in SetsOf(d)
    <3>1. /\ t \in SetsOf(d) <=>
               t \in SetIds /\ authSets[t].stage = "stored" /\ authSets[t].dev = d
          /\ t \in SetsOf(d)' <=>
               t \in SetIds /\ authSets'[t].stage = "stored" /\ authSets'[t].dev = d
      BY SetsAre, SetsAreNext DEF SetFacts
    <3> QED BY <3>1 DEF OneSet
  <2> QED BY <2>1
<1>2. \A t \in SetsOf(d) : authSets'[t].status = authSets[t].status
  BY SetsAre DEF OneSet, SetFacts
<1> QED BY <1>1, <1>2 DEF SetsLike

\* The one set that is written, and the others.
LEMMA OneSetElse ==
    ASSUME NEW s, OneSet(s), NEW d, NEW t, t # s
    PROVE  /\ t \in SetsOf(d)' <=> t \in SetsOf(d)
           /\ t \in SetsOf(d) => authSets'[t].status = authSets[t].status
<1>1. /\ t \in SetsOf(d) <=>
           t \in SetIds /\ authSets[t].stage = "stored" /\ authSets[t].dev = d
      /\ t \in SetsOf(d)' <=>
           t \in SetIds /\ authSets'[t].stage = "stored" /\ authSets'[t].dev = d
  BY SetsAre, SetsAreNext DEF SetFacts
<1> QED BY <1>1 DEF OneSet

\* What is cached of a device whose sets are written.
LEMMA CacheStays ==
    ASSUME UNCHANGED <<devices, tokens, cache>>, SetsKeepDevices, NEW d
    PROVE  /\ Uncached(d)' <=> Uncached(d)
           /\ OwnToken(d) => OwnToken(d)'
           /\ InService(d)' <=> InService(d)
           /\ CacheFine(d) /\ ("accepted" \in Marks(d) => "accepted" \in Marks(d)')
                => CacheFine(d)'
<1>1. Uncached(d)' <=> Uncached(d)
  BY DEF Uncached
<1>2. ASSUME OwnToken(d) PROVE OwnToken(d)'
  <2>1. Belongs(cache[d], d)'
    BY <1>2 DEF OwnToken, SetsKeepDevices
  <2> QED BY <1>2, <2>1 DEF OwnToken, Belongs
<1>3. InService(d)' <=> InService(d)
  BY DEF InService, Stored
<1> QED BY <1>1, <1>2, <1>3 DEF CacheFine

\* So does every other.
LEMMA OneSetKeeps == ASSUME NEW s, OneSet(s) PROVE SetsKeepDevices
BY OneSetBelongs DEF SetsKeepDevices

\* The heaviest of statuses, with another that is not heavier.
LEMMA HeaviestStays ==
    ASSUME NEW M \in SUBSET DeviceStatuses, NEW N \in SUBSET DeviceStatuses,
           NEW new \in DeviceStatuses, Heaviest({new, Heaviest(M)}) = Heaviest(M),
           Heaviest(M) \in N, N \subseteq M \union {new}
    PROVE  Heaviest(N) = Heaviest(M)
<1> DEFINE h == Heaviest(M)
<1>1. h \in {"accepted", "preauthorized", "pending", "rejected", "noauth"}
  BY HeaviestOf DEF DeviceStatuses, SetStatuses
<1>2. {new, h} \in SUBSET DeviceStatuses
  BY HeaviestOf
<1>3. /\ h = "accepted" <=> "accepted" \in M
      /\ h = "preauthorized" <=> "preauthorized" \in M /\ "accepted" \notin M
      /\ h = "pending" <=> "pending" \in M /\ "preauthorized" \notin M /\ "accepted" \notin M
      /\ h = "rejected" <=> "rejected" \in M /\ "pending" \notin M /\ "preauthorized" \notin M
                            /\ "accepted" \notin M
      /\ h = "noauth" <=> M \subseteq {"noauth"}
  BY HeaviestTells
<1>4. /\ Heaviest({new, h}) = "accepted" <=> "accepted" \in {new, h}
      /\ Heaviest({new, h}) = "preauthorized" <=>
           "preauthorized" \in {new, h} /\ "accepted" \notin {new, h}
      /\ Heaviest({new, h}) = "pending" <=>
           "pending" \in {new, h} /\ "preauthorized" \notin {new, h} /\ "accepted" \notin {new, h}
      /\ Heaviest({new, h}) = "rejected" <=>
           "rejected" \in {new, h} /\ "pending" \notin {new, h}
             /\ "preauthorized" \notin {new, h} /\ "accepted" \notin {new, h}
      /\ Heaviest({new, h}) = "noauth" <=> {new, h} \subseteq {"noauth"}
  BY <1>2, HeaviestTells
<1>5. /\ Heaviest(N) = "accepted" <=> "accepted" \in N
      /\ Heaviest(N) = "preauthorized" <=> "preauthorized" \in N /\ "accepted" \notin N
      /\ Heaviest(N) = "pending" <=>
           "pending" \in N /\ "preauthorized" \notin N /\ "accepted" \notin N
      /\ Heaviest(N) = "rejected" <=>
           "rejected" \in N /\ "pending" \notin N /\ "preauthorized" \notin N
             /\ "accepted" \notin N
      /\ Heaviest(N) = "noauth" <=> N \subseteq {"noauth"}
  BY HeaviestTells
<1> HIDE DEF h
<1>6. Heaviest({new, h}) = h /\ h \in N
  BY DEF h
<1>7. Heaviest(N) = h
  <2>1. CASE h = "accepted"
    BY <2>1, <1>5, <1>6
  <2>2. CASE h = "preauthorized"
    BY <2>2, <1>3, <1>4, <1>5, <1>6
  <2>3. CASE h = "pending"
    BY <2>3, <1>3, <1>4, <1>5, <1>6
  <2>4. CASE h = "rejected"
    BY <2>4, <1>3, <1>4, <1>5, <1>6
  <2>5. CASE h = "noauth"
    BY <2>5, <1>3, <1>4, <1>5, <1>6
  <2> QED BY <1>1, <2>1, <2>2, <2>3, <2>4, <2>5
<1> QED BY <1>7 DEF h

\* RejectAuthSetsForDevice
LEMMA RejectOthersServes ==
    ASSUME NEW w \in Workers, NEW job \in WorkerType, NEW next \in WorkerType,
           Serving(w, job, next), RejectOthers(w)
    PROVE  Situation(next)'
<1> DEFINE others == InSetStatus(job.dev, "accepted") \ {job.set}
<1>1. /\ TypeOK /\ job = workers[w] /\ job.pc = "reject_others"
      /\ authSets' = [s \in SetIds |-> IF s \in others
                                       THEN [authSets[s] EXCEPT !.status = "rejected"]
                                       ELSE authSets[s]]
      /\ Continue(w, [job EXCEPT !.pc = "update_set"])
      /\ UNCHANGED <<devices, tokens, cache, events, decommissions>>
  BY DEF Serving, RejectOthers, At
<1>2. World /\ AllProper /\ Decided(job) /\ job.new = "accepted" /\ MayAdmit(job)
  BY <1>1, Around DEF Serving, Loose, Here
<1>3. /\ DeviceAtHand(job) /\ SetAtHand(job) /\ job.dev \in DeviceIds /\ Stored(job.dev)
      /\ job.sstatus # "accepted" /\ Proper(job.dev)
  BY <1>2 DEF Decided, DeviceAtHand, Stored, AllProper
<1>4. \A s \in SetIds :
        /\ authSets'[s].stage = authSets[s].stage /\ authSets'[s].dev = authSets[s].dev
        /\ authSets'[s].identity = authSets[s].identity
        /\ authSets'[s].status = IF s \in others THEN "rejected" ELSE authSets[s].status
  <2>1. \A s \in SetIds : authSets[s] \in AuthSetType
    BY <1>1 DEF TypeOK
  <2> HIDE DEF others
  <2> QED BY <1>1, <2>1 DEF AuthSetType
<1>5. \A s, d : s \in SetsOf(d)' <=> s \in SetsOf(d)
  BY <1>4, SetsAre, SetsAreNext DEF SetFacts
<1>6. \A s : s \in others <=>
        s \in SetsOf(job.dev) /\ authSets[s].status = "accepted" /\ s # job.set
  BY SetsAre DEF SetFacts
<1> HIDE DEF others
<1>7. World'
  <2>1. StoredSets' = StoredSets
    BY <1>4 DEF StoredSets
  <2>2. \A s \in StoredSets' : /\ s \in StoredSets /\ authSets'[s].dev = authSets[s].dev
                               /\ authSets'[s].identity = authSets[s].identity
    BY <1>4, <2>1 DEF StoredSets
  <2> QED BY <1>1, <1>2, <2>2, SetsInWorld
<1>8. SetsKeepDevices
  BY <1>4 DEF SetsKeepDevices, Belongs, Known
<1>9. ASSUME NEW d \in DeviceIds, d # job.dev PROVE Proper(d)'
  <2>1. \A s \in SetsOf(d) : s \in SetIds /\ s \notin others
    BY <1>6, <1>9, SetsAre DEF SetFacts
  <2>2. SetsLike(d)
    BY <1>4, <1>5, <2>1 DEF SetsLike
  <2> QED BY <1>1, <1>2, <1>8, <2>2, ProperWithSets DEF AllProper
<1>10. Goto(next, job, "update_set")
  BY <1>1, NextIs, GotoFields
<1>11. DevicesStay
  BY <1>1, DevicesKept
<1>12. Decided(next)'
  <2>1. job.set \notin others /\ job.set \in SetIds
    BY <1>3, <1>6 DEF SetAtHand, StoredSets
  <2>2. SetAtHand(next)'
    BY <1>3, <1>4, <1>10, <2>1 DEF SetAtHand, StoredSets, Goto
  <2>3. DeviceAtHand(next)'
    BY <1>3, <1>10, <1>11 DEF DeviceAtHand, DevicesStay, Goto
  <2> QED BY <1>2, <1>10, <2>2, <2>3 DEF Decided, Goto, MayChange
<1>13. "accepted" \notin Marks(job.dev)'
  <2> SUFFICES ASSUME NEW s \in SetsOf(job.dev)' PROVE authSets'[s].status # "accepted"
    BY SetsAreNext DEF SetFacts
  <2>1. s \in SetsOf(job.dev) /\ s \in SetIds
    BY <1>5, SetsAre DEF SetFacts
  <2>2. s = job.set => authSets[s].status # "accepted"
    BY <1>3 DEF SetAtHand
  <2> QED BY <1>4, <1>6, <2>1, <2>2
<1>14. Whole(job.dev)'
  <2>1. Single(InSetStatus(job.dev, "preauthorized"))
    BY <1>3 DEF Proper, Settled, Whole
  <2>2. InSetStatus(job.dev, "preauthorized")' \subseteq InSetStatus(job.dev, "preauthorized")
    <3> SUFFICES ASSUME NEW s \in InSetStatus(job.dev, "preauthorized")'
                 PROVE  s \in InSetStatus(job.dev, "preauthorized")
      OBVIOUS
    <3>1. s \in SetsOf(job.dev)' /\ authSets'[s].status = "preauthorized"
      BY SetsAreNext DEF SetFacts
    <3>2. s \in SetsOf(job.dev) /\ s \in SetIds
      BY <1>5, <3>1, SetsAre DEF SetFacts
    <3>3. authSets[s].status = "preauthorized"
      BY <1>4, <3>1, <3>2
    <3> QED BY <3>2, <3>3, SetsAre DEF SetFacts
  <2>3. InSetStatus(job.dev, "accepted")' = {}
    BY <1>13, SetsAreNext DEF SetFacts
  <2> QED BY <2>1, <2>2, <2>3 DEF Whole, Single
<1>15. BeforeUpdateSet(next)'
  <2>1. Uncached(job.dev) \/ (OwnToken(job.dev) /\ InService(job.dev))
    BY <1>3 DEF Proper, CacheFine
  <2>2. Uncached(job.dev)' \/ (OwnToken(job.dev)' /\ InService(job.dev)')
    BY <1>1, <1>8, <2>1, CacheStays
  <2>3. MayAdmit(next)'
    BY <1>2, <1>10, <1>11 DEF MayAdmit, DevicesStay, Goto
  <2> QED BY <1>2, <1>10, <1>12, <1>13, <1>14, <2>2, <2>3 DEF BeforeUpdateSet, Goto
<1>16. Here(next)' /\ Loose(next)'
  BY <1>2, <1>10, <1>15 DEF Here, Loose, Goto
<1>17. Others(next)' /\ next.dev \in DeviceIds
  BY <1>3, <1>9, <1>10 DEF Others, Goto
<1> QED BY <1>7, <1>16, <1>17, AllFitsNext DEF Fitting, FitsLoose

\* The sets of a device in one status, when one set is written.
LEMMA OneSetMarks ==
    ASSUME NEW s, OneSet(s), NEW d, NEW st
    PROVE  /\ InSetStatus(d, st)' \subseteq InSetStatus(d, st) \union {s}
           /\ InSetStatus(d, st) \subseteq InSetStatus(d, st)' \union {s}
<1>1. ASSUME NEW t, t # s PROVE t \in InSetStatus(d, st)' <=> t \in InSetStatus(d, st)
  <2>1. /\ t \in SetsOf(d)' <=> t \in SetsOf(d)
        /\ t \in SetsOf(d) => authSets'[t].status = authSets[t].status
    BY <1>1, OneSetElse
  <2> QED BY <2>1, SetsAre, SetsAreNext DEF SetFacts
<1> QED BY <1>1

\* The statuses of the sets of a device, as sets.
LEMMA MarkedAre ==
    ASSUME NEW d, NEW st
    PROVE  /\ st \in Marks(d) <=> InSetStatus(d, st) # {}
           /\ st \in Marks(d)' <=> InSetStatus(d, st)' # {}
BY SetsAre, SetsAreNext DEF SetFacts

\* The other devices when a set is written, and the world.
LEMMA OneSetAround ==
    ASSUME UNCHANGED <<devices, tokens, cache, decommissions>>, World, NEW job, Others(job),
           NEW s, OneSet(s), authSets'[s].dev = job.dev, Stored(job.dev),
           authSets[s].stage = "stored" => authSets[s].dev = job.dev,
           authSets'[s].identity = devices[job.dev].identity
    PROVE  World' /\ Others(job)' /\ SetsKeepDevices /\ DevicesStay
<1>1. SetsKeepDevices /\ DevicesStay
  BY OneSetKeeps, DevicesKept
<1>2. World'
  <2>1. ASSUME NEW t \in StoredSets'
        PROVE  \/ /\ t \in StoredSets /\ authSets'[t].dev = authSets[t].dev
                  /\ authSets'[t].identity = authSets[t].identity
               \/ /\ Stored(authSets'[t].dev)
                  /\ authSets'[t].identity = devices[authSets'[t].dev].identity
    <3>1. t \in SetIds /\ authSets'[t].stage = "stored"
      BY DEF StoredSets
    <3>2. CASE t = s
      BY <3>2
    <3>3. CASE t # s
      BY <3>1, <3>3 DEF OneSet, StoredSets
    <3> QED BY <3>2, <3>3
  <2> QED BY <2>1, SetsInWorld
<1>3. ASSUME NEW d \in DeviceIds, d # job.dev PROVE Proper(d)'
  <2>1. SetsLike(d)
    BY <1>3, OneSetOthers
  <2> QED BY <1>1, <1>3, <2>1, ProperWithSets DEF Others
<1> QED BY <1>1, <1>2, <1>3 DEF Others

\* A copy that knows the new status of its set.
LEMMA CopyOfUpdate ==
    ASSUME NEW job \in WorkerType, job.new \in SetStatuses
    PROVE  LET copy == [job EXCEPT !.sstatus = job.new]
           IN /\ copy \in WorkerType /\ copy.sstatus = job.new /\ copy.pc = job.pc
              /\ copy.kind = job.kind /\ copy.identity = job.identity /\ copy.key = job.key
              /\ copy.dev = job.dev /\ copy.set = job.set /\ copy.dstatus = job.dstatus
              /\ copy.revision = job.revision /\ copy.new = job.new
              /\ copy.changes = job.changes /\ copy.cached = job.cached
BY DEF WorkerType

\* A device whose sets are whole stays so if the written one is neither accepted nor
\* preauthorized by the write, or is the only one accepted.
LEMMA OneSetWhole ==
    ASSUME NEW s, OneSet(s), NEW d, Whole(d),
           s \in InSetStatus(d, "preauthorized")' => s \in InSetStatus(d, "preauthorized"),
           s \in InSetStatus(d, "accepted")' =>
             s \in InSetStatus(d, "accepted") \/ InSetStatus(d, "accepted") = {}
    PROVE  Whole(d)'
<1>1. Single(InSetStatus(d, "preauthorized")')
  BY OneSetMarks DEF Whole, Single
<1>2. Single(InSetStatus(d, "accepted")')
  BY OneSetMarks DEF Whole, Single
<1> QED BY <1>1, <1>2 DEF Whole, Single

\* UpdateAuthSetById
LEMMA UpdateSetServes ==
    ASSUME NEW w \in Workers, NEW job \in WorkerType, NEW next \in WorkerType,
           Serving(w, job, next), UpdateSet(w)
    PROVE  Situation(next)'
<1>0. World /\ Others(job) /\ BeforeUpdateSet(job) /\ (~Loose(job) => AllProper)
      /\ job = workers[w] /\ job.pc = "update_set" /\ TypeOK /\ TypeOK'
  <2>1. job = workers[w] /\ job.pc = "update_set" /\ TypeOK /\ TypeOK'
    BY DEF Serving, UpdateSet, At
  <2> QED BY <2>1, Around DEF Serving, Here
<1> DEFINE s == job.set
<1> DEFINE d == job.dev
<1>1. /\ Decided(job) /\ DeviceAtHand(job) /\ SetAtHand(job) /\ Stored(d) /\ d \in DeviceIds
      /\ s \in StoredSets /\ s \in SetIds /\ authSets[s].stage = "stored" /\ authSets[s].dev = d
      /\ authSets[s].status = job.sstatus /\ job.new \in Choices /\ job.new # job.sstatus
  BY <1>0 DEF BeforeUpdateSet, Decided, DeviceAtHand, SetAtHand, Stored, StoredSets
<1>2. /\ authSets' = [authSets EXCEPT ![s].status = job.new]
      /\ Continue(w, AfterSetUpdate([job EXCEPT !.sstatus = job.new]))
      /\ UNCHANGED <<devices, tokens, cache, events, decommissions>>
  BY <1>0, <1>1 DEF UpdateSet
<1>3. PICK up \in WorkerType :
        /\ up = [job EXCEPT !.sstatus = job.new] /\ up.sstatus = job.new
        /\ up.kind = job.kind /\ up.dev = job.dev /\ up.set = job.set
        /\ up.dstatus = job.dstatus /\ up.revision = job.revision /\ up.new = job.new
        /\ up.changes = job.changes
  <2>1. job.new \in SetStatuses
    BY <1>1 DEF Choices, SetStatuses
  <2> QED BY <2>1, CopyOfUpdate
<1>4. next = AfterSetUpdate(up)
  BY <1>2, <1>3, NextIs
<1>5. /\ authSets'[s].stage = "stored" /\ authSets'[s].dev = d
      /\ authSets'[s].identity = authSets[s].identity /\ authSets'[s].status = job.new
      /\ OneSet(s)
  <2>1. authSets \in [SetIds -> AuthSetType] /\ authSets[s] \in AuthSetType
    BY <1>0, <1>1 DEF TypeOK
  <2>2. authSets'[s] = [authSets[s] EXCEPT !.status = job.new]
    BY <1>1, <1>2, <2>1
  <2>3. /\ authSets'[s].stage = authSets[s].stage /\ authSets'[s].dev = authSets[s].dev
        /\ authSets'[s].identity = authSets[s].identity /\ authSets'[s].status = job.new
    BY <2>1, <2>2 DEF AuthSetType
  <2>4. \A t \in SetIds : t # s => authSets'[t] = authSets[t]
    BY <1>1, <1>2, <2>1
  <2> QED BY <1>1, <2>1, <2>3, <2>4 DEF OneSet
<1> HIDE DEF s, d
<1>6. World' /\ Others(job)' /\ SetsKeepDevices /\ DevicesStay
  <2>1. authSets'[s].identity = devices[d].identity
    BY <1>0, <1>1, <1>5 DEF World, SetsHaveDevices
  <2>2. d = job.dev
    BY DEF d
  <2> QED BY <1>0, <1>1, <1>2, <1>5, <2>1, <2>2, OneSetAround
<1>7. s \in SetsOf(d) /\ s \in SetsOf(d)'
  BY <1>1, <1>5, SetsAre, SetsAreNext DEF SetFacts
<1>8. \A st : /\ s \in InSetStatus(d, st) <=> st = job.sstatus
              /\ s \in InSetStatus(d, st)' <=> st = job.new
  BY <1>1, <1>5, <1>7, SetsAre, SetsAreNext DEF SetFacts
<1>9. /\ \A st : st # job.new /\ st \in Marks(d)' => st \in Marks(d)
      /\ \A st : st # job.sstatus /\ st \in Marks(d) => st \in Marks(d)'
      /\ job.new \in Marks(d)' /\ job.sstatus \in Marks(d)
  <2>1. ASSUME NEW st PROVE /\ st # job.new /\ st \in Marks(d)' => st \in Marks(d)
                            /\ st # job.sstatus /\ st \in Marks(d) => st \in Marks(d)'
                            /\ st = job.new => st \in Marks(d)'
                            /\ st = job.sstatus => st \in Marks(d)
    BY <1>5, <1>8, OneSetMarks, MarkedAre
  <2> QED BY <2>1
<1>10. Whole(d) /\ (job.new = "accepted" => "accepted" \notin Marks(d)) => Whole(d)'
  <2> SUFFICES ASSUME Whole(d), job.new = "accepted" => "accepted" \notin Marks(d)
               PROVE  Whole(d)'
    OBVIOUS
  <2>1. s \in InSetStatus(d, "preauthorized")' => s \in InSetStatus(d, "preauthorized")
    BY <1>1, <1>8 DEF Choices
  <2>2. s \in InSetStatus(d, "accepted")' => InSetStatus(d, "accepted") = {}
    BY <1>8, MarkedAre
  <2> QED BY <1>5, <2>1, <2>2, OneSetWhole
<1>11. /\ Uncached(d)' <=> Uncached(d)
       /\ OwnToken(d) => OwnToken(d)'
       /\ InService(d)' <=> InService(d)
       /\ CacheFine(d) /\ ("accepted" \in Marks(d) => "accepted" \in Marks(d)') => CacheFine(d)'
  BY <1>2, <1>6, CacheStays
<1>12. DeviceAtHand(up)'
  BY <1>1, <1>3, <1>6 DEF DeviceAtHand, DevicesStay
<1>13. devices'[d].status = job.dstatus /\ Stored(d)' /\ devices[d].status = job.dstatus
  BY <1>1, <1>2, <1>6 DEF DeviceAtHand, DevicesStay, d
<1>14. Proper(d)' => AllProper'
  BY <1>6 DEF Others, AllProper, d
<1>15. MarkFacts /\ MarkFacts'
  BY <1>0, MarksAre, SetsAreNext
<1>16. Marks(d) \in SUBSET DeviceStatuses /\ Marks(d)' \in SUBSET DeviceStatuses
  BY <1>15 DEF MarkFacts
<1>17. (job.kind = "set_status" /\ ~job.changes) => ~MayChange(job)
  BY <1>1 DEF Decided
<1>18. CASE job.new = "accepted"
  <2>1. /\ MayAdmit(job) /\ "accepted" \notin Marks(d) /\ Whole(d)
        /\ Uncached(d) \/ (OwnToken(d) /\ InService(d))
    BY <1>0, <1>18 DEF BeforeUpdateSet, d
  <2>2. "accepted" \in Marks(d)' /\ Whole(d)'
    BY <1>9, <1>10, <1>18, <2>1
  <2>3. CacheFine(d)'
    BY <1>11, <2>1, <2>2 DEF CacheFine
  <2>4. Heaviest(Marks(d)') = "accepted"
    BY <1>16, <2>2, HeaviestTells
  <2>5. CASE job.kind = "set_status" /\ ~job.changes
    <3>1. Heaviest({"accepted", job.dstatus}) = job.dstatus
      BY <1>17, <1>18, <2>5 DEF MayChange
    <3>2. job.dstatus = "accepted"
      <4>1. {"accepted", job.dstatus} \in SUBSET DeviceStatuses
        BY DEF WorkerType, DeviceStatuses, SetStatuses
      <4> QED BY <3>1, <4>1, HeaviestTells
    <3>3. Settled(d)'
      BY <1>13, <2>2, <2>4, <3>2 DEF Settled
    <3>4. next = Idle
      BY <1>3, <1>4, <2>5 DEF AfterSetUpdate
    <3> QED BY <1>6, <1>14, <2>3, <3>3, <3>4, EndsWell DEF Proper
  <2>6. CASE ~(job.kind = "set_status" /\ ~job.changes)
    <3>1. next = BeginDeviceUpdate(up)
      BY <1>3, <1>4, <1>18, <2>6 DEF AfterSetUpdate
    <3>2. Others(up)' /\ Whole(up.dev)' /\ CacheFine(up.dev)' /\ up.new = Heaviest(Marks(up.dev)')
      BY <1>3, <1>6, <1>18, <2>2, <2>3, <2>4 DEF Others, d
    <3>3. up.new = "accepted" /\ up.dstatus # "accepted" => Admits'
      BY <1>3, <1>6, <2>1 DEF MayAdmit, DevicesStay
    <3> QED BY <1>6, <1>12, <3>1, <3>2, <3>3, AllFitsNext DEF Fitting, FitsDeviceUpdate
  <2> QED BY <2>5, <2>6
<1>19. CASE job.new # "accepted"
  <2>1. AllProper /\ Proper(d) /\ (job.sstatus = "accepted" => Uncached(d))
    BY <1>0, <1>1, <1>19 DEF Loose, BeforeUpdateSet, AllProper, d
  <2>2. Whole(d)' /\ CacheFine(d)'
    <3>1. CASE job.sstatus = "accepted"
      BY <1>1, <1>10, <1>11, <1>19, <2>1, <3>1 DEF Proper, Settled, CacheFine
    <3>2. CASE job.sstatus # "accepted"
      BY <1>1, <1>9, <1>10, <1>11, <1>19, <2>1, <3>2 DEF Proper, Settled
    <3> QED BY <3>1, <3>2
  <2>3. devices[d].status = Heaviest(Marks(d)) /\ job.dstatus = Heaviest(Marks(d))
    BY <1>1, <1>13, <2>1 DEF Proper, Settled
  <2>4. "accepted" \in Marks(d)' => devices'[d].status = "accepted"
    BY <1>9, <1>13, <1>16, <1>19, <2>3, HeaviestTells
  <2>5. CASE job.kind = "set_status" /\ ~job.changes
    <3>1. Heaviest({job.new, job.dstatus}) = job.dstatus /\ job.sstatus # job.dstatus
      BY <1>17, <2>5 DEF MayChange
    <3>2. job.dstatus \in Marks(d)
      <4>1. ~(Marks(d) \subseteq {"noauth"})
        BY <1>7, <1>15 DEF MarkFacts
      <4>2. job.dstatus \in DeviceStatuses
        BY DEF WorkerType
      <4> QED BY <1>16, <2>3, <4>1, <4>2, HeaviestTells DEF DeviceStatuses, SetStatuses
    <3>3. job.dstatus \in Marks(d)'
      BY <1>9, <3>1, <3>2
    <3>4. Marks(d)' \subseteq Marks(d) \union {job.new} /\ job.new \in DeviceStatuses
      BY <1>1, <1>9 DEF Choices, DeviceStatuses, SetStatuses
    <3>5. Heaviest(Marks(d)') = Heaviest(Marks(d))
      BY <1>16, <2>3, <3>1, <3>3, <3>4, HeaviestStays
    <3>6. Settled(d)'
      BY <1>13, <2>2, <2>3, <3>5 DEF Settled
    <3>7. next = Idle
      BY <1>3, <1>4, <2>5 DEF AfterSetUpdate
    <3> QED BY <1>6, <1>14, <2>2, <3>6, <3>7, EndsWell DEF Proper
  <2>6. CASE ~(job.kind = "set_status" /\ ~job.changes)
    <3>1. next = [up EXCEPT !.pc = "aggregate"]
      BY <1>3, <1>4, <1>19, <2>6 DEF AfterSetUpdate
    <3>2. Goto(next, up, "aggregate")
      BY <3>1, GotoFields
    <3>3. next.dev = d
      BY <1>3, <3>2 DEF Goto, d
    <3>4. Changed(next)' /\ CacheFine(next.dev)'
      BY <1>13, <2>2, <2>4, <3>3 DEF Changed
    <3>5. DeviceAtHand(next)'
      BY <1>12, <3>2 DEF DeviceAtHand, Goto
    <3>6. Here(next)' /\ Loose(next)'
      BY <3>2, <3>4, <3>5 DEF Here, Loose, Goto, BeforeAggregate
    <3>7. Others(next)' /\ next.dev \in DeviceIds
      BY <1>1, <1>6, <3>3 DEF Others, d
    <3> QED BY <1>6, <3>6, <3>7, AllFitsNext DEF Fitting, FitsLoose
  <2> QED BY <2>5, <2>6
<1> QED BY <1>18, <1>19

\* Whatever set gets the next identifier.
LEMMA NextSet == NewSets # {} => Least(NewSets) \in NewSets
BY QueryTypes, LeastOf

\* A set that is stored, of the device at hand.
LEMMA SetAdded ==
    ASSUME TypeOK, World, NEW job \in WorkerType, Others(job), Stored(job.dev),
           devices[job.dev].identity = job.identity,
           NEW s \in NewSets, NEW status \in SetStatuses,
           authSets' = [authSets EXCEPT ![s] = NewSet(job, status)],
           UNCHANGED <<devices, tokens, cache, decommissions>>
    PROVE  /\ OneSet(s) /\ World' /\ Others(job)' /\ SetsKeepDevices /\ DevicesStay
           /\ s \in SetIds /\ s \notin SetsOf(job.dev) /\ s \in SetsOf(job.dev)'
           /\ authSets'[s].status = status
<1>1. s \in SetIds /\ authSets[s].stage = "none"
  BY DEF NewSets
<1>2. authSets \in [SetIds -> AuthSetType]
  BY DEF TypeOK
<1>3. /\ authSets'[s] = NewSet(job, status)
      /\ \A t \in SetIds : t # s => authSets'[t] = authSets[t]
  BY <1>1, <1>2
<1>4. /\ authSets'[s].stage = "stored" /\ authSets'[s].dev = job.dev
      /\ authSets'[s].identity = job.identity /\ authSets'[s].status = status
  BY <1>3 DEF NewSet
<1>5. OneSet(s)
  BY <1>1, <1>2, <1>3 DEF OneSet
<1>6. World' /\ Others(job)' /\ SetsKeepDevices /\ DevicesStay
  BY <1>1, <1>4, <1>5, OneSetAround
<1>7. s \notin SetsOf(job.dev) /\ s \in SetsOf(job.dev)'
  BY <1>1, <1>4, SetsAre, SetsAreNext DEF SetFacts
<1> QED BY <1>1, <1>4, <1>5, <1>6, <1>7

\* What a request knows that has stored its set.
LEMMA CopyOfAdded ==
    ASSUME NEW job \in WorkerType, NEW s \in SetIds
    PROVE  LET copy == [job EXCEPT !.set = s, !.sstatus = "pending"]
           IN /\ copy \in WorkerType /\ copy.sstatus = "pending" /\ copy.dev = job.dev
              /\ copy.dstatus = job.dstatus /\ copy.revision = job.revision
BY DEF WorkerType, SetStatuses

\* AddAuthSet of processAuthRequest.
LEMMA AddSetServes ==
    ASSUME NEW w \in Workers, NEW job \in WorkerType, NEW next \in WorkerType,
           Serving(w, job, next), AddSet(w)
    PROVE  Situation(next)'
<1>1. /\ TypeOK /\ TypeOK' /\ job = workers[w] /\ job.pc = "add_set"
      /\ UNCHANGED <<devices, tokens, cache, events, decommissions>>
  BY DEF Serving, AddSet, At
<1>2. /\ World /\ Others(job) /\ AllProper /\ DeviceAtHand(job)
      /\ devices[job.dev].identity = job.identity
  BY <1>1, Around DEF Serving, Loose, Here
<1>3. Stored(job.dev) /\ job.dev \in DeviceIds /\ Proper(job.dev)
  BY <1>2 DEF DeviceAtHand, Stored, AllProper
<1>4. CASE authSets' = authSets /\ Continue(w, [job EXCEPT !.pc = "find_set"])
  <2>1. Goto(next, job, "find_set")
    BY <1>4, NextIs, GotoFields
  <2>2. Here(next)
    BY <1>2, <2>1 DEF Here, Goto, DeviceAtHand
  <2>3. Situation(next)
    BY <1>2, <2>2, AllFits DEF Fitting, FitsHere
  <2> QED BY <1>1, <1>4, <2>3, SituationStays
<1>5. CASE authSets' = authSets /\ Continue(w, Idle)
  <2>1. next.pc = "idle"
    BY <1>5, NextIs DEF Idle
  <2>2. Situation(next)
    BY <1>2, <2>1, AllFits DEF Fitting, FitsPlain, PlainPCs
  <2> QED BY <1>1, <1>5, <2>2, SituationStays
<1>6. ASSUME NEW s, s = Least(NewSets), NewSets # {},
             authSets' = [authSets EXCEPT ![s] = NewSet(job, "pending")],
             Continue(w, SetKnown([job EXCEPT !.set = s, !.sstatus = "pending"]))
      PROVE  Situation(next)'
  <2> DEFINE d == job.dev
  <2>1. /\ OneSet(s) /\ World' /\ Others(job)' /\ SetsKeepDevices /\ DevicesStay
        /\ s \in SetIds /\ s \notin SetsOf(job.dev) /\ s \in SetsOf(job.dev)'
        /\ authSets'[s].status = "pending"
    <3>1. /\ "pending" \in SetStatuses /\ UNCHANGED <<devices, tokens, cache, decommissions>>
          /\ s \in NewSets
      BY <1>1, <1>6, NextSet DEF SetStatuses
    <3>2. PICK status \in SetStatuses : status = "pending"
      BY <3>1
    <3>3. authSets' = [authSets EXCEPT ![s] = NewSet(job, status)]
      BY <1>6, <3>2
    <3> QED BY <1>1, <1>2, <1>3, <3>1, <3>2, <3>3, SetAdded
  <2>2. PICK up \in WorkerType :
          /\ up = [job EXCEPT !.set = s, !.sstatus = "pending"] /\ up.sstatus = "pending"
          /\ up.dev = d /\ up.dstatus = job.dstatus /\ up.revision = job.revision
    BY <2>1, CopyOfAdded
  <2>3. next = SetKnown(up)
    BY <1>6, <2>2, NextIs
  <2>4. \A st : /\ s \notin InSetStatus(d, st)
                /\ s \in InSetStatus(d, st)' <=> st = "pending"
    BY <2>1, SetsAre, SetsAreNext DEF SetFacts
  <2>5. \A st : /\ st \in Marks(d) => st \in Marks(d)'
                /\ st # "pending" /\ st \in Marks(d)' => st \in Marks(d)
    <3>1. ASSUME NEW st PROVE /\ st \in Marks(d) => st \in Marks(d)'
                              /\ st # "pending" /\ st \in Marks(d)' => st \in Marks(d)
      BY <2>1, <2>4, OneSetMarks, MarkedAre
    <3> QED BY <3>1
  <2>6. MarkFacts /\ MarkFacts'
    BY <1>1, MarksAre, SetsAreNext
  <2>7. Marks(d) \in SUBSET DeviceStatuses /\ Marks(d)' \in SUBSET DeviceStatuses
    BY <2>6 DEF MarkFacts
  <2>8. /\ Whole(d) /\ devices[d].status = Heaviest(Marks(d)) /\ CacheFine(d)
        /\ job.dstatus = devices[d].status /\ devices'[d].status = job.dstatus
    BY <1>1, <1>2, <1>3 DEF Proper, Settled, DeviceAtHand
  <2>9. Whole(d)' /\ Stored(d)'
    <3>1. Whole(d)'
      BY <2>1, <2>4, <2>8, OneSetWhole
    <3>2. Stored(d)'
      BY <1>3, <2>1 DEF DevicesStay
    <3> QED BY <3>1, <3>2
  <2>10. CacheFine(d)'
    BY <1>1, <2>1, <2>5, <2>8, CacheStays
  <2>11. "accepted" \in Marks(d)' => devices'[d].status = "accepted"
    <3>1. "accepted" \in Marks(d)' => "accepted" \in Marks(d)
      BY <2>5
    <3>2. "accepted" \in Marks(d) => Heaviest(Marks(d)) = "accepted"
      BY <2>7, HeaviestTells
    <3> QED BY <2>8, <3>1, <3>2
  <2>12. Changed(up)' /\ CacheFine(up.dev)' /\ Others(up)'
    BY <2>1, <2>2, <2>9, <2>10, <2>11 DEF Changed, Others
  <2>13. DeviceAtHand(up)'
    BY <1>2, <2>1, <2>2 DEF DeviceAtHand, DevicesStay
  <2>14. Heaviest({up.sstatus, up.dstatus}) = up.dstatus => Settled(up.dev)'
    <3> SUFFICES ASSUME Heaviest({"pending", job.dstatus}) = job.dstatus PROVE Settled(d)'
      BY <2>2
    <3>1. job.dstatus \in Marks(d)
      <4>1. job.dstatus \in DeviceStatuses
        BY DEF WorkerType
      <4>2. {"pending", job.dstatus} \in SUBSET DeviceStatuses
        BY <4>1 DEF DeviceStatuses, SetStatuses
      <4>3. job.dstatus # "noauth"
        BY <4>2, HeaviestTells
      <4> QED BY <2>7, <2>8, <4>1, <4>3, HeaviestTells DEF DeviceStatuses, SetStatuses
    <3>2. job.dstatus \in Marks(d)' /\ Marks(d)' \subseteq Marks(d) \union {"pending"}
      BY <2>5, <3>1
    <3>3. "pending" \in DeviceStatuses
      BY DEF DeviceStatuses, SetStatuses
    <3>4. Heaviest(Marks(d)') = Heaviest(Marks(d))
      BY <2>7, <2>8, <3>2, <3>3, HeaviestStays
    <3> QED BY <2>8, <2>9, <3>4 DEF Settled
  <2> QED BY <2>1, <2>3, <2>12, <2>13, <2>14, AllFitsNext DEF Fitting, FitsSetKnown
<1>7. \/ authSets' = authSets /\ Continue(w, [job EXCEPT !.pc = "find_set"])
      \/ authSets' = authSets /\ Continue(w, Idle)
      \/ /\ NewSets # {} /\ authSets' = [authSets EXCEPT ![Least(NewSets)] = NewSet(job, "pending")]
         /\ Continue(w, SetKnown([job EXCEPT !.set = Least(NewSets), !.sstatus = "pending"]))
  BY <1>1 DEF AddSet
<1> QED BY <1>4, <1>5, <1>6, <1>7

\* AddAuthSet of PreauthorizeDevice: the device is new, so is its set.
LEMMA AddPreauthorizedSetServes ==
    ASSUME NEW w \in Workers, NEW job \in WorkerType, NEW next \in WorkerType,
           Serving(w, job, next), AddPreauthorizedSet(w)
    PROVE  Situation(next)'
<1> DEFINE d == job.dev
<1>1. /\ TypeOK /\ TypeOK' /\ job = workers[w] /\ job.pc = "add_preauthorized_set"
      /\ UNCHANGED <<devices, tokens, cache, events, decommissions>>
  BY DEF Serving, AddPreauthorizedSet, At
<1>2. World /\ Others(job) /\ BeforeAddPreauthorizedSet(job)
  BY <1>1, Around DEF Serving, Here
<1>3. /\ Stored(d) /\ d \in DeviceIds /\ devices[d].identity = job.identity
      /\ devices[d].status = "preauthorized" /\ SetsOf(d) = {} /\ Uncached(d) /\ NewSets # {}
  BY <1>2 DEF BeforeAddPreauthorizedSet, Stored
<1>4. SetWith(job.identity, job.key) = {}
  <2> SUFFICES ASSUME NEW t \in StoredSets, authSets[t].identity = job.identity PROVE FALSE
    BY DEF SetWith
  <2>1. /\ Stored(authSets[t].dev) /\ authSets[t].dev \in DeviceIds
        /\ devices[authSets[t].dev].identity = job.identity
    BY <1>2 DEF World, SetsHaveDevices, Stored
  <2>2. authSets[t].dev = d
    BY <1>2, <1>3, <2>1 DEF World, OneDevice
  <2> QED BY <1>3, <2>2 DEF SetsOf
<1>5. PICK s : s = Least(NewSets)
  OBVIOUS
<1>6. /\ authSets' = [authSets EXCEPT ![s] = NewSet(job, "preauthorized")]
      /\ Continue(w, [job EXCEPT !.pc = "submit", !.set = s, !.sstatus = "preauthorized"])
  BY <1>1, <1>3, <1>4, <1>5 DEF AddPreauthorizedSet
<1>7. /\ OneSet(s) /\ World' /\ Others(job)' /\ SetsKeepDevices /\ DevicesStay
      /\ s \in SetIds /\ s \notin SetsOf(job.dev) /\ s \in SetsOf(job.dev)'
      /\ authSets'[s].status = "preauthorized"
  <2>1. /\ "preauthorized" \in SetStatuses
        /\ UNCHANGED <<devices, tokens, cache, decommissions>> /\ s \in NewSets
    BY <1>1, <1>3, <1>5, NextSet DEF SetStatuses
  <2>2. PICK status \in SetStatuses : status = "preauthorized"
    BY <2>1
  <2>3. authSets' = [authSets EXCEPT ![s] = NewSet(job, status)]
    BY <1>6, <2>2
  <2>4. TypeOK /\ World /\ Others(job) /\ Stored(job.dev) /\ devices[job.dev].identity = job.identity
    BY <1>1, <1>2, <1>3
  <2> QED BY <2>1, <2>2, <2>3, <2>4, SetAdded
<1>8. SetsOf(d)' = {s}
  <2>1. ASSUME NEW t \in SetsOf(d)' PROVE t = s
    BY <1>3, <1>7, OneSetElse
  <2> QED BY <1>7, <2>1
<1>9. /\ \A st : st \in Marks(d)' <=> st = "preauthorized"
      /\ \A st : InSetStatus(d, st)' \subseteq {s}
  BY <1>7, <1>8, SetsAreNext DEF SetFacts
<1>10. Whole(d)'
  BY <1>9 DEF Whole, Single
<1>11. Heaviest(Marks(d)') = "preauthorized"
  <2>1. Marks(d)' \in SUBSET DeviceStatuses
    BY <1>1, SetsAreNext DEF MarkFacts
  <2> QED BY <1>9, <2>1, HeaviestTells
<1>12. Proper(d)'
  <2>1. Settled(d)'
    BY <1>1, <1>3, <1>10, <1>11 DEF Settled
  <2>2. Uncached(d)'
    BY <1>1, <1>3 DEF Uncached
  <2> QED BY <2>1, <2>2 DEF Proper, CacheFine
<1>13. AllProper'
  BY <1>7, <1>12 DEF Others, AllProper
<1>14. next.pc = "submit"
  <2>1. next = [job EXCEPT !.pc = "submit", !.set = s, !.sstatus = "preauthorized"]
    BY <1>6, NextIs
  <2> QED BY <2>1 DEF WorkerType
<1> QED BY <1>7, <1>13, <1>14, AllFitsNext DEF Fitting, FitsPlain, PlainPCs

\* DeleteAuthSetForDevice
LEMMA DeleteSetServes ==
    ASSUME NEW w \in Workers, NEW job \in WorkerType, NEW next \in WorkerType,
           Serving(w, job, next), DeleteSet(w)
    PROVE  Situation(next)'
<1> DEFINE s == job.set
<1> DEFINE d == job.dev
<1>1. /\ TypeOK /\ TypeOK' /\ job = workers[w] /\ job.pc = "delete_set"
      /\ UNCHANGED <<devices, tokens, cache, events, decommissions>>
  BY DEF Serving, DeleteSet, At
<1>2. World /\ Others(job) /\ AllProper /\ SetAtHand(job) /\ job.kind = "delete_set"
  BY <1>1, Around DEF Serving, Loose, Here
<1>3. /\ s \in StoredSets /\ s \in SetIds /\ authSets[s].stage = "stored" /\ authSets[s].dev = d
      /\ authSets[s].status = job.sstatus
  BY <1>2 DEF SetAtHand, StoredSets
<1>4. /\ Stored(d) /\ d \in DeviceIds /\ Proper(d)
  BY <1>2, <1>3 DEF World, SetsHaveDevices, Stored, AllProper
<1>5. /\ authSets' = [authSets EXCEPT ![s].stage = "deleted"]
      /\ Continue(w, AfterSetDeletion(job))
  BY <1>1, <1>3 DEF DeleteSet
<1>6. next = AfterSetDeletion(job)
  BY <1>5, NextIs
<1>7. /\ authSets'[s].stage = "deleted" /\ authSets'[s].dev = d
      /\ authSets'[s].identity = authSets[s].identity
      /\ OneSet(s)
  <2>1. authSets \in [SetIds -> AuthSetType] /\ authSets[s] \in AuthSetType
    BY <1>1, <1>3 DEF TypeOK
  <2>2. authSets'[s] = [authSets[s] EXCEPT !.stage = "deleted"]
    BY <1>3, <1>5, <2>1
  <2>3. /\ authSets'[s].stage = "deleted" /\ authSets'[s].dev = authSets[s].dev
        /\ authSets'[s].identity = authSets[s].identity
    BY <2>1, <2>2 DEF AuthSetType
  <2>4. \A t \in SetIds : t # s => authSets'[t] = authSets[t]
    BY <1>3, <1>5, <2>1
  <2> QED BY <1>3, <2>1, <2>3, <2>4 DEF OneSet
<1> HIDE DEF s, d
<1>8. World' /\ Others(job)' /\ SetsKeepDevices /\ DevicesStay
  <2>1. authSets'[s].identity = devices[d].identity
    BY <1>2, <1>3, <1>7 DEF World, SetsHaveDevices
  <2>2. d = job.dev
    BY DEF d
  <2> QED BY <1>1, <1>2, <1>3, <1>4, <1>7, <2>1, <2>2, OneSetAround
<1>9. \A st : /\ s \in InSetStatus(d, st) <=> st = job.sstatus
              /\ s \notin InSetStatus(d, st)'
  BY <1>3, <1>7, SetsAre, SetsAreNext DEF SetFacts
<1>10. \A st : /\ st \in Marks(d)' => st \in Marks(d)
               /\ st # job.sstatus /\ st \in Marks(d) => st \in Marks(d)'
  <2>1. ASSUME NEW st PROVE /\ st \in Marks(d)' => st \in Marks(d)
                            /\ st # job.sstatus /\ st \in Marks(d) => st \in Marks(d)'
    BY <1>7, <1>9, OneSetMarks, MarkedAre
  <2> QED BY <2>1
<1>11. Whole(d) /\ devices[d].status = Heaviest(Marks(d)) /\ CacheFine(d)
  BY <1>4 DEF Proper, Settled
<1>12. Changed(job)'
  <2>1. Whole(d)'
    BY <1>7, <1>9, <1>11, OneSetWhole
  <2>2. Stored(d)'
    BY <1>4, <1>8 DEF DevicesStay
  <2>3. "accepted" \in Marks(d)' => devices'[d].status = "accepted"
    <3>1. Marks(d) \in SUBSET DeviceStatuses
      BY <1>1, MarksAre DEF MarkFacts
    <3> QED BY <1>1, <1>10, <1>11, <3>1, HeaviestTells
  <2> QED BY <2>1, <2>2, <2>3 DEF Changed, d
<1>13. /\ Uncached(d)' <=> Uncached(d)
       /\ OwnToken(d) => OwnToken(d)'
       /\ CacheFine(d) /\ ("accepted" \in Marks(d) => "accepted" \in Marks(d)') => CacheFine(d)'
  BY <1>1, <1>8, CacheStays
<1>14. PICK pc \in {"aggregate", "delete_tokens"} :
         Goto(next, job, pc) /\ (pc = "aggregate" <=> job.sstatus # "accepted")
  BY <1>6, GotoFields DEF AfterSetDeletion
<1>15. next.dev = d /\ next.kind = "delete_set" /\ Changed(next)'
  BY <1>2, <1>12, <1>14 DEF Goto, Changed, d
<1>16. CASE pc = "aggregate"
  <2>1. CacheFine(next.dev)'
    BY <1>10, <1>11, <1>13, <1>14, <1>15, <1>16
  <2> QED
    <3>1. Here(next)' /\ Loose(next)'
      BY <1>14, <1>15, <1>16, <2>1 DEF Here, Loose, Goto, BeforeAggregate
    <3>2. Others(next)' /\ next.dev \in DeviceIds
      BY <1>4, <1>8, <1>15 DEF Others, d
    <3> QED BY <1>8, <3>1, <3>2, AllFitsNext DEF Fitting, FitsLoose
<1>17. CASE pc = "delete_tokens"
  <2>1. Uncached(d)' \/ OwnToken(d)'
    BY <1>11, <1>13 DEF CacheFine
  <2>2. Uncached(next.dev)' \/ (CacheOn /\ Belongs(cache[next.dev], next.dev)')
    BY <1>15, <2>1 DEF OwnToken
  <2>3. Here(next)' /\ Loose(next)'
    BY <1>14, <1>15, <1>17, <2>2 DEF Here, Loose, Goto, BeforeDeleteTokens
  <2>4. Others(next)' /\ next.dev \in DeviceIds
    BY <1>4, <1>8, <1>15 DEF Others, d
  <2> QED BY <1>8, <2>3, <2>4, AllFitsNext DEF Fitting, FitsLoose
<1> QED BY <1>14, <1>16, <1>17

\* DeleteAuthSetsForDevice: nothing is cached of a device that is being decommissioned.
LEMMA DeleteSetsServes ==
    ASSUME NEW w \in Workers, NEW job \in WorkerType, NEW next \in WorkerType,
           Serving(w, job, next), DeleteSets(w)
    PROVE  Situation(next)'
<1> DEFINE sets == SetsOf(job.dev)
<1>1. /\ TypeOK /\ job = workers[w] /\ job.pc = "delete_sets"
      /\ authSets' = [s \in SetIds |-> IF s \in sets
                                       THEN [authSets[s] EXCEPT !.stage = "deleted"]
                                       ELSE authSets[s]]
      /\ Continue(w, [job EXCEPT !.pc = "delete_tokens"])
      /\ UNCHANGED <<devices, tokens, cache, events, decommissions>>
  BY DEF Serving, DeleteSets, At
<1>2. /\ World /\ AllProper /\ job.kind = "delete_device" /\ job.dev \in decommissions
      /\ job.dev \in DeviceIds
  BY <1>1, Around DEF Serving, Loose, Here, TypeOK
<1>3. \A s : s \in sets <=> s \in SetIds /\ authSets[s].stage = "stored" /\ authSets[s].dev = job.dev
  BY SetsAre DEF SetFacts
<1> HIDE DEF sets
<1>4. \A s \in SetIds :
        /\ authSets'[s].stage = IF s \in sets THEN "deleted" ELSE authSets[s].stage
        /\ authSets'[s].dev = authSets[s].dev
        /\ authSets'[s].identity = authSets[s].identity
        /\ authSets'[s].status = authSets[s].status
  <2>1. \A s \in SetIds : authSets[s] \in AuthSetType
    BY <1>1 DEF TypeOK
  <2> QED BY <1>1, <2>1 DEF AuthSetType
<1>5. SetsOf(job.dev)' = {}
  <2>1. ASSUME NEW s \in SetsOf(job.dev)' PROVE FALSE
    BY <1>3, <1>4, SetsAreNext DEF SetFacts
  <2> QED BY <2>1
<1>6. World' /\ SetsKeepDevices
  <2>1. \A s \in StoredSets' : /\ s \in StoredSets /\ authSets'[s].dev = authSets[s].dev
                               /\ authSets'[s].identity = authSets[s].identity
    <3>1. \A s \in StoredSets' : s \in SetIds /\ authSets'[s].stage = "stored"
      BY DEF StoredSets
    <3> QED BY <1>4, <3>1 DEF StoredSets
  <2>2. SetsKeepDevices
    BY <1>3, <1>4 DEF SetsKeepDevices, Belongs, Known
  <2> QED BY <1>1, <1>2, <2>1, <2>2, SetsInWorld
<1>7. ASSUME NEW d \in DeviceIds, d # job.dev PROVE Proper(d)'
  <2>1. \A s : s \in SetsOf(d)' <=> s \in SetsOf(d)
    BY <1>3, <1>4, <1>7, SetsAre, SetsAreNext DEF SetFacts
  <2>2. SetsLike(d)
    BY <1>4, <2>1, SetsAre DEF SetsLike, SetFacts
  <2> QED BY <1>1, <1>2, <1>6, <2>2, ProperWithSets DEF AllProper
<1>8. Uncached(job.dev)
  <2>1. ~InService(job.dev)
    BY <1>2 DEF World, MarkedAreDeleted, InService
  <2> QED BY <1>2, <2>1 DEF AllProper, Proper, CacheFine
<1>9. Goto(next, job, "delete_tokens")
  BY <1>1, NextIs, GotoFields
<1>10. SetsOf(next.dev)' = {} /\ Uncached(next.dev)'
  BY <1>1, <1>5, <1>8, <1>9 DEF Goto, Uncached
<1>11. Here(next)' /\ Loose(next)'
  BY <1>2, <1>9, <1>10 DEF Here, Loose, Goto, BeforeDeleteTokens
<1>12. Others(next)' /\ next.dev \in DeviceIds
  BY <1>2, <1>7, <1>9 DEF Others, Goto
<1> QED BY <1>6, <1>11, <1>12, AllFitsNext DEF Fitting, FitsLoose

---------------------------------------------------------------------------
(* What happens besides the steps of a request.                             *)

\* The cache drops what it holds for a device.
LEMMA CacheExpiresServes ==
    ASSUME TypeOK, SetsOK, NEW job \in WorkerType, Situation(job),
           NEW d \in DeviceIds, CacheExpires(d)
    PROVE  Situation(job)'
<1>1. /\ cache' = [cache EXCEPT ![d] = NoToken]
      /\ UNCHANGED <<devices, authSets, tokens, events, decommissions>>
  BY DEF CacheExpires
<1>2. cache'[d] = NoToken /\ \A e \in DeviceIds : e # d => cache'[e] = cache[e]
  BY <1>1 DEF TypeOK
<1>3. Uncached(d)'
  BY <1>2 DEF Uncached, NoToken, SetIds
<1>4. DevicesStay /\ SetsStay /\ World'
  BY <1>1, WorldStays, DevicesKept, SetsUnchanged DEF Situation
<1>5. \A e : Uncached(e) => Uncached(e)'
  BY <1>2, <1>3 DEF Uncached
<1>6. ASSUME NEW e PROVE Uncached(e)' \/ cache'[e] = cache[e]
  BY <1>2, <1>3 DEF Uncached
<1>7. \A e : /\ OwnToken(e) => Uncached(e)' \/ OwnToken(e)'
             /\ Belongs(cache[e], e) => Uncached(e)' \/ Belongs(cache[e], e)'
  <2>1. ASSUME NEW e, ~Uncached(e)' PROVE /\ OwnToken(e) => OwnToken(e)'
                                          /\ Belongs(cache[e], e) => Belongs(cache[e], e)'
    BY <1>1, <1>6, <2>1 DEF OwnToken, Belongs, Known
  <2> QED BY <2>1
<1>8. \A e : CacheFine(e) => CacheFine(e)'
  BY <1>4, <1>5, <1>7 DEF CacheFine, DevicesStay, SetsStay
<1>9. \A e : Proper(e) => Proper(e)'
  BY <1>1, <1>8, SettledStays DEF Proper
<1>10. Elsewhere(job)'
  BY <1>9 DEF Situation, Elsewhere
<1>11. /\ Decided(job)' <=> Decided(job)
       /\ Withdrawn(job)' <=> Withdrawn(job)
       /\ Changed(job)' <=> Changed(job)
       /\ Verified(job)' <=> Verified(job)
       /\ ToBeCached(job)' <=> ToBeCached(job)
  BY <1>1, <1>4 DEF Decided, Withdrawn, Changed, Verified, ToBeCached, DevicesStay, SetsStay
<1>12. /\ BeforeUpdateSet(job) => BeforeUpdateSet(job)'
       /\ BeforeUpdateDevice(job) => BeforeUpdateDevice(job)'
       /\ BeforeAggregate(job) => BeforeAggregate(job)'
       /\ BeforeInvalidate(job) => BeforeInvalidate(job)'
       /\ BeforeDeleteTokens(job) => BeforeDeleteTokens(job)'
       /\ BeforeAddPreauthorizedSet(job) => BeforeAddPreauthorizedSet(job)'
  BY <1>1, <1>4, <1>5, <1>7, <1>8, <1>11
     DEF BeforeUpdateSet, BeforeUpdateDevice, BeforeAggregate, BeforeInvalidate,
         BeforeDeleteTokens, BeforeAddPreauthorizedSet, DevicesStay, SetsStay
<1>13. Here(job)'
  BY <1>1, <1>4, <1>5, <1>8, <1>11, <1>12 DEF Situation, Here, DevicesStay, SetsStay
<1> QED BY <1>4, <1>10, <1>13 DEF Situation

\* A request arrives when there is none: everything is in order.
Arrived(w, job, new) ==
    /\ Situation(job) /\ job = workers[w] /\ TypeOK /\ SetsOK
    /\ Start(w, new) /\ new \in WorkerType

\* What a request finds that arrives.
LEMMA FromIdle ==
    ASSUME NEW w \in Workers, NEW job \in WorkerType, NEW new \in WorkerType, Arrived(w, job, new)
    PROVE  /\ World /\ AllProper /\ new.kind \in Kinds
           /\ UNCHANGED <<devices, authSets, tokens, cache, decommissions>>
<1>1. Situation(job) /\ job.pc = "idle"
  BY DEF Arrived, Start, At
<1>2. ~Loose(job)
  BY <1>1 DEF Loose
<1> QED BY <1>1, <1>2, Around DEF Arrived, Start, store

\* A request that starts at a position that asks for nothing it lacks.
LEMMA StartsWell ==
    ASSUME NEW w \in Workers, NEW job \in WorkerType, NEW new \in WorkerType,
           Arrived(w, job, new), Here(new)
    PROVE  Situation(new)'
<1>1. /\ World /\ AllProper
      /\ UNCHANGED <<devices, authSets, tokens, cache, decommissions>>
  BY FromIdle
<1>2. Situation(new)
  BY <1>1, AllFits DEF Fitting, FitsHere
<1> QED BY <1>1, <1>2, SituationStays

\* Every kind of request, but for the preauthorization by force.
LEMMA ArrivalServes ==
    ASSUME NEW w \in Workers, NEW job \in WorkerType, NEW new \in WorkerType,
           Arrived(w, job, new), "force" \notin Kinds, Arrival(w), new = workers'[w]
    PROVE  Situation(new)'
<1>0. /\ Situation(job) /\ TypeOK /\ SetsOK /\ new.kind \in Kinds /\ World /\ AllProper
      /\ \A s \in SetIds : issued[s] > 0 => s \in Known
  BY FromIdle DEF Arrived, SetsOK
<1>t. \A e : Start(w, e) => new = e
  BY <1>0 DEF Start, TypeOK
<1>1. ASSUME NEW identity \in Identities, NEW key \in Keys, StartAuth(w, identity, key)
      PROVE  Here(new)
  <2>1. new = [Idle EXCEPT !.pc = "find_preauthorized", !.kind = "auth",
                           !.identity = identity, !.key = key, !.new = "accepted"]
    BY <1>1, <1>t DEF StartAuth
  <2>2. new.pc = "find_preauthorized" /\ new.kind = "auth" /\ new.new = "accepted"
    BY <2>1 DEF Idle
  <2> QED BY <2>2 DEF Here
<1>2. ASSUME NEW identity \in Identities, NEW key \in Keys, NEW kind \in {"preauthorize", "force"},
             StartPreauthorize(w, kind, identity, key)
      PROVE  Here(new)
  <2>1. new = [Idle EXCEPT !.pc = "add_preauthorized_device", !.kind = kind,
                           !.identity = identity, !.key = key, !.new = "preauthorized"]
    BY <1>2, <1>t DEF StartPreauthorize
  <2>2. new.pc = "add_preauthorized_device" /\ new.kind = kind
    BY <2>1 DEF Idle
  <2> QED BY <1>0, <2>2 DEF Here
<1>3. ASSUME NEW s \in SetIds, StartVerify(w, s) PROVE Here(new)
  <2>1. /\ issued[s] > 0
        /\ new = [Idle EXCEPT !.pc = "throttle", !.kind = "verify", !.set = s,
                              !.dev = authSets[s].dev]
    BY <1>3, <1>t DEF StartVerify
  <2>2. new.pc = "throttle" /\ new.set = s /\ new.dev = authSets[s].dev
    BY <2>1 DEF Idle
  <2> QED BY <1>0, <2>1, <2>2 DEF Here, Belongs
<1>4. ASSUME NEW s \in SetIds, NEW status \in SetStatuses, StartSetStatus(w, s, status)
      PROVE  Here(new)
  <2>1. /\ s \in StoredSets /\ status \in {"accepted", "rejected", "pending"}
        /\ new = [Idle EXCEPT !.pc = "status_get_set", !.kind = "set_status",
                              !.dev = authSets[s].dev, !.set = s, !.new = status]
    BY <1>4, <1>t DEF StartSetStatus
  <2>2. /\ new.pc = "status_get_set" /\ new.kind = "set_status" /\ new.set = s
        /\ new.dev = authSets[s].dev /\ new.new = status
    BY <2>1 DEF Idle
  <2>3. s \in Known
    BY <2>1 DEF StoredSets, Known
  <2> QED BY <2>1, <2>2, <2>3 DEF Here, Belongs, Choices
<1>5. ASSUME NEW s \in SetIds, StartDeleteSet(w, s) PROVE Here(new)
  <2>1. /\ s \in StoredSets
        /\ new = [Idle EXCEPT !.pc = "deletion_get_set", !.kind = "delete_set",
                              !.dev = authSets[s].dev, !.set = s]
    BY <1>5, <1>t DEF StartDeleteSet
  <2>2. /\ new.pc = "deletion_get_set" /\ new.kind = "delete_set" /\ new.set = s
        /\ new.dev = authSets[s].dev
    BY <2>1 DEF Idle
  <2>3. s \in Known
    BY <2>1 DEF StoredSets, Known
  <2> QED BY <2>2, <2>3 DEF Here, Belongs
<1>6. ASSUME NEW s \in SetIds, StartRevoke(w, s) PROVE Here(new)
  <2>1. /\ issued[s] > 0
        /\ new = [Idle EXCEPT !.pc = "revoke_get_token", !.kind = "revoke",
                              !.dev = authSets[s].dev, !.set = s]
    BY <1>6, <1>t DEF StartRevoke
  <2>2. /\ new.pc = "revoke_get_token" /\ new.kind = "revoke" /\ new.set = s
        /\ new.dev = authSets[s].dev
    BY <2>1 DEF Idle
  <2> QED BY <1>0, <2>1, <2>2 DEF Here, Belongs
<1>7. ASSUME NEW d \in DeviceIds, StartDecommission(w, d) PROVE Situation(new)'
  <2> DEFINE old == [Idle EXCEPT !.kind = "decommission", !.dev = d]
  <2>1. new = Invalidating(old)
    BY <1>7, <1>t DEF StartDecommission
  <2>2. old \in WorkerType /\ old.kind = "decommission" /\ old.dev = d
    <3>1. "decommission" \in Kinds
      <4>1. Start(w, Invalidating(old)) /\ Invalidating(old).kind = "decommission"
        BY <1>7 DEF StartDecommission, Invalidating, AfterInvalidate, Idle
      <4> QED BY <4>1 DEF Start
    <3>2. Idle \in WorkerType
      BY IdleGood DEF Good
    <3>3. ASSUME NEW idle \in WorkerType, NEW kind \in Kinds, NEW e \in DeviceIds
          PROVE  [idle EXCEPT !.kind = kind, !.dev = e] \in WorkerType
      BY DEF WorkerType
    <3>4. old.kind = "decommission" /\ old.dev = d
      BY DEF Idle
    <3> QED BY <3>1, <3>2, <3>3, <3>4
  <2> HIDE DEF old
  <2>3. ToInvalidate(old)
    BY <1>0, <2>2 DEF ToInvalidate, AllProper, Others
  <2>4. Situation(new)
    BY <1>0, <2>1, <2>2, <2>3, AllFits DEF Fitting, FitsInvalidating
  <2> QED BY <2>4, FromIdle, SituationStays
<1>8. ASSUME NEW d \in DeviceIds, StartDeleteDevice(w, d) PROVE Here(new)
  <2>1. /\ d \in decommissions
        /\ new = [Idle EXCEPT !.pc = "delete_sets", !.kind = "delete_device", !.dev = d]
    BY <1>8, <1>t DEF StartDeleteDevice
  <2>2. new.pc = "delete_sets" /\ new.kind = "delete_device" /\ new.dev = d
    BY <2>1 DEF Idle
  <2> QED BY <2>1, <2>2 DEF Here
<1>9. ASSUME NEW d \in DeviceIds, StartDeleteTokens(w, d) PROVE Here(new)
  <2>1. new = [Idle EXCEPT !.pc = "delete_tokens", !.kind = "delete_tokens", !.dev = d]
    BY <1>9, <1>t DEF StartDeleteTokens
  <2>2. new.pc = "delete_tokens" /\ new.kind = "delete_tokens" /\ new.dev = d
    BY <2>1 DEF Idle
  <2> QED BY <2>2 DEF Here, BeforeDeleteTokens
<1>10. ASSUME NEW d \in DeviceIds, StartPatch(w, d) PROVE Here(new)
  <2>1. new = [Idle EXCEPT !.pc = "patch", !.kind = "patch", !.dev = d]
    BY <1>10, <1>t DEF StartPatch
  <2>2. new.pc = "patch"
    BY <2>1 DEF Idle
  <2> QED BY <2>2 DEF Here
<1> QED BY <1>1, <1>2, <1>3, <1>4, <1>5, <1>6, <1>7, <1>8, <1>9, <1>10, StartsWell DEF Arrival

\* Every step of a request.
LEMMA StepServes ==
    ASSUME NEW w \in Workers, NEW job \in WorkerType, NEW next \in WorkerType,
           Serving(w, job, next), Step(w)
    PROVE  Situation(next)'
<1>1. job = workers[w] /\ job.pc \notin {"upsert_set", "find_existing_device"}
  BY Around DEF Serving, Here
<1>2. CASE \/ FindPreauthorized(w) \/ GetPreauthorizedDevice(w) \/ CountAccepted(w)
           \/ RejectOthers(w) \/ UpdateSet(w) \/ UpdateDeviceWithRevision(w) \/ Submit(w)
  BY <1>2, FindPreauthorizedServes, GetPreauthorizedDeviceServes, CountAcceptedServes,
     RejectOthersServes, UpdateSetServes, UpdateDeviceServes, SubmitServes
<1>3. CASE \/ AddDevice(w) \/ FindDevice(w) \/ AddSet(w) \/ FindSet(w) \/ Aggregate(w)
           \/ AddToken(w) \/ CheckIn(w)
  BY <1>3, AddDeviceServes, FindDeviceServes, AddSetServes, FindSetServes, AggregateServes,
     AddTokenServes, CheckInServes
<1>4. CASE \/ Throttle(w) \/ GetToken(w) \/ GetSet(w) \/ GetDevice(w) \/ CacheToken(w)
           \/ Invalidate(w) \/ DeleteTokens(w) \/ RevokeGetToken(w) \/ DeleteToken(w)
  BY <1>4, ThrottleServes, GetTokenServes, GetSetServes, GetDeviceServes, CacheTokenServes,
     InvalidateServes, DeleteTokensServes, RevokeGetTokenServes, DeleteTokenServes
<1>5. CASE \/ StatusGetSet(w) \/ StatusGetDevice(w) \/ DeletionGetSet(w) \/ DeleteSet(w)
           \/ DeletionGetDevice(w) \/ SubmitGone(w) \/ DeleteDevice(w) \/ DeleteSets(w)
  BY <1>5, StatusGetSetServes, StatusGetDeviceServes, DeletionGetSetServes, DeleteSetServes,
     DeletionGetDeviceServes, SubmitGoneServes, DeleteDeviceServes, DeleteSetsServes
<1>6. CASE \/ Flag(w) \/ SubmitDecommission(w) \/ AddPreauthorizedDevice(w)
           \/ AddPreauthorizedSet(w) \/ Patch(w)
  BY <1>6, FlagServes, SubmitDecommissionServes, AddPreauthorizedDeviceServes,
     AddPreauthorizedSetServes, PatchServes
<1>7. ~FindExistingDevice(w) /\ ~UpsertSet(w)
  BY <1>1 DEF FindExistingDevice, UpsertSet, At
<1> QED BY <1>2, <1>3, <1>4, <1>5, <1>6, <1>7 DEF Step

---------------------------------------------------------------------------
(* The invariant of requests that come one after the other.                 *)

Alone(w, job) == Workers = {w} /\ workers[w] = job
SerialInv ==
    failures = 0 => \E w \in Workers, job \in WorkerType : Alone(w, job) /\ Situation(job)

\* Only failures are counted as such.
LEMMA FailuresCounted ==
    ASSUME Inv, [Next]_vars, failures' = 0
    PROVE  /\ failures = 0
           /\ UNCHANGED vars \/ (\E w \in Workers : Arrival(w) \/ Step(w))
                \/ (\E d \in DeviceIds : CacheExpires(d))
<1>1. failures \in Nat
  BY BoundsAssumption DEF Inv, TypeOK
<1>2. CASE UNCHANGED vars
  BY <1>2 DEF vars
<1>3. ASSUME NEW d \in DeviceIds, CacheExpires(d) PROVE failures = 0
  BY <1>3 DEF CacheExpires
<1>4. ASSUME NEW w \in Workers, Fail(w) PROVE FALSE
  BY <1>1, <1>4 DEF Fail
<1>5. ASSUME NEW w \in Workers, Arrival(w) PROVE failures = 0
  BY <1>5, ArrivalGood DEF Start
<1>6. ASSUME NEW w \in Workers, Step(w) PROVE failures = 0
  BY <1>6 DEF Step, ReadOnly, Unchanged, FindPreauthorized, GetPreauthorizedDevice,
       CountAccepted, RejectOthers, UpdateSet, UpdateDeviceWithRevision, Submit, AddDevice,
       FindDevice, AddSet, FindSet, Aggregate, AddToken, CheckIn, Throttle, GetToken, GetSet,
       GetDevice, CacheToken, Invalidate, DeleteTokens, DeleteToken, RevokeGetToken,
       StatusGetSet, StatusGetDevice, DeletionGetSet, DeleteSet, DeletionGetDevice, SubmitGone,
       DeleteDevice, DeleteSets, Flag, SubmitDecommission, AddPreauthorizedDevice,
       FindExistingDevice, AddPreauthorizedSet, UpsertSet, Patch
<1> QED BY <1>2, <1>3, <1>4, <1>5, <1>6 DEF Next

\* Every step keeps the invariant.
LEMMA SerialStep ==
    ASSUME Inv, SerialInv, [Next]_vars, "force" \notin Kinds PROVE SerialInv'
<1> SUFFICES ASSUME failures' = 0
             PROVE  (\E w \in Workers, job \in WorkerType : Alone(w, job) /\ Situation(job))'
  BY DEF SerialInv
<1>1. /\ failures = 0
      /\ UNCHANGED vars \/ (\E w \in Workers : Arrival(w) \/ Step(w))
           \/ (\E d \in DeviceIds : CacheExpires(d))
  BY FailuresCounted
<1>2. PICK w \in Workers, job \in WorkerType : Alone(w, job) /\ Situation(job)
  BY <1>1 DEF SerialInv
<1>3. Workers = {w} /\ workers[w] = job
  BY <1>2 DEF Alone
<1>4. TypeOK /\ SetsOK /\ TypeOK' /\ Good(job, Known)
  BY <1>3, InvStep DEF Inv, RequestsOK
<1>5. PICK next \in WorkerType : next = workers'[w]
  BY <1>4 DEF TypeOK
<1>6. SUFFICES Situation(next)'
  BY <1>3, <1>5 DEF Alone
<1>7. CASE UNCHANGED vars
  <2>1. next = job
    BY <1>3, <1>5, <1>7 DEF vars
  <2> QED BY <1>2, <1>7, <2>1, SituationStays DEF vars
<1>8. CASE Arrival(w)
  <2>1. Start(w, next)
    BY <1>4, <1>5, <1>8, ArrivalGood DEF Start, TypeOK, Inv
  <2>2. Arrived(w, job, next)
    BY <1>2, <1>3, <1>4, <2>1 DEF Arrived
  <2> QED BY <1>5, <1>8, <2>2, ArrivalServes
<1>9. CASE Step(w)
  <2>1. Serving(w, job, next)
    BY <1>2, <1>3, <1>4, <1>5 DEF Serving
  <2> QED BY <1>9, <2>1, StepServes
<1>10. ASSUME NEW d \in DeviceIds, CacheExpires(d) PROVE Situation(next)'
  <2>1. next = job
    BY <1>3, <1>5, <1>10 DEF CacheExpires
  <2> QED BY <1>2, <1>4, <1>10, <2>1, CacheExpiresServes
<1> QED BY <1>1, <1>3, <1>7, <1>8, <1>9, <1>10

\* At first there is nothing to be in order.
LEMMA SerialInit == ASSUME Init, NEW w, Workers = {w} PROVE SerialInv
<1>1. Idle \in WorkerType /\ Idle.pc = "idle" /\ workers[w] = Idle
  BY IdleGood DEF Init, Good, Idle
<1>2. /\ \A d \in DeviceIds : ~Stored(d) /\ cache[d] = NoToken
      /\ StoredSets = {} /\ decommissions = {}
  BY DEF Init, Stored, StoredSets, NoDeviceYet, NoSetYet
<1>3. World
  <2>1. AcceptedDevices = {}
    BY <1>2 DEF AcceptedDevices
  <2>2. LimitKept
    BY <2>1, FS_EmptySet, BoundsAssumption DEF LimitKept
  <2> QED BY <1>2, <2>2 DEF World, OneDevice, SetsHaveDevices, MarkedAreDeleted
<1>4. AllProper
  BY <1>2 DEF AllProper, Proper, Settled, CacheFine, Uncached, NoToken, SetIds
<1>5. Situation(Idle)
  BY <1>1, <1>3, <1>4, AllFits DEF Fitting, FitsPlain, PlainPCs
<1> QED BY <1>1, <1>5 DEF SerialInv, Alone

\* What the requests rely on holds, as long as none is cut short.
LEMMA Serially ==
    ASSUME NEW w, Workers = {w}, "force" \notin Kinds PROVE Spec => []SerialInv
<1>1. Init => Inv /\ SerialInv
  BY InvInit, SerialInit
<1>2. Inv /\ SerialInv /\ [Next]_vars => Inv' /\ SerialInv'
  BY InvStep, SerialStep
<1> QED BY <1>1, <1>2, PTL DEF Spec

\* Between requests everything is in order.
LEMMA BetweenRequests ==
    ASSUME SerialInv, AllIdle, failures = 0 PROVE World /\ AllProper
<1>1. PICK w \in Workers, job \in WorkerType : Alone(w, job) /\ Situation(job)
  BY DEF SerialInv
<1>2. job.pc = "idle"
  BY <1>1 DEF Alone, AllIdle, At
<1> QED BY <1>1, <1>2, Around DEF Loose

\* Between requests that come one after the other, none of which is cut short or
\* preauthorizes a device by force, every device has the status its sets give it, and at
\* most one of its sets is accepted, at most one preauthorized: whatever devices and
\* operators ask for, and however often.
THEOREM StatusFollows ==
    ASSUME NEW w, Workers = {w}, "force" \notin Kinds PROVE Spec => []StatusFollowsSets
<1>1. SerialInv => StatusFollowsSets
  <2> SUFFICES ASSUME SerialInv, AllIdle, failures = 0, NEW d \in DeviceIds, Stored(d)
               PROVE  ~Broken(d) /\ devices[d].status = Aggregated(d)
    BY DEF StatusFollowsSets
  <2>1. Whole(d) /\ devices[d].status = Heaviest(Marks(d))
    BY BetweenRequests DEF AllProper, Proper, Settled
  <2> QED BY <2>1, WholeIsNotBroken DEF Aggregated, Marks
<1> QED BY <1>1, Serially, PTL

\* Requests that come one after the other, none of which is cut short or preauthorizes by
\* force, never exceed the limit on accepted devices: not only between requests, but at
\* every step of every one, since whatever accepts a device has asked before.
THEOREM LimitNeverExceeded ==
    ASSUME NEW w, Workers = {w}, "force" \notin Kinds, MaxFailures = 0
    PROVE  Spec => []LimitRespected
<1>1. Inv /\ SerialInv => LimitRespected
  <2> SUFFICES ASSUME Inv, SerialInv PROVE LimitRespected
    OBVIOUS
  <2>1. failures = 0
    BY DEF Inv, TypeOK
  <2>2. World
    BY <2>1 DEF SerialInv, Situation
  <2> QED BY <2>2 DEF World, LimitKept, AcceptedDevices, LimitRespected
<1> QED BY <1>1, Serially, Invariance, PTL

---------------------------------------------------------------------------
(* What is cached is stored, as long as requests come one after the other, *)
(* none is cut short and none deletes the tokens of a device on demand     *)
(* (which leaves the cache alone).  A token that has expired takes the     *)
(* record of a younger one of its set with it.                             *)

\* The record of a cached token is there, or an expired token took it; a request that
\* deletes an accepted set deletes the records before it sees to the cache; and a token
\* that is about to be deleted is not cached, or its set has several.
Renewed(s) == Expiry /\ issued[s] = Several
Vouched(d) == cache[d] \in SetIds => cache[d] \in tokens \/ Renewed(cache[d])
Revoking(job, d) == job.pc = "invalidate" /\ job.kind = "delete_set" /\ d = job.dev
Doomed(job) == job.pc = "delete_token" => cache[job.dev] # job.set \/ Renewed(job.set)
RecordsKept(job) == (\A d \in DeviceIds : Vouched(d) \/ Revoking(job, d)) /\ Doomed(job)
RecordsInv == failures = 0 => \A w \in Workers : RecordsKept(workers[w])

\* Once a set has several tokens, it has.
StillRenewed == \A s \in SetIds : issued[s] = Several => issued'[s] = Several

\* A step that deletes no record, caches nothing and sends no request to delete a token.
LEMMA RecordsStay ==
    ASSUME NEW job, NEW next, RecordsKept(job), TypeOK, StillRenewed, tokens \subseteq tokens',
           \A d \in DeviceIds : cache'[d] = cache[d] \/ cache'[d] \notin SetIds,
           job.pc # "invalidate", next.pc # "delete_token"
    PROVE  RecordsKept(next)'
<1>1. ASSUME NEW d \in DeviceIds PROVE Vouched(d)'
  BY <1>1 DEF RecordsKept, Vouched, Revoking, Renewed, StillRenewed
<1> QED BY <1>1 DEF RecordsKept, Doomed

\* The same request, when only the cache forgets.
LEMMA RecordsForgotten ==
    ASSUME NEW job \in WorkerType, RecordsKept(job), UNCHANGED <<tokens, issued>>,
           \A d \in DeviceIds : cache'[d] = cache[d] \/ cache'[d] \notin SetIds,
           job.pc = "delete_token" => job.set \in SetIds /\ job.dev \in DeviceIds
    PROVE  RecordsKept(job)'
<1>1. ASSUME NEW d \in DeviceIds PROVE Vouched(d)' \/ Revoking(job, d)
  BY <1>1 DEF RecordsKept, Vouched, Renewed
<1>2. Doomed(job)'
  BY DEF RecordsKept, Doomed, Renewed
<1> QED BY <1>1, <1>2 DEF RecordsKept, Revoking

\* Where requests go on is not the deletion of a token, unless it is to be revoked.
LEMMA SparingContinuations ==
    ASSUME NEW job, "pc" \in DOMAIN job
    PROVE /\ Idle.pc # "delete_token" /\ DeviceDone(job).pc # "delete_token"
          /\ BeginDeviceUpdate(job).pc # "delete_token" /\ SetKnown(job).pc # "delete_token"
          /\ Admit(job).pc # "delete_token" /\ AfterSetUpdate(job).pc # "delete_token"
          /\ AfterSetDeletion(job).pc # "delete_token"
          /\ job.kind # "revoke" => /\ AfterInvalidate(job).pc # "delete_token"
                                    /\ Invalidating(job).pc # "delete_token"
                                    /\ BeginSetUpdate(job).pc # "delete_token"
                                    /\ AfterTokens(job).pc # "delete_token"
<1>1. \A pc : [job EXCEPT !.pc = pc].pc = pc
  OBVIOUS
<1>2. Idle.pc # "delete_token"
  BY DEF Idle
<1>3. DeviceDone(job).pc # "delete_token"
  BY <1>1, <1>2 DEF DeviceDone
<1>4. BeginDeviceUpdate(job).pc # "delete_token"
  BY <1>1, <1>3 DEF BeginDeviceUpdate
<1>5. SetKnown(job).pc # "delete_token"
  BY <1>1, <1>3 DEF SetKnown
<1>6. Admit(job).pc # "delete_token"
  BY <1>1 DEF Admit
<1>7. job.kind # "revoke" => AfterInvalidate(job).pc # "delete_token"
  BY <1>1, <1>2 DEF AfterInvalidate
<1>8. job.kind # "revoke" => Invalidating(job).pc # "delete_token"
  BY <1>1, <1>7 DEF Invalidating
<1>9. job.kind # "revoke" => BeginSetUpdate(job).pc # "delete_token"
  BY <1>1, <1>8 DEF BeginSetUpdate
<1>10. AfterSetUpdate(job).pc # "delete_token"
  BY <1>1, <1>2, <1>4 DEF AfterSetUpdate
<1>11. AfterSetDeletion(job).pc # "delete_token"
  BY <1>1 DEF AfterSetDeletion
<1>12. job.kind # "revoke" => AfterTokens(job).pc # "delete_token"
  BY <1>1, <1>2, <1>8 DEF AfterTokens
<1> QED BY <1>2, <1>3, <1>4, <1>5, <1>6, <1>7, <1>8, <1>9, <1>10, <1>11, <1>12

\* A step of a request that has nothing to do with the cache, nor deletes a token.
Sparing(w) ==
    /\ UNCHANGED cache /\ tokens \subseteq tokens' /\ workers[w].pc # "invalidate"
    /\ \E new : Continue(w, new) /\ new.pc # "delete_token"

\* Admission.
LEMMA AdmittingSpares == ASSUME TypeOK, NEW w \in Workers, Admitting(w) PROVE Sparing(w)
<1> DEFINE job == workers[w]
<1>0. job \in WorkerType /\ "pc" \in DOMAIN job
  BY DEF TypeOK, WorkerType
<1>s. ASSUME NEW new, new.pc # "delete_token", Continue(w, new), job.pc # "invalidate",
             UNCHANGED <<cache, tokens>>
      PROVE Sparing(w)
  BY <1>s DEF Sparing
<1>1. CASE FindPreauthorized(w)
  <2>1. \A s : [WithSet(job, s) EXCEPT !.pc = "get_preauthorized_device",
                                       !.dev = authSets[s].dev].pc
               = "get_preauthorized_device"
    BY <1>0 DEF WithSet, WorkerType
  <2>2. [job EXCEPT !.pc = "add_device", !.new = NoStatus].pc = "add_device"
    BY <1>0 DEF WorkerType
  <2> QED BY <1>1, <1>s, <2>1, <2>2 DEF FindPreauthorized, At, ReadOnly, store
<1>2. CASE GetPreauthorizedDevice(w)
  <2>1. "pc" \in DOMAIN WithDevice(job, job.dev)
    BY <1>0 DEF WithDevice, WorkerType
  <2> QED BY <1>2, <1>s, <2>1, SparingContinuations
          DEF GetPreauthorizedDevice, At, ReadOnly, store
<1>3. CASE CountAccepted(w)
  <2>1. [job EXCEPT !.pc = "reject_others"].pc = "reject_others"
    BY <1>0
  <2> QED BY <1>3, <1>s, <2>1, SparingContinuations, <1>0 DEF CountAccepted, At, ReadOnly, store
<1>4. CASE RejectOthers(w)
  <2>1. [job EXCEPT !.pc = "update_set"].pc = "update_set"
    BY <1>0
  <2> QED BY <1>4, <1>s, <2>1 DEF RejectOthers, At
<1>5. CASE UpdateSet(w)
  <2>1. "pc" \in DOMAIN [job EXCEPT !.sstatus = job.new]
    BY <1>0 DEF WorkerType
  <2> QED BY <1>5, <1>s, <2>1, SparingContinuations DEF UpdateSet, At
<1>6. CASE UpdateDeviceWithRevision(w)
  <2>1. [job EXCEPT !.pc = "submit", !.dstatus = job.new, !.revision = job.revision + 1].pc
          = "submit"
    BY <1>0 DEF WorkerType
  <2> QED BY <1>6, <1>s, <2>1, <1>0, SparingContinuations DEF UpdateDeviceWithRevision, At
<1>7. CASE Submit(w)
  BY <1>7, <1>s, <1>0, SparingContinuations DEF Submit, At
<1> QED BY <1>1, <1>2, <1>3, <1>4, <1>5, <1>6, <1>7 DEF Admitting

\* The device and the set of a request, and the token it hands out.
LEMMA AskingSpares == ASSUME TypeOK, NEW w \in Workers, Asking(w) PROVE Sparing(w)
<1> DEFINE job == workers[w]
<1>0. job \in WorkerType /\ "pc" \in DOMAIN job
  BY DEF TypeOK, WorkerType
<1>p. /\ \A pc : [job EXCEPT !.pc = pc].pc = pc
      /\ Idle.pc # "delete_token"
  BY <1>0 DEF Idle
<1>s. ASSUME NEW new, new.pc # "delete_token", Continue(w, new), job.pc # "invalidate",
             UNCHANGED cache, tokens \subseteq tokens'
      PROVE Sparing(w)
  BY <1>s DEF Sparing
<1>1. CASE AddDevice(w)
  BY <1>1, <1>s, <1>p DEF AddDevice, At
<1>2. CASE FindDevice(w)
  <2>1. \A d : [WithDevice(job, d) EXCEPT !.pc = "add_set"].pc = "add_set"
    BY <1>0 DEF WithDevice, WorkerType
  <2> QED BY <1>2, <1>s, <2>1, <1>p DEF FindDevice, At, ReadOnly, store
<1>3. CASE AddSet(w)
  <2>1. "pc" \in DOMAIN [job EXCEPT !.set = Least(NewSets), !.sstatus = "pending"]
    BY <1>0 DEF WorkerType
  <2> QED BY <1>3, <1>s, <1>p, <2>1, SparingContinuations DEF AddSet, At
<1>4. CASE FindSet(w)
  <2>1. \A s : "pc" \in DOMAIN WithSet(job, s)
    BY <1>0 DEF WithSet, WorkerType
  <2> QED BY <1>4, <1>s, <1>p, <2>1, SparingContinuations DEF FindSet, At, ReadOnly, store
<1>5. CASE Aggregate(w)
  <2> DEFINE new == [job EXCEPT !.new = Aggregated(job.dev)]
  <2>1. "pc" \in DOMAIN new
    BY <1>0 DEF WorkerType
  <2>2. \E next : Continue(w, next) /\ next.pc # "delete_token"
    <3> HIDE DEF new
    <3>1. \A pc : [new EXCEPT !.pc = pc].pc = pc
      BY <2>1
    <3>2. \/ Continue(w, Idle) \/ Continue(w, BeginDeviceUpdate(new))
          \/ Continue(w, [new EXCEPT !.pc = "submit_gone"])
          \/ Continue(w, [new EXCEPT !.pc = "deletion_get_device"])
      BY <1>5 DEF Aggregate, new
    <3> QED BY <1>p, <2>1, <3>1, <3>2, SparingContinuations
  <2> QED BY <1>5, <1>s, <2>2 DEF Aggregate, At, ReadOnly, store
<1>6. CASE AddToken(w)
  BY <1>6, <1>s, <1>p DEF AddToken, At
<1>7. CASE CheckIn(w)
  BY <1>7, <1>s, <1>p DEF CheckIn, At
<1> QED BY <1>1, <1>2, <1>3, <1>4, <1>5, <1>6, <1>7 DEF Asking

\* The status of a set, and deletions.
LEMMA ChangingSpares ==
    ASSUME TypeOK, NEW w \in Workers, Changing(w), Here(workers[w]) PROVE Sparing(w)
<1> DEFINE job == workers[w]
<1>0. job \in WorkerType /\ "pc" \in DOMAIN job
  BY DEF TypeOK, WorkerType
<1>p. /\ \A pc : [job EXCEPT !.pc = pc].pc = pc
      /\ Idle.pc # "delete_token"
  BY <1>0 DEF Idle
<1>s. ASSUME NEW new, new.pc # "delete_token", Continue(w, new), job.pc # "invalidate",
             UNCHANGED <<cache, tokens>>
      PROVE Sparing(w)
  BY <1>s DEF Sparing
<1>1. CASE StatusGetSet(w)
  <2>1. [WithSet(job, job.set) EXCEPT !.pc = "status_get_device"].pc = "status_get_device"
    BY <1>0 DEF WithSet, WorkerType
  <2> QED BY <1>1, <1>s, <1>p, <2>1 DEF StatusGetSet, At, ReadOnly, store
<1>2. CASE StatusGetDevice(w)
  <2> DEFINE copy == WithDevice(job, job.dev)
             new == [copy EXCEPT !.changes = MayChange(copy)]
  <2>0. job.kind = "set_status"
    BY <1>2 DEF StatusGetDevice, At, Here
  <2>c. "pc" \in DOMAIN copy /\ copy.kind = "set_status" /\ "kind" \in DOMAIN copy
    BY <1>0, <2>0 DEF WithDevice, WorkerType
  <2>1. "pc" \in DOMAIN new /\ new.kind = "set_status"
    <3> HIDE DEF copy
    <3> QED BY <2>c
  <2>2. Continue(w, Idle) \/ Continue(w, Admit(new)) \/ Continue(w, BeginSetUpdate(new))
    BY <1>2 DEF StatusGetDevice
  <2> HIDE DEF new
  <2> QED BY <1>2, <1>s, <1>p, <2>1, <2>2, SparingContinuations
          DEF StatusGetDevice, At, ReadOnly, store
<1>3. CASE DeletionGetSet(w)
  <2>1. [WithSet(job, job.set) EXCEPT !.pc = "delete_set"].pc = "delete_set"
    BY <1>0 DEF WithSet, WorkerType
  <2> QED BY <1>3, <1>s, <1>p, <2>1 DEF DeletionGetSet, At, ReadOnly, store
<1>4. CASE DeleteSet(w)
  BY <1>4, <1>s, <1>p, <1>0, SparingContinuations DEF DeleteSet, At
<1>5. CASE DeletionGetDevice(w)
  <2>1. "pc" \in DOMAIN WithDevice(job, job.dev)
    BY <1>0 DEF WithDevice, WorkerType
  <2> QED BY <1>5, <1>s, <1>p, <2>1, SparingContinuations
          DEF DeletionGetDevice, At, ReadOnly, store
<1>6. CASE SubmitGone(w)
  BY <1>6, <1>s, <1>p DEF SubmitGone, At
<1>7. CASE DeleteDevice(w)
  BY <1>7, <1>s, <1>p DEF DeleteDevice, At
<1>8. CASE DeleteSets(w)
  BY <1>8, <1>s, <1>p DEF DeleteSets, At
<1>9. CASE Flag(w)
  BY <1>9, <1>s, <1>p DEF Flag, At
<1>10. CASE SubmitDecommission(w)
  BY <1>10, <1>s, <1>p DEF SubmitDecommission, At
<1> QED BY <1>1, <1>2, <1>3, <1>4, <1>5, <1>6, <1>7, <1>8, <1>9, <1>10 DEF Changing

\* Preauthorization, and the job provision_device.
LEMMA PreauthorizingSpares ==
    ASSUME TypeOK, NEW w \in Workers, Preauthorizing(w) PROVE Sparing(w)
<1> DEFINE job == workers[w]
<1>0. job \in WorkerType /\ "pc" \in DOMAIN job
  BY DEF TypeOK, WorkerType
<1>p. /\ \A pc : [job EXCEPT !.pc = pc].pc = pc
      /\ Idle.pc # "delete_token"
  BY <1>0 DEF Idle
<1>s. ASSUME NEW new, new.pc # "delete_token", Continue(w, new), job.pc # "invalidate",
             UNCHANGED <<cache, tokens>>
      PROVE Sparing(w)
  BY <1>s DEF Sparing
<1>1. CASE AddPreauthorizedDevice(w)
  <2> DEFINE next == IF job.kind = "force" THEN [job EXCEPT !.pc = "find_existing_device"] ELSE Idle
             new == [job EXCEPT !.pc = "add_preauthorized_set", !.dev = Least(NewDevices),
                                !.dstatus = "preauthorized", !.revision = 1]
  <2>1. new.pc # "delete_token" /\ next.pc # "delete_token"
    BY <1>0, <1>p DEF WorkerType
  <2>2. Continue(w, next) \/ Continue(w, new) \/ Continue(w, Idle)
    BY <1>1 DEF AddPreauthorizedDevice
  <2> HIDE DEF next, new
  <2> QED BY <1>1, <1>s, <1>p, <2>1, <2>2 DEF AddPreauthorizedDevice, At
<1>2. CASE FindExistingDevice(w)
  <2>1. \A d : [job EXCEPT !.pc = "upsert_set", !.dev = d].pc = "upsert_set"
    BY <1>0 DEF WorkerType
  <2> QED BY <1>2, <1>s, <1>p, <2>1 DEF FindExistingDevice, At, ReadOnly, store
<1>3. CASE AddPreauthorizedSet(w)
  <2>1. [job EXCEPT !.pc = "submit", !.set = Least(NewSets), !.sstatus = "preauthorized"].pc
          # "delete_token"
    BY <1>0 DEF WorkerType
  <2> QED BY <1>3, <1>s, <1>p, <2>1 DEF AddPreauthorizedSet, At
<1>4. CASE UpsertSet(w)
  BY <1>4, <1>s, <1>p DEF UpsertSet, At
<1>5. CASE Patch(w)
  BY <1>5, <1>s, <1>p DEF Patch, At
<1> QED BY <1>1, <1>2, <1>3, <1>4, <1>5 DEF Preauthorizing

\* A request that arrives neither deletes a token at once nor anything else.
LEMMA ArrivalSpares ==
    ASSUME TypeOK, NEW w \in Workers, Arrival(w)
    PROVE  workers[w].pc # "invalidate" /\ workers'[w].pc # "delete_token"
           /\ UNCHANGED <<cache, tokens, issued>>
<1> DEFINE P == workers[w].pc # "invalidate" /\ workers'[w].pc # "delete_token"
                /\ UNCHANGED <<cache, tokens, issued>>
<1>s. ASSUME NEW job, job.pc # "delete_token", Start(w, job) PROVE P
  BY <1>s DEF Start, At, store, TypeOK
<1> HIDE DEF P
<1>1. ASSUME NEW identity, NEW key, StartAuth(w, identity, key) PROVE P
  BY <1>1, <1>s DEF StartAuth, Idle
<1>2. ASSUME NEW kind, NEW identity, NEW key, StartPreauthorize(w, kind, identity, key) PROVE P
  BY <1>2, <1>s DEF StartPreauthorize, Idle
<1>3. ASSUME NEW s, StartVerify(w, s) PROVE P
  BY <1>3, <1>s DEF StartVerify, Idle
<1>4. ASSUME NEW s, NEW status, StartSetStatus(w, s, status) PROVE P
  BY <1>4, <1>s DEF StartSetStatus, Idle
<1>5. ASSUME NEW s, StartDeleteSet(w, s) PROVE P
  BY <1>5, <1>s DEF StartDeleteSet, Idle
<1>6. ASSUME NEW s, StartRevoke(w, s) PROVE P
  BY <1>6, <1>s DEF StartRevoke, Idle
<1>7. ASSUME NEW d, StartDecommission(w, d) PROVE P
  <2> DEFINE job == [Idle EXCEPT !.kind = "decommission", !.dev = d]
  <2>1. "pc" \in DOMAIN job /\ job.kind # "revoke"
    BY DEF Idle
  <2>2. Start(w, Invalidating(job))
    BY <1>7 DEF StartDecommission
  <2> HIDE DEF job
  <2> QED BY <2>1, <2>2, <1>s, SparingContinuations
<1>8. ASSUME NEW d, StartDeleteDevice(w, d) PROVE P
  BY <1>8, <1>s DEF StartDeleteDevice, Idle
<1>9. ASSUME NEW d, StartDeleteTokens(w, d) PROVE P
  BY <1>9, <1>s DEF StartDeleteTokens, Idle
<1>10. ASSUME NEW d, StartPatch(w, d) PROVE P
  BY <1>10, <1>s DEF StartPatch, Idle
<1>11. P
  BY <1>1, <1>2, <1>3, <1>4, <1>5, <1>6, <1>7, <1>8, <1>9, <1>10 DEF Arrival
<1> QED BY <1>11 DEF P

\* Throttle: a token that is not cached, or one of several.
LEMMA ThrottleKeepsRecords ==
    ASSUME NEW w \in Workers, NEW job \in WorkerType, NEW next \in WorkerType,
           Serving(w, job, next), Throttle(w), RecordsKept(job)
    PROVE  RecordsKept(next)'
<1>1. /\ job = workers[w] /\ job.pc = "throttle" /\ UNCHANGED <<cache, tokens, issued>>
  BY DEF Serving, Throttle, At, ReadOnly, store
<1>2. AllProper /\ Belongs(job.set, job.dev)
  BY <1>1, Around DEF Serving, Loose, Here
<1>3. job.set \in SetIds /\ job.dev \in DeviceIds
  BY <1>1 DEF Serving, Good, KindOK, Allowed, Verifies
<1>4. ASSUME NEW d \in DeviceIds PROVE Vouched(d)'
  BY <1>1, <1>4 DEF RecordsKept, Vouched, Revoking, Renewed
<1>5. PICK token \in CheckToken(job) :
        LET after == [job EXCEPT !.cached = token]
        IN \/ after.cached = after.set /\ Continue(w, [after EXCEPT !.pc = "check_in"])
           \/ after.cached # after.set /\ Continue(w, [after EXCEPT !.pc = "get_token"])
           \/ after.cached # after.set /\ Expiry /\ Continue(w, [after EXCEPT !.pc = "delete_token"])
  BY <1>1 DEF Throttle
<1>c. token \in CacheType
  BY <1>3, <1>5 DEF CheckToken, CacheType
<1>6. PICK copy \in WorkerType :
        /\ copy = [job EXCEPT !.cached = token] /\ copy.cached = token
        /\ copy.dev = job.dev /\ copy.set = job.set /\ copy.kind = job.kind
  BY <1>c, CopyOfToken
<1>7. \/ next = [copy EXCEPT !.pc = "check_in"]
      \/ next = [copy EXCEPT !.pc = "get_token"]
      \/ copy.cached # copy.set /\ Expiry /\ next = [copy EXCEPT !.pc = "delete_token"]
  BY <1>5, <1>6, NextIs
<1>8. CASE next = [copy EXCEPT !.pc = "check_in"] \/ next = [copy EXCEPT !.pc = "get_token"]
  <2>1. next.pc # "delete_token"
    BY <1>8 DEF WorkerType
  <2> QED BY <1>4, <2>1 DEF RecordsKept, Doomed
<1>9. CASE copy.cached # copy.set /\ Expiry /\ next = [copy EXCEPT !.pc = "delete_token"]
  <2>1. next.set = job.set /\ next.dev = job.dev
    BY <1>6, <1>9, GotoFields DEF Goto
  <2>2. cache[job.dev] # job.set \/ issued[job.set] = Several
    <3>1. CASE CacheOn
      BY <1>5, <1>6, <1>9, <3>1 DEF CheckToken
    <3>2. CASE ~CacheOn
      BY <1>2, <1>3, <3>2 DEF AllProper, Proper, CacheFine, OwnToken, Uncached
    <3> QED BY <3>1, <3>2
  <2>3. Doomed(next)'
    BY <1>1, <1>9, <2>1, <2>2 DEF Doomed, Renewed
  <2> QED BY <1>4, <2>3 DEF RecordsKept
<1> QED BY <1>7, <1>8, <1>9

\* cacheSetToken: the record of the token is there.
LEMMA CacheTokenKeepsRecords ==
    ASSUME NEW w \in Workers, NEW job \in WorkerType, NEW next \in WorkerType,
           Serving(w, job, next), CacheToken(w), RecordsKept(job)
    PROVE  RecordsKept(next)'
<1>1. /\ job = workers[w] /\ job.pc = "cache_token"
      /\ cache' = [cache EXCEPT ![job.dev] = job.set]
      /\ Continue(w, Idle) /\ UNCHANGED <<tokens, issued>>
  BY DEF Serving, CacheToken, At, Unchanged
<1>2. job.set \in tokens
  BY <1>1, Around DEF Serving, Loose, Here, ToBeCached, Verified
<1>3. ASSUME NEW d \in DeviceIds PROVE Vouched(d)'
  <2>1. cache'[d] = job.set \/ cache'[d] = cache[d]
    BY <1>1 DEF Serving, TypeOK
  <2>2. Vouched(d)
    BY <1>1 DEF RecordsKept, Revoking
  <2> QED BY <1>1, <1>2, <2>1, <2>2 DEF Vouched, Renewed
<1>4. next.pc # "delete_token"
  BY <1>1, NextIs DEF Idle
<1> QED BY <1>3, <1>4 DEF RecordsKept, Doomed

\* DeleteToken of the cache.
LEMMA InvalidateKeepsRecords ==
    ASSUME NEW w \in Workers, NEW job \in WorkerType, NEW next \in WorkerType,
           Serving(w, job, next), Invalidate(w), RecordsKept(job)
    PROVE  RecordsKept(next)'
<1>1. /\ job = workers[w] /\ job.pc = "invalidate"
      /\ cache' = [cache EXCEPT ![job.dev] = Marker]
      /\ Continue(w, AfterInvalidate(job)) /\ UNCHANGED <<tokens, issued>>
  BY DEF Serving, Invalidate, At, Unchanged
<1>2. BeforeInvalidate(job)
  BY <1>1, Around DEF Serving, Here
<1>3. job.dev \in DeviceIds /\ cache \in [DeviceIds -> CacheType]
  BY <1>2 DEF BeforeInvalidate, Serving, TypeOK
<1>4. cache'[job.dev] = Marker /\ \A d \in DeviceIds : d # job.dev => cache'[d] = cache[d]
  BY <1>1, <1>3
<1>5. Marker \notin SetIds
  BY SizesAssumption DEF Marker, SetIds
<1>6. ASSUME NEW d \in DeviceIds PROVE Vouched(d)'
  <2>1. d # job.dev => Vouched(d)
    BY DEF RecordsKept, Revoking
  <2> QED BY <1>1, <1>4, <1>5, <2>1 DEF Vouched, Renewed
<1>7. next = AfterInvalidate(job)
  BY <1>1, NextIs
<1>8. CASE job.kind # "revoke"
  <2>1. next.pc # "delete_token"
    BY <1>7, <1>8, SparingContinuations DEF WorkerType
  <2> QED BY <1>6, <2>1 DEF RecordsKept, Doomed
<1>9. CASE job.kind = "revoke"
  <2>1. Goto(next, job, "delete_token")
    BY <1>7, <1>9, GotoFields DEF AfterInvalidate
  <2>2. job.set \in SetIds
    BY <1>2, <1>9 DEF BeforeInvalidate, Belongs, Known
  <2>3. Doomed(next)'
    BY <1>4, <1>5, <2>1, <2>2 DEF Doomed, Goto
  <2> QED BY <1>6, <2>3 DEF RecordsKept
<1> QED BY <1>8, <1>9

\* DeleteTokenByDevId: nothing is cached of the device, or its cached token goes next.
LEMMA DeleteTokensKeepsRecords ==
    ASSUME NEW w \in Workers, NEW job \in WorkerType, NEW next \in WorkerType,
           Serving(w, job, next), DeleteTokens(w), RecordsKept(job), "delete_tokens" \notin Kinds
    PROVE  RecordsKept(next)'
<1>1. /\ job = workers[w] /\ job.pc = "delete_tokens"
      /\ tokens' = {s \in tokens : authSets[s].dev # job.dev}
      /\ Continue(w, AfterTokens(job)) /\ UNCHANGED <<cache, issued>>
  BY DEF Serving, DeleteTokens, At, Unchanged
<1>2. /\ Others(job) /\ BeforeDeleteTokens(job)
      /\ job.kind \in {"set_status", "delete_set", "delete_device"}
  <2>1. Others(job) /\ BeforeDeleteTokens(job)
    BY <1>1, Around DEF Serving, Here
  <2>2. job.kind \in Kinds \union {"none"}
    BY DEF WorkerType
  <2> QED BY <2>1, <2>2 DEF BeforeDeleteTokens
<1>3. ASSUME NEW d \in DeviceIds, d # job.dev PROVE Vouched(d)'
  <2>1. Vouched(d) /\ CacheFine(d)
    BY <1>1, <1>2, <1>3 DEF RecordsKept, Revoking, Others, Proper
  <2> QED BY <1>1, <1>3, <2>1 DEF Vouched, Renewed, CacheFine, Uncached, OwnToken, Belongs
<1>4. next = AfterTokens(job)
  BY <1>1, NextIs
<1>5. next.pc # "delete_token"
  BY <1>2, <1>4, SparingContinuations DEF WorkerType
<1>6. CASE Uncached(job.dev)
  <2>1. ASSUME NEW d \in DeviceIds PROVE Vouched(d)'
    BY <1>1, <1>3, <1>6, <2>1 DEF Vouched, Uncached
  <2> QED BY <1>5, <2>1 DEF RecordsKept, Doomed
<1>7. CASE ~Uncached(job.dev)
  <2>1. job.kind = "delete_set" /\ CacheOn
    BY <1>2, <1>7 DEF BeforeDeleteTokens
  <2>2. Goto(next, job, "invalidate")
    BY <1>4, <2>1, GotoFields DEF AfterTokens, Invalidating
  <2>3. ASSUME NEW d \in DeviceIds PROVE Vouched(d)' \/ Revoking(next, d)
    BY <1>3, <2>1, <2>2, <2>3 DEF Revoking, Goto
  <2> QED BY <1>5, <2>3 DEF RecordsKept, Doomed, Revoking
<1> QED BY <1>6, <1>7

\* RevokeToken looks the token up.
LEMMA RevokeGetTokenKeepsRecords ==
    ASSUME NEW w \in Workers, NEW job \in WorkerType, NEW next \in WorkerType,
           Serving(w, job, next), RevokeGetToken(w), RecordsKept(job)
    PROVE  RecordsKept(next)'
<1>1. /\ job = workers[w] /\ job.pc = "revoke_get_token"
      /\ Continue(w, Idle) \/ Continue(w, Invalidating(job))
      /\ UNCHANGED <<cache, tokens, issued>>
  BY DEF Serving, RevokeGetToken, At, ReadOnly, store
<1>2. AllProper /\ Belongs(job.set, job.dev) /\ job.kind = "revoke"
  BY <1>1, Around DEF Serving, Loose, Here
<1>3. ASSUME NEW d \in DeviceIds PROVE Vouched(d)'
  BY <1>1, <1>3 DEF RecordsKept, Vouched, Revoking, Renewed
<1>4. next = Idle \/ next = Invalidating(job)
  BY <1>1, NextIs
<1>5. CASE next = Idle \/ CacheOn
  <2>1. CacheOn => Goto(Invalidating(job), job, "invalidate")
    BY GotoFields DEF Invalidating
  <2>2. next.pc # "delete_token"
    BY <1>4, <1>5, <2>1 DEF Idle, Goto
  <2> QED BY <1>3, <2>2 DEF RecordsKept, Doomed
<1>6. CASE next = Invalidating(job) /\ ~CacheOn
  <2>1. Goto(next, job, "delete_token")
    BY <1>2, <1>6, GotoFields DEF Invalidating, AfterInvalidate
  <2>2. job.set \in SetIds /\ job.dev \in DeviceIds
    BY <1>2 DEF Belongs, Known, Serving, SetsOK
  <2>3. cache[job.dev] # job.set
    BY <1>2, <1>6, <2>2 DEF AllProper, Proper, CacheFine, OwnToken, Uncached
  <2>4. Doomed(next)'
    BY <1>1, <2>1, <2>3 DEF Doomed, Goto
  <2> QED BY <1>3, <2>4 DEF RecordsKept
<1> QED BY <1>4, <1>5, <1>6

\* DeleteToken: the record is not that of a cached token, or its set has several.
LEMMA DeleteTokenKeepsRecords ==
    ASSUME NEW w \in Workers, NEW job \in WorkerType, NEW next \in WorkerType,
           Serving(w, job, next), DeleteToken(w), RecordsKept(job)
    PROVE  RecordsKept(next)'
<1>1. /\ job = workers[w] /\ job.pc = "delete_token" /\ tokens' = tokens \ {job.set}
      /\ Continue(w, Idle) /\ UNCHANGED <<cache, issued>>
  BY DEF Serving, DeleteToken, At, Unchanged
<1>2. AllProper /\ Belongs(job.set, job.dev) /\ Doomed(job)
  BY <1>1, Around DEF Serving, Loose, Here, RecordsKept
<1>3. ASSUME NEW d \in DeviceIds PROVE Vouched(d)'
  <2>1. Vouched(d) /\ CacheFine(d)
    BY <1>1, <1>2 DEF RecordsKept, Revoking, AllProper, Proper
  <2>2. ASSUME cache[d] \in SetIds, cache[d] = job.set PROVE Renewed(cache[d])
    <3>1. d = job.dev
      BY <1>2, <2>1, <2>2 DEF CacheFine, Uncached, OwnToken, Belongs
    <3> QED BY <1>1, <1>2, <2>2, <3>1 DEF Doomed
  <2> QED BY <1>1, <2>1, <2>2 DEF Vouched, Renewed
<1>4. next.pc # "delete_token"
  BY <1>1, NextIs DEF Idle
<1> QED BY <1>3, <1>4 DEF RecordsKept, Doomed

\* Tokens.
LEMMA CheckingKeepsRecords ==
    ASSUME NEW w \in Workers, NEW job \in WorkerType, NEW next \in WorkerType,
           Serving(w, job, next), Checking(w), RecordsKept(job), "delete_tokens" \notin Kinds
    PROVE  RecordsKept(next)'
<1>0. job = workers[w] /\ TypeOK /\ "pc" \in DOMAIN job
  BY DEF Serving, WorkerType
<1>p. /\ \A pc : [job EXCEPT !.pc = pc].pc = pc
      /\ Idle.pc # "delete_token"
  BY <1>0 DEF Idle
<1>s. ASSUME NEW new, new.pc # "delete_token", Continue(w, new), job.pc # "invalidate", ReadOnly
      PROVE RecordsKept(next)'
  <2>1. next = new
    BY <1>s, NextIs
  <2>2. StillRenewed /\ tokens' = tokens /\ cache' = cache
    BY <1>s DEF ReadOnly, StillRenewed, store
  <2> QED BY <1>0, <1>s, <2>1, <2>2, RecordsStay
<1>1. CASE GetToken(w)
  BY <1>0, <1>1, <1>s, <1>p DEF GetToken, At
<1>2. CASE GetSet(w)
  <2>1. [WithSet(job, job.set) EXCEPT !.pc = "get_device"].pc = "get_device"
    BY DEF WithSet, WorkerType
  <2> QED BY <1>0, <1>2, <1>s, <1>p, <2>1 DEF GetSet, At
<1>3. CASE GetDevice(w)
  BY <1>0, <1>3, <1>s, <1>p DEF GetDevice, At
<1> QED BY <1>1, <1>2, <1>3, ThrottleKeepsRecords, CacheTokenKeepsRecords, InvalidateKeepsRecords,
           DeleteTokensKeepsRecords, RevokeGetTokenKeepsRecords, DeleteTokenKeepsRecords
        DEF Checking

\* Tokens of a set are counted, and the count of several stays.
LEMMA TokensCounted == ASSUME TypeOK, [Next]_vars PROVE StillRenewed
<1>1. CASE UNCHANGED issued
  BY <1>1 DEF StillRenewed
<1>2. ASSUME NEW w \in Workers, CheckIn(w) PROVE StillRenewed
  BY <1>2, OneMoreCounts DEF CheckIn, StillRenewed
<1>3. ASSUME NEW w \in Workers, Step(w) PROVE CheckIn(w) \/ UNCHANGED issued
  BY <1>3 DEF Step, ReadOnly, Unchanged, FindPreauthorized, GetPreauthorizedDevice,
       CountAccepted, RejectOthers, UpdateSet, UpdateDeviceWithRevision, Submit, AddDevice,
       FindDevice, AddSet, FindSet, Aggregate, AddToken, Throttle, GetToken, GetSet, GetDevice,
       CacheToken, Invalidate, DeleteTokens, DeleteToken, RevokeGetToken, StatusGetSet,
       StatusGetDevice, DeletionGetSet, DeleteSet, DeletionGetDevice, SubmitGone, DeleteDevice,
       DeleteSets, Flag, SubmitDecommission, AddPreauthorizedDevice, FindExistingDevice,
       AddPreauthorizedSet, UpsertSet, Patch
<1>4. ASSUME NEW w \in Workers, Arrival(w) \/ Fail(w) PROVE UNCHANGED issued
  BY <1>4, ArrivalSpares DEF Fail
<1> QED BY <1>1, <1>2, <1>3, <1>4 DEF Next, vars, CacheExpires

\* Every step keeps the records of what is cached.
LEMMA RecordsStep ==
    ASSUME Inv, SerialInv, RecordsInv, [Next]_vars, "delete_tokens" \notin Kinds
    PROVE  RecordsInv'
<1> SUFFICES ASSUME failures' = 0 PROVE (\A w \in Workers : RecordsKept(workers[w]))'
  BY DEF RecordsInv
<1>1. /\ failures = 0
      /\ UNCHANGED vars \/ (\E w \in Workers : Arrival(w) \/ Step(w))
           \/ (\E d \in DeviceIds : CacheExpires(d))
  BY FailuresCounted
<1>2. PICK w \in Workers, job \in WorkerType : Alone(w, job) /\ Situation(job)
  BY <1>1 DEF SerialInv
<1>3. Workers = {w} /\ workers[w] = job /\ RecordsKept(job)
  BY <1>1, <1>2 DEF Alone, RecordsInv
<1>4. TypeOK /\ SetsOK /\ TypeOK' /\ Good(job, Known) /\ StillRenewed
  BY <1>3, InvStep, TokensCounted DEF Inv, RequestsOK
<1>5. PICK next \in WorkerType : next = workers'[w]
  BY <1>4 DEF TypeOK
<1>6. SUFFICES RecordsKept(next)'
  BY <1>3, <1>5
<1>h. Here(job)
  BY <1>2, Around
<1>7. ASSUME UNCHANGED <<tokens, issued, workers>>,
             \A d \in DeviceIds : cache'[d] = cache[d] \/ cache'[d] \notin SetIds
      PROVE  RecordsKept(next)'
  <2>1. next = job
    BY <1>3, <1>5, <1>7
  <2>2. job.pc = "delete_token" => job.set \in SetIds /\ job.dev \in DeviceIds
    BY <1>4, <1>h DEF Here, Belongs, Known, SetsOK
  <2> QED BY <1>3, <1>7, <2>1, <2>2, RecordsForgotten
<1>8. CASE UNCHANGED vars
  BY <1>7, <1>8 DEF vars
<1>9. ASSUME NEW d \in DeviceIds, CacheExpires(d) PROVE RecordsKept(next)'
  <2>1. \A e \in DeviceIds : cache'[e] = cache[e] \/ cache'[e] = NoToken
    BY <1>4, <1>9 DEF CacheExpires, TypeOK
  <2> QED BY <1>7, <1>9, <2>1 DEF CacheExpires, NoToken, SetIds
<1>10. CASE Arrival(w)
  <2>1. /\ job.pc # "invalidate" /\ next.pc # "delete_token"
        /\ UNCHANGED <<cache, tokens, issued>>
    BY <1>3, <1>4, <1>5, <1>10, ArrivalSpares
  <2> QED BY <1>3, <1>4, <2>1, RecordsStay
<1>11. CASE Step(w)
  <2>1. Serving(w, job, next)
    BY <1>2, <1>3, <1>4, <1>5 DEF Serving
  <2>2. CASE Checking(w)
    BY <1>3, <2>1, <2>2, CheckingKeepsRecords
  <2>3. CASE Sparing(w)
    <3>1. job.pc # "invalidate" /\ next.pc # "delete_token"
      BY <1>3, <2>1, <2>3, NextIs DEF Sparing
    <3> QED BY <1>3, <1>4, <2>3, <3>1, RecordsStay DEF Sparing
  <2> QED BY <1>3, <1>4, <1>h, <1>11, <2>2, <2>3, StepsOf, AdmittingSpares, AskingSpares,
             ChangingSpares, PreauthorizingSpares
<1> QED BY <1>1, <1>3, <1>8, <1>9, <1>10, <1>11

\* Between such requests, if the tokens of a device are not deleted on demand either, the
\* device of a cached token is in service and has an accepted set, and the token is
\* stored; only if tokens expire and the set of the token has several may an older one
\* have taken the record with it.
THEOREM CacheVouchesRightly ==
    ASSUME NEW w, Workers = {w}, "force" \notin Kinds, "delete_tokens" \notin Kinds,
           MaxFailures = 0
    PROVE  Spec => []CachedIsStored
<1>1. Inv /\ SerialInv /\ RecordsInv => CachedIsStored
  <2> SUFFICES ASSUME Inv, SerialInv, RecordsInv, AllIdle, NEW d \in DeviceIds, cache[d] \in SetIds
               PROVE  /\ Stored(d) /\ ~devices[d].decommissioning
                      /\ InSetStatus(d, "accepted") # {}
                      /\ cache[d] \in tokens \/ (Expiry /\ issued[cache[d]] = Several)
    BY DEF CachedIsStored
  <2>1. failures = 0
    BY DEF Inv, TypeOK
  <2>2. CacheFine(d)
    BY <2>1, BetweenRequests DEF AllProper, Proper
  <2>3. Vouched(d)
    BY <2>1 DEF RecordsInv, RecordsKept, Revoking, AllIdle, At
  <2>4. InSetStatus(d, "accepted") # {}
    BY <2>2 DEF CacheFine, Uncached, Marks, InSetStatus
  <2> QED BY <2>2, <2>3, <2>4 DEF CacheFine, Uncached, InService, Vouched, Renewed
<1>2. Init => Inv /\ SerialInv /\ RecordsInv
  <2>1. ASSUME Init PROVE RecordsInv
    BY <2>1 DEF Init, RecordsInv, RecordsKept, Vouched, Doomed, Idle, NoToken, SetIds
  <2> QED BY <2>1, InvInit, SerialInit
<1>3. Inv /\ SerialInv /\ RecordsInv /\ [Next]_vars => Inv' /\ SerialInv' /\ RecordsInv'
  BY InvStep, SerialStep, RecordsStep
<1> QED BY <1>1, <1>2, <1>3, PTL DEF Spec
=============================================================================
