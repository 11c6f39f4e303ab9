---------------------- MODULE DeviceConnection_proofs ----------------------
(***************************************************************************)
(* Proofs about DeviceConnection, for any number of connections,           *)
(* instances and failures.                                                 *)
(***************************************************************************)
EXTENDS DeviceConnection, FiniteSetTheorems, TLAPS

---------------------------------------------------------------------------
(* Types.                                                                  *)

\* Init gives every variable its type.
LEMMA TypeInit == Init => TypeOK
BY SizesAssumption DEF Init, TypeOK, ConnType, NewConn, NoDoc, PCs, NoConn

\* No step of a handler, a shutdown or the device leaves the types.
LEMMA TypeStep == TypeOK /\ [Next]_vars => TypeOK'
<1> SUFFICES ASSUME TypeOK, [Next]_vars PROVE TypeOK'
  OBVIOUS
<1> USE DEF TypeOK
<1> DEFINE DocType == [exists: BOOLEAN, status: {"connected", "disconnected"}, version: Nat]
<1>a. doc.version + 1 \in Nat /\ Connected \in DocType
  BY DEF Connected
<1>1. CASE UNCHANGED vars
  BY <1>1 DEF vars
<1>2. CASE Drop
  BY <1>2 DEF Drop, NoConn
<1>3. CASE ProvisionDevice \/ DeleteDevice
  <2>1. NoDoc \in DocType /\ [NoDoc EXCEPT !.exists = TRUE] \in DocType
    BY DEF NoDoc
  <2>2. deleted' \in {"no", "settled", "meanwhile"}
    BY <1>3 DEF ProvisionDevice, DeleteDevice
  <2> QED BY <1>3, <2>1, <2>2 DEF ProvisionDevice, DeleteDevice
<1>4. ASSUME NEW c \in Conns, NEW i \in Instances, Open(c, i) PROVE TypeOK'
  <2>1. [conns[c] EXCEPT !.pc = "upgraded", !.instance = i] \in ConnType
    BY DEF ConnType, PCs
  <2>2. conns' \in [Conns -> ConnType]
    BY <1>4, <2>1 DEF Open
  <2> QED BY <1>4, <2>2 DEF Open
<1>5. ASSUME NEW c \in Conns, Handler(c) PROVE TypeOK'
  <2>1. CASE Register(c)
    BY <2>1 DEF Register, ConnType, PCs
  <2>2. CASE SetDeviceConnected(c)
    <3>1. ASSUME NEW rec \in ConnType, NEW n \in Nat
          PROVE  [rec EXCEPT !.pc = "serve", !.version = n] \in ConnType
      BY DEF ConnType, PCs
    <3>2. conns' \in [Conns -> ConnType]
      BY <1>a, <2>2, <3>1 DEF SetDeviceConnected
    <3>3. doc' \in DocType
      BY <1>a, <2>2 DEF SetDeviceConnected, StoreConnected
    <3>4. newest' \in Conns \union {NoConn} /\ sure' \in BOOLEAN
      BY <2>2 DEF SetDeviceConnected, StoreConnected
    <3> QED BY <2>2, <3>2, <3>3, <3>4 DEF SetDeviceConnected
  <2>3. CASE Leave(c)
    BY <2>3 DEF Leave, Goto, ConnType, PCs, NoConn
  <2>4. CASE SetDeviceDisconnected(c)
    BY <2>4 DEF SetDeviceDisconnected, Goto, ConnType, PCs
  <2>5. CASE UnregisterConnectionCancelHandle(c)
    BY <2>5 DEF UnregisterConnectionCancelHandle, Closed, NewConn, ConnType, PCs
  <2> QED BY <1>5, <2>1, <2>2, <2>3, <2>4, <2>5 DEF Handler
<1>6. ASSUME Fault PROVE faults' \in 0..MaxFaults
  BY <1>6, SizesAssumption DEF Fault
<1>7. ASSUME NEW c \in Conns, FailToConnect(c) PROVE TypeOK'
  <2>1. doc' \in DocType
    BY <1>a, <1>7 DEF FailToConnect, StoreConnected
  <2>2. newest' \in Conns \union {NoConn} /\ sure' \in BOOLEAN
    BY <1>7 DEF FailToConnect, StoreConnected
  <2>3. conns' \in [Conns -> ConnType]
    BY <1>7 DEF FailToConnect, Goto, ConnType, PCs
  <2> QED BY <1>7, <1>6, <2>1, <2>2, <2>3 DEF FailToConnect
<1>8. ASSUME NEW c \in Conns, FailToDisconnect(c) PROVE TypeOK'
  BY <1>8, <1>6 DEF FailToDisconnect, Goto, ConnType, PCs
<1>9. ASSUME NEW c \in Conns, CancelNext(c) PROVE TypeOK'
  BY <1>9 DEF CancelNext, ConnType
<1>10. ASSUME NEW i \in Instances,
              StartShutdown(i) \/ EndShutdown(i) \/ Exit(i) \/ Crash(i)
       PROVE  TypeOK'
  <2>1. CASE StartShutdown(i) \/ EndShutdown(i)
    BY <2>1 DEF StartShutdown, EndShutdown
  <2>2. ASSUME NEW state \in {"up", "down"}, Stop(i, state), faults' \in 0..MaxFaults
        PROVE  TypeOK'
    <3>1. Closed \in ConnType
      BY DEF Closed, NewConn, ConnType, PCs
    <3> QED BY <2>2, <3>1 DEF Stop, NoConn
  <2>3. CASE Exit(i)
    BY <2>3, <2>2 DEF Exit
  <2>4. CASE Crash(i)
    BY <2>4, <2>2, <1>6 DEF Crash
  <2> QED BY <1>10, <2>1, <2>3, <2>4
<1> QED BY <1>1, <1>2, <1>3, <1>4, <1>5, <1>7, <1>8, <1>9, <1>10 DEF Next

\* Every variable keeps its shape in all reachable states (device.go, app.go,
\* datastore_mongo.go, server.go).
THEOREM TypeCorrect == Spec => []TypeOK
<1> QED BY TypeInit, TypeStep, PTL DEF Spec

---------------------------------------------------------------------------
(* Handles.                                                                *)

\* Handlers that have registered and not given up their handle.
Owns(c) == conns[c].pc \in {"connect", "serve", "disconnect", "unregister"}
On(c, i) == conns[c].instance = i

\* Who has a handle and is not cancelled is in the registry of an instance, which
\* holds at most one such handler.
HandlesOK ==
    /\ \A c \in Conns : Owns(c) /\ ~conns[c].cancelled =>
         \E i \in Instances : On(c, i) /\ c \in registered[i]
    /\ \A b, c \in Conns : \A i \in Instances :
         /\ Owns(b) /\ ~conns[b].cancelled /\ On(b, i)
         /\ Owns(c) /\ ~conns[c].cancelled /\ On(c, i)
         => b = c
    /\ \A c \in Conns : conns[c].pc = "upgraded" => conns[c].instance \in Instances

\* At first no handle is registered.
LEMMA HandlesInit == Init => HandlesOK
BY DEF Init, HandlesOK, Owns, NewConn

\* A handler that registers cancels the others of its instance.
LEMMA HandlesStep == TypeOK /\ HandlesOK /\ [Next]_vars => HandlesOK'
<1> SUFFICES ASSUME TypeOK, HandlesOK, [Next]_vars PROVE HandlesOK'
  OBVIOUS
<1>t. conns \in [Conns -> ConnType] /\ registered \in [Instances -> SUBSET Conns]
  BY DEF TypeOK
<1>1. CASE UNCHANGED <<conns, registered>>
  BY <1>1 DEF HandlesOK, Owns, On
<1>2. ASSUME NEW c \in Conns, NEW i \in Instances, Open(c, i) PROVE HandlesOK'
  BY <1>t, <1>2 DEF Open, HandlesOK, Owns, On, ConnType
<1>3. ASSUME NEW c \in Conns, Register(c) PROVE HandlesOK'
  BY <1>t, <1>3 DEF Register, HandlesOK, Owns, On, ConnType
<1>4. ASSUME NEW c \in Conns, UNCHANGED registered,
             conns[c].pc \in {"connect", "serve", "disconnect"},
             \E pc \in {"serve", "disconnect", "unregister"} : \E n \in Nat :
                 conns' = [conns EXCEPT ![c].pc = pc, ![c].version = n]
      PROVE  HandlesOK'
  BY <1>t, <1>4 DEF HandlesOK, Owns, On, ConnType
<1>5. ASSUME NEW c \in Conns, UNCHANGED registered,
             conns[c].pc \in {"connect", "serve", "disconnect"},
             \E pc \in {"serve", "disconnect", "unregister"} :
                 conns' = [conns EXCEPT ![c].pc = pc]
      PROVE  HandlesOK'
  BY <1>t, <1>5 DEF HandlesOK, Owns, On, ConnType
<1>6. ASSUME NEW c \in Conns, Handler(c) PROVE HandlesOK'
  <2>1. CASE SetDeviceConnected(c)
    <3>1. doc.version + 1 \in Nat
      BY DEF TypeOK
    <3> QED BY <2>1, <3>1, <1>4 DEF SetDeviceConnected
  <2>2. CASE Leave(c) \/ SetDeviceDisconnected(c)
    BY <2>2, <1>5 DEF Leave, SetDeviceDisconnected, Goto
  <2>3. CASE UnregisterConnectionCancelHandle(c)
    BY <1>t, <2>3 DEF UnregisterConnectionCancelHandle, HandlesOK, Owns, On, Closed, NewConn, ConnType
  <2> QED BY <1>6, <1>3, <2>1, <2>2, <2>3 DEF Handler
<1>7. ASSUME NEW c \in Conns, FailToConnect(c) \/ FailToDisconnect(c) PROVE HandlesOK'
  BY <1>7, <1>5 DEF FailToConnect, FailToDisconnect, Goto
<1>8. ASSUME NEW c \in Conns, CancelNext(c) PROVE HandlesOK'
  BY <1>t, <1>8 DEF CancelNext, HandlesOK, Owns, On, ConnType
<1>9. ASSUME NEW i \in Instances, NEW state, Stop(i, state) PROVE HandlesOK'
  <2>1. \A c \in Conns : c \notin Running(i) => conns'[c] = conns[c]
    BY <1>9 DEF Stop
  <2>2. \A c \in Running(i) : conns'[c] = Closed
    BY <1>9 DEF Stop, Running
  <2>3. \A c \in Conns : Owns(c) /\ On(c, i) => c \in Running(i)
    BY DEF Owns, On, Running
  <2>4. \A j \in Instances : j # i => registered'[j] = registered[j]
    BY <1>t, <1>9 DEF Stop
  <2>5. Closed.pc = "closed"
    BY DEF Closed, NewConn
  <2> QED BY <2>1, <2>2, <2>3, <2>4, <2>5 DEF HandlesOK, Owns, On, Running
<1> QED BY <1>1, <1>2, <1>6, <1>7, <1>8, <1>9
        DEF Next, vars, Drop, ProvisionDevice, DeleteDevice, StartShutdown, EndShutdown, Exit,
            Crash

\* In one process at most one handler of the device serves, or is about to, and is
\* not cancelled (RegisterConnectionCancelHandle in app/app.go).
THEOREM OneHandler == Spec => []OneHandlerPerInstance
<1>1. TypeOK /\ HandlesOK => OneHandlerPerInstance
  <2> SUFFICES ASSUME TypeOK, HandlesOK, NEW i \in Instances
               PROVE  Cardinality({c \in Running(i) :
                        conns[c].pc \in {"connect", "serve"} /\ ~conns[c].cancelled}) <= 1
    BY DEF OneHandlerPerInstance
  <2> DEFINE S == {c \in Running(i) :
                     conns[c].pc \in {"connect", "serve"} /\ ~conns[c].cancelled}
  <2>1. \A b, c \in S : b = c
    BY DEF HandlesOK, Owns, On, Running
  <2>2. CASE S = {}
    BY <2>2, FS_EmptySet
  <2>3. CASE S # {}
    <3>1. PICK c \in S : TRUE
      BY <2>3
    <3>2. S = {c}
      BY <2>1, <3>1
    <3> QED BY <3>2, FS_Singleton
  <2> QED BY <2>2, <2>3
<1> QED BY TypeInit, TypeStep, HandlesInit, HandlesStep, <1>1, PTL DEF Spec

---------------------------------------------------------------------------
(* Deletion.                                                               *)

Gone == deleted = "settled" => ~doc.exists /\ Connecting = {}

\* A device that was decommissioned while no handler was connecting stays without
\* a record: the handlers that end later insert none (SetDeviceDisconnected).
THEOREM StaysDeleted == Spec => []DeletedStaysDeleted
<1>1. Init => Gone
  BY DEF Init, Gone
<1>2. TypeOK /\ Gone /\ [Next]_vars => Gone'
  <2> SUFFICES ASSUME TypeOK, Gone, [Next]_vars PROVE Gone'
    OBVIOUS
  <2>t. conns \in [Conns -> ConnType]
    BY DEF TypeOK
  <2>1. CASE UNCHANGED <<doc, conns, deleted>>
    BY <2>1 DEF Gone, Connecting
  <2>2. CASE ProvisionDevice
    BY <2>2 DEF ProvisionDevice, Gone
  <2>3. CASE DeleteDevice
    BY <2>3 DEF DeleteDevice, Gone, Connecting, NoDoc
  <2>4. ASSUME NEW c \in Conns, UNCHANGED deleted, doc'.exists = doc.exists,
               NEW r, r.pc \notin {"upgraded", "connect"}, conns' = [conns EXCEPT ![c] = r]
        PROVE  Gone'
    BY <2>t, <2>4 DEF Gone, Connecting
  <2>5. ASSUME NEW c \in Conns, Handler(c) PROVE Gone'
    <3>1. CASE Register(c) \/ SetDeviceConnected(c)
      BY <3>1 DEF Register, SetDeviceConnected, Gone, Connecting
    <3>2. CASE Leave(c)
      BY <2>t, <3>2 DEF Leave, Goto, Gone, Connecting, ConnType
    <3>3. CASE SetDeviceDisconnected(c)
      <4>1. doc'.exists = doc.exists
        BY <3>3 DEF SetDeviceDisconnected, TypeOK
      <4> QED BY <2>t, <3>3, <4>1 DEF SetDeviceDisconnected, Goto, Gone, Connecting, ConnType
    <3>4. CASE UnregisterConnectionCancelHandle(c)
      BY <2>t, <3>4 DEF UnregisterConnectionCancelHandle, Gone, Connecting, Closed, NewConn
    <3> QED BY <2>5, <3>1, <3>2, <3>3, <3>4 DEF Handler
  <2>6. ASSUME NEW c \in Conns, FailToConnect(c) PROVE Gone'
    BY <2>6 DEF FailToConnect, Gone, Connecting
  <2>7. ASSUME NEW c \in Conns, FailToDisconnect(c) PROVE Gone'
    BY <2>t, <2>7 DEF FailToDisconnect, Goto, Gone, Connecting, ConnType
  <2>8. ASSUME NEW c \in Conns, CancelNext(c) PROVE Gone'
    BY <2>t, <2>8 DEF CancelNext, Gone, Connecting, ConnType
  <2>9. ASSUME NEW i \in Instances, NEW state, Stop(i, state) PROVE Gone'
    BY <2>9 DEF Stop, Gone, Connecting, Closed, NewConn
  <2>10. ASSUME NEW c \in Conns, NEW i \in Instances, Open(c, i) PROVE Gone'
    BY <2>10 DEF Open, Gone
  <2> QED BY <2>1, <2>2, <2>3, <2>5, <2>6, <2>7, <2>8, <2>9, <2>10
          DEF Next, vars, Drop, StartShutdown, EndShutdown, Exit, Crash
<1>3. Gone => DeletedStaysDeleted
  BY DEF Gone, DeletedStaysDeleted
<1> QED BY TypeInit, TypeStep, <1>1, <1>2, <1>3, PTL DEF Spec

---------------------------------------------------------------------------
(* The status.                                                             *)

\* Handlers whose connection is stored as connected and not yet set back.
Holding(c) == conns[c].pc \in {"serve", "disconnect"}

\* The connections are opened in their order, each after the last was given up.
OpenedInOrder ==
    /\ \A b, c \in Conns : b < c /\ conns[c].pc # "idle" => conns[b].pc # "idle"
    /\ device # NoConn => \A c \in Conns : conns[c].pc # "idle" => c <= device
    /\ newest # NoConn => conns[newest].pc # "idle"
    /\ \A c \in Conns : Holding(c) => c <= newest

\* Each handler has a version of its own; the one with the version of the document
\* has not set the status back, and is there as long as the status can be relied on.
VersionsOK ==
    /\ ~doc.exists => doc.version = 0 /\ doc.status = "disconnected"
    /\ \A c \in Conns : Holding(c) => conns[c].version \in 1..doc.version
    /\ \A b, c \in Conns :
         Holding(b) /\ Holding(c) /\ conns[b].version = conns[c].version => b = c
    /\ doc.status = "connected" /\ sure =>
         \E c \in Conns : Holding(c) /\ conns[c].version = doc.version
    /\ \A c \in Conns :
         sure /\ c = newest /\ Holding(c) => conns[c].version = doc.version
    /\ \A c \in Conns :
         conns[c].pc = "serve" /\ conns[c].version = doc.version => doc.status = "connected"

StatusInv == OpenedInOrder /\ (deleted = "no" => VersionsOK)

\* At first nothing is connected, and nothing shown as connected.
LEMMA StatusInit == Init => StatusInv
BY DEF Init, StatusInv, OpenedInOrder, VersionsOK, Holding, NewConn, NoDoc

\* The device opens a connection only when it gave up the last one.
LEMMA OrderStep == TypeOK /\ OpenedInOrder /\ [Next]_vars => OpenedInOrder'
<1> SUFFICES ASSUME TypeOK, OpenedInOrder, [Next]_vars PROVE OpenedInOrder'
  OBVIOUS
<1>t. /\ conns \in [Conns -> ConnType] /\ NoConn \notin Conns /\ Conns \subseteq Int
      /\ device \in Conns \union {NoConn} /\ newest \in Conns \union {NoConn}
  BY SizesAssumption DEF TypeOK, Conns, NoConn
<1>1. CASE UNCHANGED <<conns, device, newest>>
  BY <1>1 DEF OpenedInOrder, Holding
<1>2. CASE Drop
  BY <1>2 DEF Drop, OpenedInOrder, Holding
<1>3. ASSUME NEW c \in Conns, NEW i \in Instances, Open(c, i) PROVE OpenedInOrder'
  <2>1. \A b \in Conns : b # c => conns'[b] = conns[b]
    BY <1>t, <1>3 DEF Open
  <2>2. conns'[c].pc = "upgraded" /\ device' = c /\ newest' = newest /\ conns[c].pc = "idle"
    BY <1>t, <1>3 DEF Open, ConnType
  <2>3. \A b \in Conns : b < c => conns[b].pc # "idle"
    BY <1>3 DEF Open, Conns
  <2> QED BY <1>t, <2>1, <2>2, <2>3 DEF OpenedInOrder, Holding
<1>4. ASSUME \A c \in Conns : /\ conns'[c].pc = "idle" <=> conns[c].pc = "idle"
                              /\ Holding(c)' => Holding(c),
             device' \in {device, NoConn}, newest' = newest
      PROVE  OpenedInOrder'
  BY <1>t, <1>4 DEF OpenedInOrder
<1>5. ASSUME NEW c \in Conns, SetDeviceConnected(c) PROVE OpenedInOrder'
  <2>1. \A b \in Conns : b # c => conns'[b] = conns[b]
    BY <1>t, <1>5 DEF SetDeviceConnected
  <2>2. conns[c].pc = "connect" /\ conns'[c].pc = "serve" /\ device' = device
    BY <1>t, <1>5 DEF SetDeviceConnected, ConnType
  <2>3. newest' = IF newest > c THEN newest ELSE c
    BY <1>5 DEF SetDeviceConnected, StoreConnected, Overtaken
  <2> QED BY <1>t, <2>1, <2>2, <2>3 DEF OpenedInOrder, Holding
<1>6. ASSUME NEW c \in Conns, FailToConnect(c) PROVE OpenedInOrder'
  <2>1. \A b \in Conns : b # c => conns'[b] = conns[b]
    BY <1>t, <1>6 DEF FailToConnect, Goto
  <2>2. conns[c].pc = "connect" /\ conns'[c].pc = "unregister" /\ device' = device
    BY <1>t, <1>6 DEF FailToConnect, Goto, ConnType
  <2>3. newest' \in {newest, IF newest > c THEN newest ELSE c}
    BY <1>6 DEF FailToConnect, StoreConnected, Overtaken
  <2> QED BY <1>t, <2>1, <2>2, <2>3 DEF OpenedInOrder, Holding
<1>7. ASSUME NEW c \in Conns, Register(c) PROVE OpenedInOrder'
  <2>1. \A b \in Conns : b # c => conns'[b].pc = conns[b].pc
    BY <1>t, <1>7 DEF Register, ConnType
  <2>2. conns[c].pc = "upgraded" /\ conns'[c].pc = "connect"
    BY <1>t, <1>7 DEF Register, ConnType
  <2> QED BY <1>4, <1>7, <2>1, <2>2 DEF Register, Holding
<1>8. ASSUME NEW c \in Conns, Leave(c) PROVE OpenedInOrder'
  <2>1. \A b \in Conns : b # c => conns'[b] = conns[b]
    BY <1>t, <1>8 DEF Leave, Goto
  <2>2. conns[c].pc = "serve" /\ conns'[c].pc = "disconnect"
    BY <1>t, <1>8 DEF Leave, Goto, ConnType
  <2> QED BY <1>4, <1>8, <2>1, <2>2 DEF Leave, Holding
<1>9. ASSUME NEW c \in Conns, SetDeviceDisconnected(c) \/ FailToDisconnect(c)
      PROVE  OpenedInOrder'
  <2>1. \A b \in Conns : b # c => conns'[b] = conns[b]
    BY <1>t, <1>9 DEF SetDeviceDisconnected, FailToDisconnect, Goto
  <2>2. conns[c].pc = "disconnect" /\ conns'[c].pc = "unregister"
    BY <1>t, <1>9 DEF SetDeviceDisconnected, FailToDisconnect, Goto, ConnType
  <2> QED BY <1>4, <1>9, <2>1, <2>2 DEF SetDeviceDisconnected, FailToDisconnect, Holding
<1>10. ASSUME NEW c \in Conns, UnregisterConnectionCancelHandle(c) PROVE OpenedInOrder'
  <2>1. \A b \in Conns : b # c => conns'[b] = conns[b]
    BY <1>t, <1>10 DEF UnregisterConnectionCancelHandle
  <2>2. conns[c].pc = "unregister" /\ conns'[c].pc = "closed"
    BY <1>t, <1>10 DEF UnregisterConnectionCancelHandle, Closed, NewConn
  <2> QED BY <1>4, <1>10, <2>1, <2>2 DEF UnregisterConnectionCancelHandle, Holding
<1>11. ASSUME NEW c \in Conns, CancelNext(c) PROVE OpenedInOrder'
  <2>1. \A b \in Conns : conns'[b].pc = conns[b].pc
    BY <1>t, <1>11 DEF CancelNext, ConnType
  <2> QED BY <1>4, <1>11, <2>1 DEF CancelNext, Holding
<1>12. ASSUME NEW i \in Instances, NEW state, Stop(i, state) PROVE OpenedInOrder'
  <2>1. \A c \in Conns : \/ conns'[c] = conns[c]
                         \/ conns'[c].pc = "closed" /\ conns[c].pc # "idle"
    BY <1>12 DEF Stop, Running, Closed, NewConn
  <2> QED BY <1>4, <1>12, <2>1 DEF Stop, Holding
<1> QED BY <1>1, <1>2, <1>3, <1>5, <1>6, <1>7, <1>8, <1>9, <1>10, <1>11, <1>12
        DEF Next, Handler, vars, ProvisionDevice, DeleteDevice, StartShutdown, EndShutdown, Exit,
            Crash

\* Only the handler with the version of the document sets the status back.
LEMMA VersionsStep ==
    TypeOK /\ OpenedInOrder /\ (deleted = "no" => VersionsOK) /\ [Next]_vars
        => (deleted' = "no" => VersionsOK')
<1> SUFFICES ASSUME TypeOK, OpenedInOrder, deleted = "no" => VersionsOK, [Next]_vars,
                    deleted' = "no"
             PROVE  VersionsOK'
  OBVIOUS
<1>t. /\ conns \in [Conns -> ConnType] /\ NoConn \notin Conns /\ Conns \subseteq Int
      /\ newest \in Conns \union {NoConn}
      /\ doc.version \in Nat /\ \A c \in Conns : conns[c].version \in Nat
  BY SizesAssumption DEF TypeOK, Conns, NoConn, ConnType
<1>d. doc \in [exists: BOOLEAN, status: {"connected", "disconnected"}, version: Nat]
  BY DEF TypeOK
<1>1. CASE UNCHANGED <<doc, conns, newest, sure, deleted>>
  BY <1>1 DEF VersionsOK, Holding
<1>2. CASE ProvisionDevice
  <2>1. doc'.exists /\ doc'.version = doc.version /\ doc'.status = doc.status
    BY <1>d, <1>2 DEF ProvisionDevice, NoDoc, VersionsOK
  <2> QED BY <1>2, <2>1 DEF ProvisionDevice, VersionsOK, Holding
<1>3. CASE DeleteDevice
  BY <1>3 DEF DeleteDevice
<1>4. ASSUME deleted = "no", doc' = doc, newest' = newest, sure' = sure,
             \A c \in Conns : /\ Holding(c)' <=> Holding(c)
                              /\ conns'[c].pc = "serve" => conns[c].pc = "serve"
                              /\ Holding(c) => conns'[c].version = conns[c].version
      PROVE  VersionsOK'
  <2> USE DEF VersionsOK, Holding
  <2>1. \A c \in Conns : conns'[c].pc = "serve" => Holding(c)
    BY <1>4
  <2> QED BY <1>4, <2>1
<1>5. ASSUME NEW c \in Conns, NEW i \in Instances, Open(c, i) PROVE VersionsOK'
  <2>1. \A b \in Conns : b # c => conns'[b] = conns[b]
    BY <1>t, <1>5 DEF Open
  <2>2. conns'[c].pc = "upgraded" /\ conns[c].pc = "idle"
    BY <1>t, <1>5 DEF Open, ConnType
  <2> QED BY <1>4, <1>5, <2>1, <2>2 DEF Open, Holding
<1>6. ASSUME NEW c \in Conns, Register(c) PROVE VersionsOK'
  <2>1. \A b \in Conns : b # c => conns'[b].pc = conns[b].pc /\ conns'[b].version = conns[b].version
    BY <1>t, <1>6 DEF Register, ConnType
  <2>2. conns[c].pc = "upgraded" /\ conns'[c].pc = "connect"
    BY <1>t, <1>6 DEF Register, ConnType
  <2> QED BY <1>4, <1>6, <2>1, <2>2 DEF Register, Holding
<1>7. ASSUME NEW c \in Conns, SetDeviceConnected(c) PROVE VersionsOK'
  <2>1. \A b \in Conns : b # c => conns'[b] = conns[b]
    BY <1>t, <1>7 DEF SetDeviceConnected
  <2>2. conns'[c].pc = "serve" /\ conns'[c].version = doc.version + 1
    BY <1>t, <1>7 DEF SetDeviceConnected, ConnType
  <2>3. doc'.exists /\ doc'.status = "connected" /\ doc'.version = doc.version + 1
    BY <1>7 DEF SetDeviceConnected, StoreConnected, Connected
  <2>4. sure' = ~(newest > c) /\ newest' = IF newest > c THEN newest ELSE c
    BY <1>7 DEF SetDeviceConnected, StoreConnected, Overtaken
  <2>5. VersionsOK
    BY <1>7 DEF SetDeviceConnected
  <2>6. \A b \in Conns : b # c /\ Holding(b)' => Holding(b) /\ conns[b].version \in 1..doc.version
    BY <2>1, <2>5 DEF VersionsOK, Holding
  <2>7. \A b \in Conns : Holding(b)' => conns'[b].version \in 1..doc'.version
    BY <1>t, <2>1, <2>2, <2>3, <2>6
  <2>8. ASSUME NEW a \in Conns, NEW b \in Conns, Holding(a)', Holding(b)',
               conns'[a].version = conns'[b].version
        PROVE  a = b
    BY <1>t, <2>1, <2>2, <2>5, <2>6, <2>8 DEF VersionsOK
  <2>9. Holding(c)'
    BY <2>2 DEF Holding
  <2>10. \A b \in Conns : conns'[b].pc = "serve" /\ conns'[b].version = doc'.version
                            => doc'.status = "connected"
    BY <2>3
  <2> QED BY <2>2, <2>3, <2>4, <2>7, <2>8, <2>9, <2>10 DEF VersionsOK
<1>8. ASSUME NEW c \in Conns, FailToConnect(c) PROVE VersionsOK'
  <2>1. \A b \in Conns : b # c => conns'[b] = conns[b]
    BY <1>t, <1>8 DEF FailToConnect, Goto
  <2>2. conns[c].pc = "connect" /\ conns'[c].pc = "unregister"
    BY <1>t, <1>8 DEF FailToConnect, Goto, ConnType
  <2>3. VersionsOK /\ deleted = "no"
    BY <1>8 DEF FailToConnect
  <2>4. \A b \in Conns : /\ Holding(b)' <=> Holding(b)
                         /\ Holding(b) => conns'[b] = conns[b]
                         /\ conns'[b].pc = "serve" => Holding(b) /\ conns[b].pc = "serve"
    BY <2>1, <2>2 DEF Holding
  <2>5. CASE UNCHANGED <<doc, newest, sure>>
    BY <1>4, <2>3, <2>4, <2>5
  <2>6. CASE StoreConnected(c) /\ sure' = FALSE
    <3>1. doc'.exists /\ doc'.status = "connected" /\ doc'.version = doc.version + 1
      BY <2>6 DEF StoreConnected, Connected
    <3>2. \A b \in Conns : Holding(b) => conns[b].version \in 1..(doc.version + 1)
      BY <1>t, <2>3 DEF VersionsOK
    <3> QED BY <2>3, <2>4, <2>6, <3>1, <3>2 DEF VersionsOK
  <2> QED BY <1>8, <2>5, <2>6 DEF FailToConnect
<1>9. ASSUME NEW c \in Conns, Leave(c) PROVE VersionsOK'
  <2>1. \A b \in Conns : b # c => conns'[b] = conns[b]
    BY <1>t, <1>9 DEF Leave, Goto
  <2>2. conns[c].pc = "serve" /\ conns'[c].pc = "disconnect" /\ conns'[c].version = conns[c].version
    BY <1>t, <1>9 DEF Leave, Goto, ConnType
  <2> QED BY <1>4, <1>9, <2>1, <2>2 DEF Leave, Holding
<1>10. ASSUME NEW c \in Conns, conns[c].pc = "disconnect", Goto(c, "unregister"), VersionsOK
       PROVE  /\ ~Holding(c)' /\ Holding(c)
              /\ \A b \in Conns : b # c => conns'[b] = conns[b] /\ (Holding(b)' <=> Holding(b))
  <2>1. \A b \in Conns : b # c => conns'[b] = conns[b]
    BY <1>t, <1>10 DEF Goto
  <2>2. conns'[c].pc = "unregister"
    BY <1>t, <1>10 DEF Goto, ConnType
  <2> QED BY <1>10, <2>1, <2>2 DEF Holding
<1>11. ASSUME NEW c \in Conns, SetDeviceDisconnected(c) PROVE VersionsOK'
  <2>1. VersionsOK
    BY <1>11 DEF SetDeviceDisconnected
  <2>2. /\ ~Holding(c)' /\ Holding(c)
        /\ \A b \in Conns : b # c => conns'[b] = conns[b] /\ (Holding(b)' <=> Holding(b))
    BY <1>10, <1>11, <2>1 DEF SetDeviceDisconnected
  <2>3. doc'.exists = doc.exists /\ doc'.version = doc.version
    BY <1>d, <1>11 DEF SetDeviceDisconnected
  <2>4. doc'.status = IF doc.version = conns[c].version THEN "disconnected" ELSE doc.status
    BY <1>d, <1>11 DEF SetDeviceDisconnected
  <2>5. sure' = sure /\ newest' = newest
    BY <1>11 DEF SetDeviceDisconnected
  <2>6. \A b \in Conns : conns'[b].pc = "serve" => b # c /\ Holding(b)
    BY <2>2 DEF Holding
  <2> QED BY <2>1, <2>2, <2>3, <2>4, <2>5, <2>6 DEF VersionsOK
<1>12. ASSUME NEW c \in Conns, FailToDisconnect(c) PROVE VersionsOK'
  <2>1. VersionsOK
    BY <1>12 DEF FailToDisconnect
  <2>2. /\ ~Holding(c)' /\ Holding(c)
        /\ \A b \in Conns : b # c => conns'[b] = conns[b] /\ (Holding(b)' <=> Holding(b))
    BY <1>10, <1>12, <2>1 DEF FailToDisconnect
  <2>3. doc' = doc /\ newest' = newest /\ (sure' => sure /\ conns[c].version # doc.version)
    BY <1>12 DEF FailToDisconnect, LastToConnect
  <2>4. \A b \in Conns : conns'[b].pc = "serve" => b # c
    BY <2>2 DEF Holding
  <2> QED BY <2>1, <2>2, <2>3, <2>4 DEF VersionsOK
<1>13. ASSUME NEW c \in Conns, UnregisterConnectionCancelHandle(c) PROVE VersionsOK'
  <2>1. \A b \in Conns : b # c => conns'[b] = conns[b]
    BY <1>t, <1>13 DEF UnregisterConnectionCancelHandle
  <2>2. conns[c].pc = "unregister" /\ conns'[c].pc = "closed"
    BY <1>t, <1>13 DEF UnregisterConnectionCancelHandle, Closed, NewConn
  <2> QED BY <1>4, <1>13, <2>1, <2>2 DEF UnregisterConnectionCancelHandle, Holding
<1>14. ASSUME NEW c \in Conns, CancelNext(c) PROVE VersionsOK'
  <2>1. \A b \in Conns : conns'[b].pc = conns[b].pc /\ conns'[b].version = conns[b].version
    BY <1>t, <1>14 DEF CancelNext, ConnType
  <2> QED BY <1>4, <1>14, <2>1 DEF CancelNext, Holding
<1>15. ASSUME NEW i \in Instances, NEW state, Stop(i, state) PROVE VersionsOK'
  <2>1. VersionsOK
    BY <1>15 DEF Stop
  <2>2. \A c \in Conns : c \notin Running(i) => conns'[c] = conns[c]
    BY <1>15 DEF Stop
  <2>3. \A c \in Conns : c \in Running(i) => conns'[c].pc = "closed"
    BY <1>15 DEF Stop, Closed, NewConn
  <2>4. doc' = doc /\ newest' = newest
        /\ (sure' => sure /\ \A c \in Running(i) : Holding(c) => conns[c].version # doc.version)
    BY <1>15 DEF Stop, LastToConnect, Holding
  <2>5. \A c \in Conns : Holding(c)' => c \notin Running(i) /\ Holding(c) /\ conns'[c] = conns[c]
    BY <2>2, <2>3 DEF Holding
  <2>6. \A c \in Conns : Holding(c) /\ c \notin Running(i) => Holding(c)'
    BY <2>2 DEF Holding
  <2>7. \A c \in Conns : conns'[c].pc = "serve" => conns'[c] = conns[c]
    BY <2>2, <2>3
  <2> QED BY <2>1, <2>2, <2>4, <2>5, <2>6, <2>7 DEF VersionsOK
<1> QED BY <1>1, <1>2, <1>3, <1>5, <1>6, <1>7, <1>8, <1>9, <1>11, <1>12, <1>13, <1>14, <1>15
        DEF Next, Handler, vars, Drop, StartShutdown, EndShutdown, Exit, Crash

\* When every handler is at rest the stored status tells whether one serves the
\* device, in any order in which the handlers of several connections started and
\* ended, on any instances (Connect in api/http/device.go, SetDeviceConnected and
\* SetDeviceDisconnected in the store).
THEOREM StatusHonest == Spec => []StatusTellsConnection
<1>1. TypeOK /\ StatusInv /\ [Next]_vars => StatusInv'
  BY OrderStep, VersionsStep DEF StatusInv
<1>2. TypeOK /\ StatusInv => StatusTellsConnection
  <2> SUFFICES ASSUME TypeOK, OpenedInOrder, VersionsOK, AtRest, sure
               PROVE  (doc.status = "connected") = Served
    BY DEF StatusInv, StatusTellsConnection
  <2>t. /\ NoConn \notin Conns /\ Conns \subseteq Int
        /\ device \in Conns \union {NoConn} /\ newest \in Conns \union {NoConn}
    BY SizesAssumption DEF TypeOK, Conns, NoConn
  <2>1. ASSUME doc.status = "connected" PROVE Served
    <3>1. PICK c \in Conns : Holding(c)
      BY <2>1 DEF VersionsOK
    <3> QED BY <2>t, <3>1 DEF AtRest, Holding, Served
  <2>2. ASSUME Served PROVE doc.status = "connected"
    <3>1. device \in Conns /\ conns[device].pc = "serve" /\ Holding(device)
      BY <2>t, <2>2 DEF Served, Holding
    <3>2. newest \in Conns /\ newest <= device /\ device <= newest
      BY <2>t, <3>1 DEF OpenedInOrder, Conns, NoConn
    <3>3. newest \in Int /\ device \in Int
      BY <2>t, <3>1, <3>2
    <3>4. newest = device
      BY ONLY <3>2, <3>3, SMT
    <3> QED BY <3>1, <3>4 DEF VersionsOK
  <2>3. Served \in BOOLEAN
    BY DEF Served
  <2> QED BY <2>1, <2>2, <2>3
<1> QED BY TypeInit, TypeStep, StatusInit, <1>1, <1>2, PTL DEF Spec
=============================================================================
