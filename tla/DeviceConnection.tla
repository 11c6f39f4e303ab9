-------------------------- MODULE DeviceConnection --------------------------
(***************************************************************************)
(* The connection of a device to the deviceconnect service: websocket      *)
(* handlers on several instances of the service, the handles by which a    *)
(* newer connection or a shutdown cancels them, and the status of the      *)
(* device in the database (services/deviceconnect: api/http/device.go,     *)
(* app/app.go, store/mongo/datastore_mongo.go, server/server.go).          *)
(*                                                                         *)
(* A device holds one connection at a time; it opens the next one after it *)
(* gave up the last, which the handler of that one may not know yet.       *)
(***************************************************************************)
EXTENDS Integers, FiniteSets

CONSTANTS
    NumConns,     \* bound on the connections the device opens: 1, 2, ... in this order
    Instances,    \* processes of the service
    NoInstance,   \* the instance of a connection that was never opened
    MaxFaults     \* bound on failed operations and crashes

Conns == 1..NumConns
NoConn == 0

ASSUME SizesAssumption == NumConns \in Nat /\ MaxFaults \in Nat
ASSUME InstanceAssumption == NoInstance \notin Instances

VARIABLES
    doc,          \* the document of the device
    conns,        \* the handlers
    registered,   \* shutdownCancels of each instance
    instances,    \* state of each instance
    device,       \* the connection the device holds
    newest,       \* the newest connection that was ever stored as connected
    sure,         \* nothing happened since which the status may be wrong
    deleted,      \* the device was decommissioned: while a handler connects, or not
    faults        \* faults so far

vars == <<doc, conns, registered, instances, device, newest, sure, deleted, faults>>

---------------------------------------------------------------------------
(* State.                                                                  *)

\* upgraded: the websocket is open; connect: the handle is registered; serve:
\* connectWSWriter runs; disconnect, unregister: the deferred calls.
PCs == {"idle", "upgraded", "connect", "serve", "disconnect", "unregister", "closed"}

NewConn == [pc |-> "idle", instance |-> NoInstance, version |-> 0, cancelled |-> FALSE]
Closed == [NewConn EXCEPT !.pc = "closed"]
NoDoc == [exists |-> FALSE, status |-> "disconnected", version |-> 0]

Running(i) == {c \in Conns : conns[c].instance = i /\ conns[c].pc \notin {"idle", "closed"}}
Goto(c, pc) == conns' = [conns EXCEPT ![c].pc = pc]
Fault == faults < MaxFaults /\ faults' = faults + 1

---------------------------------------------------------------------------
(* The device and the other services.                                      *)

Open(c, i) ==
    /\ device = NoConn /\ deleted = "no"
    /\ conns[c].pc = "idle" /\ \A b \in 1..(c - 1) : conns[b].pc # "idle"
    /\ instances[i] = "up"
    /\ conns' = [conns EXCEPT ![c].pc = "upgraded", ![c].instance = i]
    /\ device' = c
    /\ UNCHANGED <<doc, registered, instances, newest, sure, deleted, faults>>

\* The device closes the connection or loses it.
Drop ==
    /\ device # NoConn
    /\ device' = NoConn
    /\ UNCHANGED <<doc, conns, registered, instances, newest, sure, deleted, faults>>

\* An existing document is left as it is.
ProvisionDevice ==
    /\ deleted = "no" /\ ~doc.exists
    /\ doc' = [NoDoc EXCEPT !.exists = TRUE]
    /\ UNCHANGED <<conns, registered, instances, device, newest, sure, deleted, faults>>

Connecting == {c \in Conns : conns[c].pc \in {"upgraded", "connect"}}

DeleteDevice ==
    /\ deleted = "no" /\ doc.exists
    /\ doc' = NoDoc
    /\ deleted' = IF Connecting = {} THEN "settled" ELSE "meanwhile"
    /\ UNCHANGED <<conns, registered, instances, device, newest, sure, faults>>

---------------------------------------------------------------------------
(* Connect.                                                                *)

\* Faulty variant of Register: the handles of older connections are kept.
RegisterBeside(c) ==
    /\ conns[c].pc = "upgraded" /\ instances[conns[c].instance] # "draining"
    /\ conns' = [conns EXCEPT ![c].pc = "connect"]
    /\ registered' = [registered EXCEPT ![conns[c].instance] = @ \union {c}]
    /\ UNCHANGED <<doc, instances, device, newest, sure, deleted, faults>>

\* RegisterConnectionCancelHandle, exclusive; a shutdown holds the lock.
Register(c) ==
    LET i == conns[c].instance
    IN /\ conns[c].pc = "upgraded" /\ instances[i] # "draining"
       /\ conns' = [b \in Conns |->
                      IF b = c THEN [conns[b] EXCEPT !.pc = "connect"]
                      ELSE IF b \in registered[i] THEN [conns[b] EXCEPT !.cancelled = TRUE]
                      ELSE conns[b]]
       /\ registered' = [registered EXCEPT ![i] = {c}]
       /\ UNCHANGED <<doc, instances, device, newest, sure, deleted, faults>>

Connected == [exists |-> TRUE, status |-> "connected", version |-> doc.version + 1]

\* A connection that the device opened later is stored already.
Overtaken(c) == newest > c

StoreConnected(c) ==
    /\ doc' = Connected
    /\ newest' = IF Overtaken(c) THEN newest ELSE c

\* Faulty variant of SetDeviceConnected: the version is not increased.
SetConnectedOnly(c) ==
    /\ conns[c].pc = "connect"
    /\ doc' = [Connected EXCEPT !.version = 1]
    /\ newest' = IF Overtaken(c) THEN newest ELSE c
    /\ conns' = [conns EXCEPT ![c].pc = "serve", ![c].version = 1]
    /\ sure' = ~Overtaken(c)
    /\ UNCHANGED <<registered, instances, device, deleted, faults>>

\* Faulty variant: the version before the update is kept.
SetConnectedKeepOld(c) ==
    /\ conns[c].pc = "connect"
    /\ StoreConnected(c)
    /\ conns' = [conns EXCEPT ![c].pc = "serve", ![c].version = doc.version]
    /\ sure' = ~Overtaken(c)
    /\ UNCHANGED <<registered, instances, device, deleted, faults>>

\* Whether the handler is cancelled is not looked at.
SetDeviceConnected(c) ==
    /\ conns[c].pc = "connect"
    /\ StoreConnected(c)
    /\ conns' = [conns EXCEPT ![c].pc = "serve", ![c].version = doc.version + 1]
    /\ sure' = ~Overtaken(c)
    /\ UNCHANGED <<registered, instances, device, deleted, faults>>

\* The operation failed, or its answer was lost: the status is not set back.
FailToConnect(c) ==
    /\ conns[c].pc = "connect"
    /\ Fault
    /\ \/ UNCHANGED <<doc, newest, sure>>
       \/ StoreConnected(c) /\ sure' = FALSE
    /\ Goto(c, "unregister")
    /\ UNCHANGED <<registered, instances, device, deleted>>

\* The handler was cancelled or notices that the connection is lost.
Leave(c) ==
    /\ conns[c].pc = "serve" /\ (conns[c].cancelled \/ device # c)
    /\ Goto(c, "disconnect")
    /\ device' = IF device = c THEN NoConn ELSE device
    /\ UNCHANGED <<doc, registered, instances, newest, sure, deleted, faults>>

\* Faulty variant of SetDeviceDisconnected: the document is stored if there is
\* none.
UpsertDisconnected(c) ==
    /\ conns[c].pc = "disconnect"
    /\ doc' = IF doc.version = conns[c].version \/ ~doc.exists
                THEN [exists |-> TRUE, status |-> "disconnected", version |-> conns[c].version]
                ELSE doc
    /\ Goto(c, "unregister")
    /\ UNCHANGED <<registered, instances, device, newest, sure, deleted, faults>>

\* Nothing but the version the handler stored is set; nothing is inserted.
SetDeviceDisconnected(c) ==
    /\ conns[c].pc = "disconnect"
    /\ doc' = IF doc.version = conns[c].version THEN [doc EXCEPT !.status = "disconnected"] ELSE doc
    /\ Goto(c, "unregister")
    /\ UNCHANGED <<registered, instances, device, newest, sure, deleted, faults>>

\* The status is that of this handler, which ends without setting it back.
LastToConnect(c) ==
    conns[c].pc \in {"serve", "disconnect"} /\ conns[c].version = doc.version

FailToDisconnect(c) ==
    /\ conns[c].pc = "disconnect"
    /\ Fault
    /\ sure' = (sure /\ ~LastToConnect(c))
    /\ Goto(c, "unregister")
    /\ UNCHANGED <<doc, registered, instances, device, newest, deleted>>

UnregisterConnectionCancelHandle(c) ==
    LET i == conns[c].instance
    IN /\ conns[c].pc = "unregister" /\ instances[i] # "draining"
       /\ registered' = [registered EXCEPT ![i] = @ \ {c}]
       /\ conns' = [conns EXCEPT ![c] = Closed]
       /\ UNCHANGED <<doc, instances, device, newest, sure, deleted, faults>>

---------------------------------------------------------------------------
(* Shutdown.                                                               *)

\* The listening socket is closed, and Shutdown holds the lock from now on.
StartShutdown(i) ==
    /\ instances[i] = "up"
    /\ instances' = [instances EXCEPT ![i] = "draining"]
    /\ UNCHANGED <<doc, conns, registered, device, newest, sure, deleted, faults>>

CancelNext(c) ==
    /\ \E i \in Instances : instances[i] = "draining" /\ c \in registered[i]
    /\ ~conns[c].cancelled
    /\ conns' = [conns EXCEPT ![c].cancelled = TRUE]
    /\ UNCHANGED <<doc, registered, instances, device, newest, sure, deleted, faults>>

\* The process of an instance ends, and its handlers with it.
Stop(i, state) ==
    /\ instances' = [instances EXCEPT ![i] = state]
    /\ registered' = [registered EXCEPT ![i] = {}]
    /\ conns' = [c \in Conns |-> IF c \in Running(i) THEN Closed ELSE conns[c]]
    /\ device' = IF device \in Running(i) THEN NoConn ELSE device
    /\ sure' = (sure /\ \A c \in Running(i) : ~LastToConnect(c))
    /\ UNCHANGED <<doc, newest, deleted>>

\* Shutdown waits some time after each cancellation and once more, then gives the
\* lock back; whether the handlers are through by then is not looked at.
EndShutdown(i) ==
    /\ instances[i] = "draining"
    /\ \A c \in registered[i] : conns[c].cancelled
    /\ instances' = [instances EXCEPT ![i] = "leaving"]
    /\ UNCHANGED <<doc, conns, registered, device, newest, sure, deleted, faults>>

\* The server returns when Shutdown is done.
Exit(i) ==
    /\ instances[i] = "leaving"
    /\ Stop(i, "down")
    /\ UNCHANGED faults

\* A crash, or a signal other than SIGUSR1; the process is started again.
Crash(i) ==
    /\ instances[i] # "down"
    /\ Fault
    /\ Stop(i, "up")

---------------------------------------------------------------------------

Init ==
    /\ doc = NoDoc
    /\ conns = [c \in Conns |-> NewConn]
    /\ registered = [i \in Instances |-> {}]
    /\ instances = [i \in Instances |-> "up"]
    /\ device = NoConn
    /\ newest = NoConn
    /\ sure = TRUE
    /\ deleted = "no"
    /\ faults = 0

Handler(c) ==
    \/ Register(c) \/ SetDeviceConnected(c) \/ Leave(c)
    \/ SetDeviceDisconnected(c) \/ UnregisterConnectionCancelHandle(c)

Next ==
    \/ Drop \/ ProvisionDevice \/ DeleteDevice
    \/ \E c \in Conns :
          \/ Handler(c) \/ FailToConnect(c) \/ FailToDisconnect(c) \/ CancelNext(c)
          \/ \E i \in Instances : Open(c, i)
    \/ \E i \in Instances :
          StartShutdown(i) \/ EndShutdown(i) \/ Exit(i) \/ Crash(i)

Spec == Init /\ [][Next]_vars

\* A handler goes on and notices a lost connection by its timeouts; a shutdown
\* goes on with its ticker.
FairSpec ==
    /\ Spec
    /\ \A c \in Conns : WF_vars(Handler(c)) /\ WF_vars(CancelNext(c))
    /\ \A i \in Instances : WF_vars(EndShutdown(i)) /\ WF_vars(Exit(i))

---------------------------------------------------------------------------
(* Properties.                                                             *)

ConnType ==
    [pc: PCs, instance: Instances \union {NoInstance}, version: Nat, cancelled: BOOLEAN]

\* Type invariant.
TypeOK ==
    /\ doc \in [exists: BOOLEAN, status: {"connected", "disconnected"}, version: Nat]
    /\ conns \in [Conns -> ConnType]
    /\ registered \in [Instances -> SUBSET Conns]
    /\ instances \in [Instances -> {"up", "draining", "leaving", "down"}]
    /\ device \in Conns \union {NoConn} /\ newest \in Conns \union {NoConn}
    /\ sure \in BOOLEAN
    /\ deleted \in {"no", "settled", "meanwhile"}
    /\ faults \in 0..MaxFaults

\* Every handler is through with connecting or disconnecting, and serves the
\* connection the device holds or none.
AtRest ==
    \A c \in Conns :
        /\ conns[c].pc \in {"idle", "serve", "unregister", "closed"}
        /\ conns[c].pc = "serve" => c = device /\ ~conns[c].cancelled

Served == device # NoConn /\ conns[device].pc = "serve"

\* When all handlers are at rest the device is shown as connected if and only if
\* a handler serves it, in whatever order the handlers of older connections
\* ended, on whichever instances, shut down or not.
StatusTellsConnection ==
    AtRest /\ sure /\ deleted = "no" => (doc.status = "connected") = Served

\* In one process two handlers of a device never serve at the same time for
\* longer than it takes the older one to see that it is cancelled.
OneHandlerPerInstance ==
    \A i \in Instances :
        Cardinality({c \in Running(i) :
            conns[c].pc \in {"connect", "serve"} /\ ~conns[c].cancelled}) <= 1

\* The record of a decommissioned device does not come back when the connections
\* it still had are closed, at a shutdown neither.
DeletedStaysDeleted == deleted = "settled" => ~doc.exists

\* A device that went away is shown as disconnected in the end.
OfflineIsShown ==
    (device = NoConn /\ sure) ~> (doc.status = "disconnected" \/ device # NoConn \/ ~sure)
=============================================================================
