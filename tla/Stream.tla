------------------------------- MODULE Stream -------------------------------
(***************************************************************************)
(* A stream between a user session and a device handler, once it is        *)
(* connected (backend/pkg/stream/nats.go).  An end numbers its messages    *)
(* and sends the next one after the last was acknowledged; it repeats a    *)
(* message until then.  At each end one thread calls Send and one Recv,    *)
(* and either end may be closed at any time, by one of these or by the     *)
(* handler of the request, as in services/deviceconnect/api/http; whoever  *)
(* waits takes the next message of the subscription, whatever it is, and   *)
(* handles it: they share the sequence numbers without a lock.             *)
(*                                                                         *)
(* NATS is external: it delivers the messages of an end in order, loses a  *)
(* message for which the subscription has no room, and answers a request   *)
(* nobody is subscribed to with a refusal.                                 *)
(***************************************************************************)
EXTENDS Integers, Sequences, FiniteSets

CONSTANTS
    Sends,        \* bound on the calls of Send, of each end
    SeqMod,       \* sequence numbers are counted modulo this: 2^32
    InboxSize,    \* capacity of msgChan: 8
    RecvSize,     \* capacity of recvChan: 4
    Rounds,       \* rounds of the loop of Close: 3
    MaxCopies,    \* bound on the copies of a message that nobody has taken
    MaxLosses,    \* bound on the messages that are lost
    MaxCloses     \* bound on the calls of Close, of both ends

Ends == {"user", "device"}
\* main is the handler of the request, which started the other two.
Threads == {"send", "recv", "main"}
Peer(e) == IF e = "user" THEN "device" ELSE "user"

ASSUME SendsAssumption == Sends \in [Ends -> Nat]
ASSUME SizesAssumption ==
    /\ SeqMod \in Nat /\ SeqMod > 2
    /\ InboxSize \in Nat \ {0} /\ RecvSize \in Nat \ {0}
    /\ Rounds \in Nat /\ MaxCopies \in Nat \ {0} /\ MaxLosses \in Nat
    /\ MaxCloses \in Nat

VARIABLES
    inbox,        \* msgChan, of each end
    ends,         \* the shared state of a natsStream
    threads,      \* the calls that run
    sent,         \* calls of Send so far
    confirmed,    \* calls of Send that returned without an error
    delivered,    \* bodies that Recv returned
    losses,       \* messages lost so far
    missed,       \* a message that is not repeated was lost
    raced         \* two threads of an end handled data messages at the same time

history == <<sent, confirmed, delivered>>
vars == <<inbox, ends, threads, history, losses, missed, raced>>

---------------------------------------------------------------------------
(* State.                                                                  *)

Data(e) == [kind |-> "data", seq |-> ends[e].localSeq, body |-> sent[e]]
Signal(kind) == [kind |-> kind, seq |-> 0, body |-> 0]
Nothing == Signal("none")
Ack(n) == [kind |-> "ack", seq |-> n, body |-> 0]

\* idle: no call; run: in the loop of Send or Recv; closing: in the one of Close;
\* done: Close returned; ended: the call returned ErrClosed; failed: it returned
\* another error, or its caller gave up.  hand: the data message it handles, with
\* counting when it has pushed it and is about to count it; rounds: those of Close.
PCs == {"idle", "run", "ended", "failed", "closing", "done"}
NewThread(k) == [pc |-> IF k = "recv" THEN "run" ELSE "idle", hand |-> Nothing,
                 counting |-> FALSE, rounds |-> 0]

Holds(e, k) == threads[e][k].hand # Nothing
Waiting(e, k, pc) == threads[e][k].pc = pc /\ ~Holds(e, k)
Set(e, k, t) == threads' = [threads EXCEPT ![e][k] = t]
Goto(e, k, pc) == Set(e, k, [threads[e][k] EXCEPT !.pc = pc])

\* Faulty variant of Diff: without the width of the numbers.
DiffWide(a, b) == a - b

\* Number of steps from b to a, as uint32.
Diff(a, b) == (a - b) % SeqMod

---------------------------------------------------------------------------
(* NATS.                                                                   *)

\* The rest is not sent again when it is lost: acknowledgements, farewells.
Repeated(msg) == msg.kind = "data"

\* The message of e is lost, at once or for want of room, or arrives.
Publish(e, msg) ==
    LET p == Peer(e)
        Lost == UNCHANGED inbox /\ missed' = (missed \/ ~Repeated(msg))
        Arrives(at, m) == inbox' = [inbox EXCEPT ![at] = Append(@, m)] /\ UNCHANGED missed
    IN \/ /\ ~ends[p].closed
          /\ \/ losses < MaxLosses /\ losses' = losses + 1 /\ Lost
             \/ Len(inbox[p]) = InboxSize /\ UNCHANGED losses /\ Lost
             \/ Len(inbox[p]) < InboxSize /\ UNCHANGED losses /\ Arrives(p, msg)
       \/ /\ ends[p].closed /\ msg.kind \in {"data", "bye"}
          /\ UNCHANGED losses
          /\ \/ ends[e].closed /\ UNCHANGED <<inbox, missed>>
             \/ ~ends[e].closed /\ Len(inbox[e]) = InboxSize /\ Lost
             \/ ~ends[e].closed /\ Len(inbox[e]) < InboxSize /\ Arrives(e, Signal("refused"))
       \/ /\ ends[p].closed /\ msg.kind \notin {"data", "bye"}
          /\ UNCHANGED <<inbox, losses, missed>>

---------------------------------------------------------------------------
(* Send and Recv.                                                          *)

BeginSend(e) ==
    /\ threads[e]["send"].pc = "idle" /\ sent[e] < Sends[e]
    /\ LET n == (ends[e].localSeq + 1) % SeqMod
       IN /\ ends' = [ends EXCEPT ![e].localSeq = n]
          /\ Publish(e, [kind |-> "data", seq |-> n, body |-> sent[e] + 1])
    /\ sent' = [sent EXCEPT ![e] = @ + 1]
    /\ Goto(e, "send", "run")
    /\ UNCHANGED <<confirmed, delivered, raced>>

Copies(e) == {i \in DOMAIN inbox[Peer(e)] : inbox[Peer(e)][i] = Data(e)}

Retry(e) ==
    /\ Waiting(e, "send", "run") /\ Cardinality(Copies(e)) < MaxCopies
    /\ Publish(e, Data(e))
    /\ UNCHANGED <<ends, threads, history, raced>>

TakeAck(e) ==
    /\ Waiting(e, "send", "run") /\ ends[e].acks > 0
    /\ ends' = [ends EXCEPT ![e].acks = @ - 1]
    /\ confirmed' = [confirmed EXCEPT ![e] = sent[e]]
    /\ Goto(e, "send", "idle")
    /\ UNCHANGED <<inbox, sent, delivered, losses, missed, raced>>

SeeClosed(e) ==
    /\ Waiting(e, "send", "run") /\ ends[e].closed
    /\ Goto(e, "send", "ended")
    /\ UNCHANGED <<inbox, ends, history, losses, missed, raced>>

\* Recv returns, and is called again unless the message cannot be written to the
\* websocket; it does not look whether the stream is closed.
Recv(e) ==
    /\ Waiting(e, "recv", "run") /\ ends[e].recvq # <<>>
    /\ delivered' = [delivered EXCEPT ![e] = Append(@, Head(ends[e].recvq))]
    /\ ends' = [ends EXCEPT ![e].recvq = Tail(@)]
    /\ \E pc \in {"run", "failed"} : Goto(e, "recv", pc)
    /\ UNCHANGED <<inbox, sent, confirmed, losses, missed, raced>>

\* The context of Send and Recv ends: that of a device with its connection, at any
\* time, that of a user when the handler has returned, after its Close.
Cancelled(e) == e = "user" => threads[e]["main"].pc = "done"

Cancel(e, k) ==
    /\ Waiting(e, k, "run") /\ Cancelled(e)
    /\ Goto(e, k, "failed")
    /\ UNCHANGED <<inbox, ends, history, losses, missed, raced>>

---------------------------------------------------------------------------
(* handleMessage, called by each of the loops.                             *)

\* Thread k of e takes a message of the kind; with it a round of the loop of
\* Close is over.
First(e) == Head(inbox[e])

Taken(e, k, kind) ==
    /\ \/ Waiting(e, k, "run")
       \/ Waiting(e, k, "closing") /\ threads[e][k].rounds < Rounds
    /\ inbox[e] # <<>> /\ First(e).kind = kind

Round(e, k) ==
    [threads[e][k] EXCEPT !.rounds = IF threads[e][k].pc = "closing" THEN @ + 1 ELSE @]
Rest(e) == [inbox EXCEPT ![e] = Tail(@)]

\* The message n is the next one (0), the one before (1), or a violation.
Expected(e, n) == Diff(ends[e].remoteSeq, n)
Answered(e, n) == Diff(ends[e].localSeq, n)
Room(e) == Len(ends[e].recvq) < RecvSize

TakeData(e, k) ==
    /\ Taken(e, k, "data")
    /\ Set(e, k, [Round(e, k) EXCEPT !.hand = First(e)])
    /\ raced' = \E j \in Threads : Holds(e, j)
    /\ inbox' = Rest(e)
    /\ UNCHANGED <<ends, history, losses, missed>>

Checking(e, k) == Holds(e, k) /\ ~threads[e][k].counting
Hand(e, k) == threads[e][k].hand

\* Faulty variant of Push: a message is counted whether there is room or not.
PushAnyway(e, k) ==
    /\ Checking(e, k) /\ Expected(e, Hand(e, k).seq) = 0
    /\ ends' = IF Room(e) THEN [ends EXCEPT ![e].recvq = Append(@, Hand(e, k).body)] ELSE ends
    /\ Set(e, k, [threads[e][k] EXCEPT !.counting = TRUE])
    /\ UNCHANGED <<inbox, history, losses, missed, raced>>

Push(e, k) ==
    /\ Checking(e, k) /\ Expected(e, Hand(e, k).seq) = 0 /\ Room(e)
    /\ ends' = [ends EXCEPT ![e].recvq = Append(@, Hand(e, k).body)]
    /\ Set(e, k, [threads[e][k] EXCEPT !.counting = TRUE])
    /\ UNCHANGED <<inbox, history, losses, missed, raced>>

\* A message for which there is no room is dropped, the one before is ignored;
\* neither is acknowledged.
Skip(e, k) ==
    /\ Checking(e, k)
    /\ \/ Expected(e, Hand(e, k).seq) = 0 /\ ~Room(e)
       \/ Expected(e, Hand(e, k).seq) = 1
    /\ Set(e, k, [threads[e][k] EXCEPT !.hand = Nothing])
    /\ UNCHANGED <<inbox, ends, history, losses, missed, raced>>

\* Faulty variant of Count: there is no acknowledgement.
CountSilently(e, k) ==
    /\ threads[e][k].counting
    /\ ends' = [ends EXCEPT ![e].remoteSeq = (@ + 1) % SeqMod]
    /\ Set(e, k, [threads[e][k] EXCEPT !.counting = FALSE, !.hand = Nothing])
    /\ UNCHANGED <<inbox, losses, missed, history, raced>>

\* remoteSeq++ and the acknowledgement.
Count(e, k) ==
    /\ threads[e][k].counting
    /\ ends' = [ends EXCEPT ![e].remoteSeq = (@ + 1) % SeqMod]
    /\ Publish(e, Ack(Hand(e, k).seq))
    /\ Set(e, k, [threads[e][k] EXCEPT !.counting = FALSE, !.hand = Nothing])
    /\ UNCHANGED <<history, raced>>

HandleAck(e, k) ==
    /\ Taken(e, k, "ack")
    /\ LET answered == Answered(e, First(e).seq)
       IN /\ answered \in {0, 1}
          /\ ends' = IF answered = 0 /\ ends[e].acks < 4 THEN [ends EXCEPT ![e].acks = @ + 1] ELSE ends
    /\ inbox' = Rest(e)
    /\ Set(e, k, Round(e, k))
    /\ UNCHANGED <<history, losses, missed, raced>>

Returns(e, k, error) == IF threads[e][k].pc = "closing" THEN "done" ELSE error

\* term: an end that is closed already returns an error.
Ended(e, k) ==
    /\ ends' = [ends EXCEPT ![e].closed = TRUE]
    /\ Set(e, k, [Round(e, k) EXCEPT !.pc = IF ends[e].closed THEN Returns(e, k, "ended") ELSE @])

\* Faulty variant of HandleBye: a farewell is taken note of by nobody.
IgnoreBye(e, k) ==
    /\ Taken(e, k, "bye")
    /\ inbox' = Rest(e)
    /\ Set(e, k, Round(e, k))
    /\ UNCHANGED <<ends, history, losses, missed, raced>>

\* The answer goes to an end that repeats its farewell.
HandleBye(e, k) ==
    /\ Taken(e, k, "bye")
    /\ inbox' = IF ends[Peer(e)].closed \/ Len(inbox[Peer(e)]) = InboxSize THEN Rest(e)
                ELSE [Rest(e) EXCEPT ![Peer(e)] = Append(@, Signal("byeack"))]
    /\ Ended(e, k)
    /\ UNCHANGED <<history, losses, missed, raced>>

HandleByeAck(e, k) ==
    /\ Taken(e, k, "byeack")
    /\ inbox' = Rest(e)
    /\ Ended(e, k)
    /\ UNCHANGED <<history, losses, missed, raced>>

\* Nobody is subscribed at the other end: the call fails, Close too.
HandleRefusal(e, k) ==
    /\ Taken(e, k, "refused")
    /\ inbox' = Rest(e)
    /\ Set(e, k, [Round(e, k) EXCEPT !.pc = Returns(e, k, "failed")])
    /\ UNCHANGED <<ends, history, losses, missed, raced>>

---------------------------------------------------------------------------
(* Close.                                                                  *)

\* The handler of a request closes when it returns: that of a user when one of the
\* others has, that of a device, by way of its listener, when the connection ends.
\* Of the others, the one that sends for a user closes when the session ends or Send
\* fails, unless the stream is closed, the one that receives for a device in any case.
MayClose(e, k) ==
    LET pc == threads[e][k].pc
    IN \/ k = "main" /\ pc = "idle"
       \/ e = "user" /\ k = "send" /\ pc \in {"idle", "failed"}
       \/ e = "device" /\ k = "recv" /\ pc \in {"ended", "failed"}

Closes == {c \in Ends \X Threads : threads[c[1]][c[2]].pc \in {"closing", "done"}}

BeginClose(e, k) ==
    /\ MayClose(e, k) /\ Cardinality(Closes) < MaxCloses
    /\ Publish(e, Signal("bye"))
    /\ Goto(e, k, "closing")
    /\ UNCHANGED <<ends, history, raced>>

RepeatBye(e, k) ==
    /\ Waiting(e, k, "closing") /\ threads[e][k].rounds < Rounds
    /\ Publish(e, Signal("bye"))
    /\ Set(e, k, Round(e, k))
    /\ UNCHANGED <<ends, history, raced>>

EndClose(e, k) ==
    /\ Waiting(e, k, "closing")
    /\ ends[e].closed \/ threads[e][k].rounds = Rounds
    /\ ends' = [ends EXCEPT ![e].closed = TRUE]
    /\ Goto(e, k, "done")
    /\ UNCHANGED <<inbox, history, losses, missed, raced>>

\* The context of Close has ended, or ends: nothing is terminated.
AbandonClose(e, k) ==
    /\ Waiting(e, k, "closing") /\ threads[e][k].rounds < Rounds
    /\ Goto(e, k, "done")
    /\ UNCHANGED <<inbox, ends, history, losses, missed, raced>>

Close(e, k) == BeginClose(e, k) \/ RepeatBye(e, k) \/ EndClose(e, k) \/ AbandonClose(e, k)

---------------------------------------------------------------------------

Init ==
    /\ inbox = [e \in Ends |-> <<>>]
    /\ ends = [e \in Ends |->
         [localSeq |-> 0, remoteSeq |-> 1, recvq |-> <<>>, acks |-> 0, closed |-> FALSE]]
    /\ threads = [e \in Ends |-> [k \in Threads |-> NewThread(k)]]
    /\ sent = [e \in Ends |-> 0]
    /\ confirmed = [e \in Ends |-> 0]
    /\ delivered = [e \in Ends |-> <<>>]
    /\ losses = 0
    /\ missed = FALSE /\ raced = FALSE

Handle(e, k) ==
    \/ TakeData(e, k) \/ Push(e, k) \/ Skip(e, k) \/ Count(e, k) \/ HandleAck(e, k)
    \/ HandleBye(e, k) \/ HandleByeAck(e, k) \/ HandleRefusal(e, k)

\* What follows a race is left out: it leaves remoteSeq one or two further, and
\* no property speaks of it.
Next ==
    \E e \in Ends : ~raced /\
       (\/ BeginSend(e) \/ Retry(e) \/ TakeAck(e) \/ SeeClosed(e) \/ Recv(e)
        \/ \E k \in Threads : Cancel(e, k) \/ Handle(e, k) \/ Close(e, k))

Spec == Init /\ [][Next]_vars

---------------------------------------------------------------------------
(* Properties.                                                             *)

Messages == [kind: {"none", "data", "ack", "bye", "byeack", "refused"}, seq: 0..(SeqMod - 1),
             body: Nat]

\* Type invariant.
TypeOK ==
    /\ inbox \in [Ends -> Seq(Messages)]
    /\ ends \in [Ends -> [localSeq: 0..(SeqMod - 1), remoteSeq: 0..(SeqMod - 1),
                          recvq: Seq(Nat), acks: 0..4, closed: BOOLEAN]]
    /\ threads \in [Ends -> [Threads ->
         [pc: PCs, hand: Messages, counting: BOOLEAN, rounds: 0..Rounds]]]
    /\ sent \in [Ends -> Nat] /\ confirmed \in [Ends -> Nat]
    /\ delivered \in [Ends -> Seq(Nat)]
    /\ losses \in 0..MaxLosses
    /\ missed \in BOOLEAN /\ raced \in BOOLEAN

\* The direction from e, as the pipe it is to be.
Direction(e) == INSTANCE Pipe WITH
    sent <- sent[e], confirmed <- confirmed[e],
    queue <- ends[Peer(e)].recvq, delivered <- delivered[Peer(e)]

\* Each direction is a pipe: messages arrive exactly once and in order, in spite
\* of losses, full channels and repetitions, and Send returns when they arrived;
\* until two threads of an end handle data messages at the same time, be they copies
\* of one message or of two.
IsPipe ==
    /\ \A e \in Ends : Direction(e)!Init
    /\ [][raced' \/ \A e \in Ends : [Direction(e)!Next]_(Direction(e)!pipe)]_vars

\* Without such a race no end ever takes a message of its peer for a violation of
\* the protocol: the number is the expected one or the one before, in spite of
\* repetitions and of numbers that begin again.  What the code does with other
\* numbers is left out for this reason.
NoViolation ==
    \A e \in Ends :
        ~raced =>
            /\ \A k \in Threads : Checking(e, k) => Expected(e, Hand(e, k).seq) \in {0, 1}
            /\ inbox[e] # <<>> /\ First(e).kind = "ack" => Answered(e, First(e).seq) \in {0, 1}

InInbox(e, msg) == \E i \in DOMAIN inbox[e] : inbox[e][i] = msg
Sending(e) == threads[e]["send"].pc = "run"

\* A call of Send is never left without an answer, unless an acknowledgement was
\* lost, which is not repeated: it has one, or one is under way, or the message it
\* repeats is still the one the other end waits for.
SendCanReturn ==
    \A e \in Ends :
        Sending(e) /\ ~missed /\ ~raced =>
            \/ ends[e].acks > 0 \/ InInbox(e, Ack(ends[e].localSeq))
            \/ \E k \in Threads : threads[Peer(e)][k].counting
            \/ Expected(Peer(e), ends[e].localSeq) = 0
            \/ ends[e].closed \/ ends[Peer(e)].closed

\* A thread of e has begun to close it.
Leaving(e) == \E k \in Threads : threads[e][k].pc \in {"closing", "done"}

\* Whichever end begins to close, also when both do at the same time: the other one is
\* closed or has the farewell to read, unless a farewell or an answer was lost; and no
\* end is closed by anything else than a Close that it or the other one began.
PeerLearns ==
    \A e \in Ends :
        ~missed /\ ~raced =>
            /\ Leaving(e) => ends[Peer(e)].closed \/ InInbox(Peer(e), Signal("bye"))
            /\ ends[e].closed => Leaving(e) \/ Leaving(Peer(e))
=============================================================================
