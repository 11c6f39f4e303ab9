---------------------------- MODULE Stream_proofs ----------------------------
(***************************************************************************)
(* Proofs about Stream, for any number of messages, capacity, modulus of   *)
(* the sequence numbers, losses and closes.                                *)
(***************************************************************************)
EXTENDS Stream, SequenceTheorems, TLAPS

---------------------------------------------------------------------------
(* Types.                                                                  *)

EndType ==
    [localSeq: 0..(SeqMod - 1), remoteSeq: 0..(SeqMod - 1), recvq: Seq(Nat), acks: 0..4,
     closed: BOOLEAN]
ThreadType == [pc: PCs, hand: Messages, counting: BOOLEAN, rounds: 0..Rounds]

InboxOK == inbox \in [Ends -> Seq(Messages)]
EndsOK == ends \in [Ends -> EndType]
ThreadsOK == threads \in [Ends -> [Threads -> ThreadType]]
HistoryOK ==
    /\ sent \in [Ends -> Nat] /\ confirmed \in [Ends -> Nat]
    /\ delivered \in [Ends -> Seq(Nat)]
LossesOK == losses \in 0..MaxLosses /\ missed \in BOOLEAN
RacedOK == raced \in BOOLEAN

TypesOK == InboxOK /\ EndsOK /\ ThreadsOK /\ HistoryOK /\ LossesOK /\ RacedOK

\* The type invariant, in parts.
LEMMA TypeParts == TypesOK => TypeOK
BY DEF TypesOK, TypeOK, InboxOK, EndsOK, ThreadsOK, HistoryOK, LossesOK, RacedOK, EndType, ThreadType

\* The messages the ends make.
LEMMA MessageTypes ==
    /\ \A kind \in {"none", "bye", "byeack", "refused"} : Signal(kind) \in Messages
    /\ Nothing \in Messages
    /\ \A n \in 0..(SeqMod - 1) : Ack(n) \in Messages
    /\ \A n \in 0..(SeqMod - 1), b \in Nat : [kind |-> "data", seq |-> n, body |-> b] \in Messages
BY SizesAssumption DEF Signal, Nothing, Ack, Messages

\* The other end.
LEMMA PeerType == \A e \in Ends : Peer(e) \in Ends /\ Peer(e) # e /\ Peer(Peer(e)) = e
BY DEF Ends, Peer

\* A number counted further, modulo SeqMod.
LEMMA NextNumber == \A n \in 0..(SeqMod - 1) : (n + 1) % SeqMod \in 0..(SeqMod - 1)
<1>1. ASSUME NEW M \in Nat, M > 2, NEW n \in 0..(M - 1) PROVE (n + 1) % M \in 0..(M - 1)
  OBVIOUS
<1> QED BY <1>1, SizesAssumption

\* A publication appends a message to an inbox, or loses it.
LEMMA PublishTypes ==
    ASSUME InboxOK, LossesOK, NEW e \in Ends, NEW msg \in Messages, Publish(e, msg)
    PROVE  InboxOK' /\ LossesOK'
<1> DEFINE p == Peer(e)
<1>1. p \in Ends
  BY PeerType
<1>2. ASSUME NEW x \in Ends, NEW m \in Messages, inbox' = [inbox EXCEPT ![x] = Append(@, m)]
      PROVE  InboxOK'
  <2>1. Append(inbox[x], m) \in Seq(Messages)
    BY DEF InboxOK
  <2> QED BY <1>2, <2>1 DEF InboxOK
<1>3. InboxOK'
  <2>1. \/ UNCHANGED inbox
        \/ inbox' = [inbox EXCEPT ![p] = Append(@, msg)]
        \/ inbox' = [inbox EXCEPT ![e] = Append(@, Signal("refused"))]
    BY DEF Publish
  <2>2. Signal("refused") \in Messages
    BY MessageTypes
  <2>3. CASE UNCHANGED inbox
    BY <2>3 DEF InboxOK
  <2> QED BY <1>1, <1>2, <2>1, <2>2, <2>3
<1>4. losses' = losses \/ (losses < MaxLosses /\ losses' = losses + 1)
  BY DEF Publish
<1>5. losses' \in 0..MaxLosses
  BY <1>4, SizesAssumption DEF LossesOK
<1>6. missed' = missed \/ missed' = (missed \/ ~Repeated(msg)) \/ missed' = (missed \/ ~Repeated(Signal("refused")))
  BY DEF Publish
<1>7. missed' \in BOOLEAN
  BY <1>6 DEF LossesOK, Repeated
<1> QED BY <1>3, <1>5, <1>7 DEF LossesOK

\* A thread goes to another state.
LEMMA SetTypes ==
    ASSUME ThreadsOK, NEW e \in Ends, NEW k \in Threads, NEW t \in ThreadType, Set(e, k, t)
    PROVE  ThreadsOK'
BY DEF ThreadsOK, Set

\* Each thread has a state.
LEMMA ThreadHas ==
    ASSUME ThreadsOK, NEW e \in Ends, NEW k \in Threads
    PROVE  threads[e][k] \in ThreadType
BY DEF ThreadsOK

\* A thread goes to another position.
LEMMA GotoTypes ==
    ASSUME ThreadsOK, NEW e \in Ends, NEW k \in Threads, NEW pc \in PCs, Goto(e, k, pc)
    PROVE  ThreadsOK'
<1>1. [threads[e][k] EXCEPT !.pc = pc] \in ThreadType
  BY ThreadHas DEF ThreadType
<1> QED BY <1>1, SetTypes DEF Goto

\* A round of Close is over, if there was one left.
LEMMA RoundTypes ==
    ASSUME ThreadsOK, NEW e \in Ends, NEW k \in Threads,
           threads[e][k].pc = "closing" => threads[e][k].rounds < Rounds
    PROVE  Round(e, k) \in ThreadType
<1>1. threads[e][k] \in ThreadType
  BY ThreadHas
<1>2. ASSUME NEW n \in 0..Rounds PROVE n < Rounds => n + 1 \in 0..Rounds
  BY SizesAssumption
<1> QED BY <1>1, <1>2 DEF Round, ThreadType

\* An end changes.
LEMMA EndTypes ==
    ASSUME EndsOK, NEW e \in Ends, NEW r \in EndType, ends' = [ends EXCEPT ![e] = r]
    PROVE  EndsOK'
BY DEF EndsOK

\* The steps of the callers of Send and Recv.
LEMMA CallTypes ==
    ASSUME TypesOK, NEW e \in Ends,
           BeginSend(e) \/ Retry(e) \/ TakeAck(e) \/ SeeClosed(e) \/ Recv(e)
    PROVE  TypesOK'
<1>i. /\ InboxOK /\ EndsOK /\ ThreadsOK /\ HistoryOK /\ LossesOK /\ RacedOK
      /\ ends[e] \in EndType /\ "send" \in Threads /\ "recv" \in Threads
      /\ {"idle", "run", "ended", "failed"} \subseteq PCs
  BY DEF TypesOK, EndsOK, Threads, PCs
<1>1. CASE BeginSend(e)
  <2> DEFINE n == (ends[e].localSeq + 1) % SeqMod
  <2>1. n \in 0..(SeqMod - 1)
    BY <1>i, NextNumber DEF EndType
  <2> HIDE DEF n
  <2>2. sent[e] \in Nat /\ sent[e] + 1 \in Nat
    BY <1>i DEF HistoryOK
  <2>3. /\ ends' = [ends EXCEPT ![e].localSeq = n]
        /\ Publish(e, [kind |-> "data", seq |-> n, body |-> sent[e] + 1])
        /\ sent' = [sent EXCEPT ![e] = @ + 1] /\ Goto(e, "send", "run")
        /\ UNCHANGED <<confirmed, delivered, raced>>
    BY <1>1 DEF BeginSend, n
  <2>4. InboxOK' /\ LossesOK'
    BY <1>i, <2>1, <2>2, <2>3, MessageTypes, PublishTypes
  <2>5. EndsOK'
    BY <1>i, <2>1, <2>3 DEF EndsOK, EndType
  <2>6. HistoryOK' /\ RacedOK'
    BY <1>i, <2>2, <2>3 DEF HistoryOK, RacedOK
  <2>7. ThreadsOK'
    BY <1>i, <2>3, GotoTypes
  <2> QED BY <2>4, <2>5, <2>6, <2>7 DEF TypesOK
<1>2. CASE Retry(e)
  <2>1. Data(e) \in Messages
    BY <1>i, MessageTypes DEF Data, EndType, HistoryOK
  <2>2. Publish(e, Data(e)) /\ UNCHANGED <<ends, threads, history, raced>>
    BY <1>2 DEF Retry
  <2>3. InboxOK' /\ LossesOK'
    BY <1>i, <2>1, <2>2, PublishTypes
  <2> QED BY <1>i, <2>2, <2>3 DEF TypesOK, EndsOK, ThreadsOK, HistoryOK, RacedOK, history
<1>3. CASE TakeAck(e)
  <2>1. /\ ends' = [ends EXCEPT ![e].acks = @ - 1] /\ ends[e].acks > 0
        /\ confirmed' = [confirmed EXCEPT ![e] = sent[e]] /\ Goto(e, "send", "idle")
        /\ UNCHANGED <<inbox, sent, delivered, losses, missed, raced>>
    BY <1>3 DEF TakeAck
  <2>2. ends[e].acks - 1 \in 0..4
    BY <1>i, <2>1 DEF EndType
  <2>3. EndsOK'
    BY <1>i, <2>1, <2>2 DEF EndsOK, EndType
  <2>4. ThreadsOK'
    BY <1>i, <2>1, GotoTypes
  <2> QED BY <1>i, <2>1, <2>3, <2>4 DEF TypesOK, InboxOK, HistoryOK, LossesOK, RacedOK
<1>4. CASE SeeClosed(e)
  <2>1. ThreadsOK'
    BY <1>i, <1>4, GotoTypes DEF SeeClosed
  <2> QED BY <1>i, <1>4, <2>1 DEF TypesOK, SeeClosed, InboxOK, EndsOK, HistoryOK, LossesOK, RacedOK, history
<1>5. CASE Recv(e)
  <2>1. /\ ends[e].recvq # <<>>
        /\ delivered' = [delivered EXCEPT ![e] = Append(@, Head(ends[e].recvq))]
        /\ ends' = [ends EXCEPT ![e].recvq = Tail(@)]
        /\ UNCHANGED <<inbox, sent, confirmed, losses, missed, raced>>
    BY <1>5 DEF Recv
  <2>2. ends[e].recvq \in Seq(Nat)
    BY <1>i DEF EndType
  <2>3. Head(ends[e].recvq) \in Nat /\ Tail(ends[e].recvq) \in Seq(Nat)
    BY <2>1, <2>2
  <2>4. EndsOK'
    BY <1>i, <2>1, <2>3 DEF EndsOK, EndType
  <2>5. HistoryOK'
    BY <1>i, <2>1, <2>3 DEF HistoryOK
  <2>6. PICK pc \in {"run", "failed"} : Goto(e, "recv", pc)
    BY <1>5 DEF Recv
  <2>7. ThreadsOK'
    BY <1>i, <2>6, GotoTypes
  <2> QED BY <1>i, <2>1, <2>4, <2>5, <2>7 DEF TypesOK, InboxOK, LossesOK, RacedOK
<1> QED BY <1>1, <1>2, <1>3, <1>4, <1>5

\* The end of a call's context.
LEMMA CancelTypes ==
    ASSUME TypesOK, NEW e \in Ends, NEW k \in Threads, Cancel(e, k)
    PROVE  TypesOK'
<1>i. InboxOK /\ EndsOK /\ ThreadsOK /\ HistoryOK /\ LossesOK /\ RacedOK /\ "failed" \in PCs
  BY DEF TypesOK, PCs
<1>1. Goto(e, k, "failed") /\ UNCHANGED <<inbox, ends, history, losses, missed, raced>>
  BY DEF Cancel
<1>2. ThreadsOK'
  BY <1>i, <1>1, GotoTypes
<1> QED BY <1>i, <1>1, <1>2 DEF TypesOK, InboxOK, EndsOK, HistoryOK, LossesOK, RacedOK, history

\* A message that is taken is one, and the rest stays.
LEMMA TakenTypes ==
    ASSUME TypesOK, NEW e \in Ends, inbox[e] # <<>>
    PROVE  /\ First(e) \in Messages
           /\ Rest(e) \in [Ends -> Seq(Messages)]
<1>1. inbox[e] \in Seq(Messages)
  BY DEF TypesOK, InboxOK
<1>2. Head(inbox[e]) \in Messages /\ Tail(inbox[e]) \in Seq(Messages)
  BY <1>1
<1> QED BY <1>2 DEF First, Rest, TypesOK, InboxOK

\* The steps of handleMessage.
LEMMA HandleTypes ==
    ASSUME TypesOK, NEW e \in Ends, NEW k \in Threads, Handle(e, k)
    PROVE  TypesOK'
<1>i. /\ InboxOK /\ EndsOK /\ ThreadsOK /\ HistoryOK /\ LossesOK /\ RacedOK
      /\ ends[e] \in EndType /\ threads[e][k] \in ThreadType /\ Nothing \in Messages
      /\ Returns(e, k, "ended") \in PCs /\ Returns(e, k, "failed") \in PCs
  BY ThreadHas, MessageTypes DEF TypesOK, EndsOK, PCs, Returns
<1>k. ASSUME UNCHANGED history PROVE HistoryOK'
  BY <1>i, <1>k DEF HistoryOK, history
<1>l. ASSUME UNCHANGED <<losses, missed>> PROVE LossesOK'
  BY <1>i, <1>l DEF LossesOK
<1>r. ASSUME UNCHANGED raced PROVE RacedOK'
  BY <1>i, <1>r DEF RacedOK
<1>t. ASSUME NEW kind, Taken(e, k, kind)
      PROVE  First(e) \in Messages /\ Rest(e) \in [Ends -> Seq(Messages)] /\ Round(e, k) \in ThreadType
  BY <1>i, <1>t, TakenTypes, RoundTypes DEF Taken, Waiting
<1>1. CASE TakeData(e, k)
  <2>1. [Round(e, k) EXCEPT !.hand = First(e)] \in ThreadType
    BY <1>t, <1>1 DEF TakeData, ThreadType
  <2>2. ThreadsOK' /\ InboxOK'
    BY <1>i, <1>t, <1>1, <2>1, SetTypes DEF TakeData, InboxOK
  <2>3. RacedOK' /\ EndsOK'
    BY <1>i, <1>1 DEF TakeData, RacedOK, EndsOK
  <2> QED BY <1>k, <1>l, <1>1, <2>2, <2>3 DEF TakeData, TypesOK
<1>2. CASE Push(e, k)
  <2>1. ends[e].recvq \in Seq(Nat) /\ Hand(e, k).body \in Nat
    BY <1>i DEF EndType, ThreadType, Messages, Hand
  <2>2. Append(ends[e].recvq, Hand(e, k).body) \in Seq(Nat)
    BY <2>1
  <2>3. EndsOK'
    BY <1>i, <1>2, <2>2 DEF Push, EndsOK, EndType
  <2>4. [threads[e][k] EXCEPT !.counting = TRUE] \in ThreadType
    BY <1>i DEF ThreadType
  <2>5. ThreadsOK'
    BY <1>i, <1>2, <2>4, SetTypes DEF Push
  <2>6. InboxOK'
    BY <1>i, <1>2 DEF Push, InboxOK
  <2> QED BY <1>k, <1>l, <1>r, <1>2, <2>3, <2>5, <2>6 DEF Push, TypesOK
<1>3. CASE Skip(e, k)
  <2>1. [threads[e][k] EXCEPT !.hand = Nothing] \in ThreadType
    BY <1>i DEF ThreadType
  <2>2. ThreadsOK'
    BY <1>i, <1>3, <2>1, SetTypes DEF Skip
  <2>3. InboxOK' /\ EndsOK'
    BY <1>i, <1>3 DEF Skip, InboxOK, EndsOK
  <2> QED BY <1>k, <1>l, <1>r, <1>3, <2>2, <2>3 DEF Skip, TypesOK
<1>4. CASE Count(e, k)
  <2>1. (ends[e].remoteSeq + 1) % SeqMod \in 0..(SeqMod - 1)
    BY <1>i, NextNumber DEF EndType
  <2>2. EndsOK'
    BY <1>i, <1>4, <2>1 DEF Count, EndsOK, EndType
  <2>3. Hand(e, k).seq \in 0..(SeqMod - 1)
    BY <1>i DEF ThreadType, Messages, Hand
  <2>4. InboxOK' /\ LossesOK'
    BY <1>i, <1>4, <2>3, MessageTypes, PublishTypes DEF Count
  <2>5. [threads[e][k] EXCEPT !.counting = FALSE, !.hand = Nothing] \in ThreadType
    BY <1>i DEF ThreadType
  <2>6. ThreadsOK'
    BY <1>i, <1>4, <2>5, SetTypes DEF Count
  <2> QED BY <1>k, <1>r, <1>4, <2>2, <2>4, <2>6 DEF Count, TypesOK
<1>5. CASE HandleAck(e, k)
  <2>1. ends[e].acks < 4 => ends[e].acks + 1 \in 0..4
    BY <1>i DEF EndType
  <2>2. ends' = ends \/ (ends[e].acks < 4 /\ ends' = [ends EXCEPT ![e].acks = @ + 1])
    BY <1>5 DEF HandleAck
  <2>3. EndsOK'
    BY <1>i, <2>1, <2>2 DEF EndsOK, EndType
  <2>4. ThreadsOK' /\ InboxOK'
    BY <1>i, <1>t, <1>5, SetTypes DEF HandleAck, InboxOK
  <2> QED BY <1>k, <1>l, <1>r, <1>5, <2>3, <2>4 DEF HandleAck, TypesOK
<1>e. ASSUME Ended(e, k), Round(e, k) \in ThreadType PROVE EndsOK' /\ ThreadsOK'
  <2>1. EndsOK'
    BY <1>i, <1>e DEF Ended, EndsOK, EndType
  <2> DEFINE t == [Round(e, k) EXCEPT !.pc = IF ends[e].closed THEN Returns(e, k, "ended") ELSE @]
  <2>2. t \in ThreadType
    BY <1>i, <1>e DEF ThreadType
  <2> QED BY <1>i, <1>e, <2>1, <2>2, SetTypes DEF Ended
<1>6. CASE HandleBye(e, k)
  <2> DEFINE p == Peer(e)
  <2>1. p \in Ends /\ p # e /\ Signal("byeack") \in Messages
    BY PeerType, MessageTypes
  <2>2. Rest(e) \in [Ends -> Seq(Messages)] /\ Round(e, k) \in ThreadType
    BY <1>t, <1>6 DEF HandleBye
  <2>3. Rest(e)[p] \in Seq(Messages)
    BY <2>1, <2>2
  <2>4. Append(Rest(e)[p], Signal("byeack")) \in Seq(Messages)
    BY <2>1, <2>3
  <2>5. inbox' = Rest(e) \/ inbox' = [Rest(e) EXCEPT ![p] = Append(@, Signal("byeack"))]
    BY <1>6 DEF HandleBye
  <2>6. InboxOK'
    BY <2>2, <2>4, <2>5 DEF InboxOK
  <2>7. EndsOK' /\ ThreadsOK'
    BY <1>e, <1>6, <2>2 DEF HandleBye
  <2> QED BY <1>k, <1>l, <1>r, <1>6, <2>6, <2>7 DEF HandleBye, TypesOK
<1>7. CASE HandleByeAck(e, k)
  <2>1. InboxOK' /\ EndsOK' /\ ThreadsOK'
    BY <1>e, <1>t, <1>7 DEF HandleByeAck, InboxOK
  <2> QED BY <1>k, <1>l, <1>r, <1>7, <2>1 DEF HandleByeAck, TypesOK
<1>8. CASE HandleRefusal(e, k)
  <2>1. [Round(e, k) EXCEPT !.pc = Returns(e, k, "failed")] \in ThreadType
    BY <1>i, <1>t, <1>8 DEF HandleRefusal, ThreadType
  <2>2. InboxOK' /\ EndsOK' /\ ThreadsOK'
    BY <1>i, <1>t, <1>8, <2>1, SetTypes DEF HandleRefusal, InboxOK, EndsOK
  <2> QED BY <1>k, <1>l, <1>r, <1>8, <2>2 DEF HandleRefusal, TypesOK
<1> QED BY <1>1, <1>2, <1>3, <1>4, <1>5, <1>6, <1>7, <1>8 DEF Handle

\* The steps of Close.
LEMMA CloseTypes ==
    ASSUME TypesOK, NEW e \in Ends, NEW k \in Threads, Close(e, k)
    PROVE  TypesOK'
<1>i. /\ InboxOK /\ EndsOK /\ ThreadsOK /\ HistoryOK /\ LossesOK /\ RacedOK
      /\ Signal("bye") \in Messages /\ {"closing", "done"} \subseteq PCs
  BY MessageTypes DEF TypesOK, PCs
<1>1. CASE BeginClose(e, k)
  <2>1. Publish(e, Signal("bye")) /\ Goto(e, k, "closing") /\ UNCHANGED <<ends, history, raced>>
    BY <1>1 DEF BeginClose
  <2>2. InboxOK' /\ LossesOK' /\ ThreadsOK'
    BY <1>i, <2>1, PublishTypes, GotoTypes
  <2> QED BY <1>i, <2>1, <2>2 DEF TypesOK, EndsOK, HistoryOK, RacedOK, history
<1>2. CASE RepeatBye(e, k)
  <2>1. /\ Publish(e, Signal("bye")) /\ Set(e, k, Round(e, k)) /\ UNCHANGED <<ends, history, raced>>
        /\ threads[e][k].rounds < Rounds
    BY <1>2 DEF RepeatBye
  <2>2. InboxOK' /\ LossesOK' /\ ThreadsOK'
    BY <1>i, <2>1, PublishTypes, RoundTypes, SetTypes
  <2> QED BY <1>i, <2>1, <2>2 DEF TypesOK, EndsOK, HistoryOK, RacedOK, history
<1>3. CASE EndClose(e, k)
  <2>1. /\ ends' = [ends EXCEPT ![e].closed = TRUE] /\ Goto(e, k, "done")
        /\ UNCHANGED <<inbox, history, losses, missed, raced>>
    BY <1>3 DEF EndClose
  <2>2. EndsOK' /\ ThreadsOK'
    BY <1>i, <2>1, GotoTypes DEF EndsOK, EndType
  <2> QED BY <1>i, <2>1, <2>2 DEF TypesOK, InboxOK, HistoryOK, LossesOK, RacedOK, history
<1>4. CASE AbandonClose(e, k)
  <2>1. Goto(e, k, "done") /\ UNCHANGED <<inbox, ends, history, losses, missed, raced>>
    BY <1>4 DEF AbandonClose
  <2>2. ThreadsOK'
    BY <1>i, <2>1, GotoTypes
  <2> QED BY <1>i, <2>1, <2>2 DEF TypesOK, InboxOK, EndsOK, HistoryOK, LossesOK, RacedOK, history
<1> QED BY <1>1, <1>2, <1>3, <1>4 DEF Close

\* The steps of the two ends.
LEMMA Steps ==
    ASSUME [Next]_vars
    PROVE  \/ UNCHANGED vars
           \/ ~raced /\ \E e \in Ends :
                \/ BeginSend(e) \/ Retry(e) \/ TakeAck(e) \/ SeeClosed(e) \/ Recv(e)
                \/ \E k \in Threads : Cancel(e, k) \/ Handle(e, k) \/ Close(e, k)
BY DEF Next

\* The types hold when the stream is connected.
LEMMA TypesInit == Init => TypesOK
<1> SUFFICES ASSUME Init PROVE TypesOK
  OBVIOUS
<1>1. 0 \in 0..(SeqMod - 1) /\ 1 \in 0..(SeqMod - 1) /\ 0 \in 0..MaxLosses /\ 0 \in 0..Rounds
  BY SizesAssumption
<1>2. ThreadsOK
  BY <1>1, MessageTypes DEF Init, ThreadsOK, ThreadType, NewThread, PCs
<1>3. EndsOK
  BY <1>1 DEF Init, EndsOK, EndType
<1>4. InboxOK /\ HistoryOK
  BY DEF Init, InboxOK, HistoryOK
<1>5. LossesOK /\ RacedOK
  BY <1>1 DEF Init, LossesOK, RacedOK
<1> QED BY <1>2, <1>3, <1>4, <1>5 DEF TypesOK

\* Every step keeps them.
LEMMA TypesStep == TypesOK /\ [Next]_vars => TypesOK'
<1> SUFFICES ASSUME TypesOK, [Next]_vars PROVE TypesOK'
  OBVIOUS
<1>1. CASE UNCHANGED vars
  BY <1>1 DEF vars, history, TypesOK, InboxOK, EndsOK, ThreadsOK, HistoryOK, LossesOK, RacedOK
<1> QED BY <1>1, Steps, CallTypes, CancelTypes, CloseTypes, HandleTypes

\* The types of the model hold for any number of messages and any capacities.
THEOREM TypeCorrect == Spec => []TypeOK
BY TypesInit, TypesStep, TypeParts, PTL DEF Spec

---------------------------------------------------------------------------
(* The invariant of a direction from e, of which the receiver has counted  *)
(* c messages: what the numbers of both ends say, and that of the messages *)
(* under way none is ahead of the next one, none behind the last one, and  *)
(* at most one acknowledgement answers the message that is being sent.     *)

Succ(n) == (n + 1) % SeqMod
IsData(m) == m.kind = "data"
IsAck(m) == m.kind = "ack"

Pushed(e) == Len(delivered[Peer(e)]) + Len(ends[Peer(e)].recvq)
Counting(p) == \E k \in Threads : threads[p][k].counting

\* After c messages, with the number n expected next: the next one or the last one.
Numbered(m, c, n) ==
    \/ m.body = c + 1 /\ m.seq = n
    \/ m.body = c /\ Succ(m.seq) = n

\* The messages in an inbox, of s that were sent, are in order.
DataOK(q, c, n, s) ==
    /\ \A i \in DOMAIN q : IsData(q[i]) => Numbered(q[i], c, n) /\ q[i].body <= s
    /\ \A i, j \in DOMAIN q : i < j /\ IsData(q[i]) /\ IsData(q[j]) => q[i].body <= q[j].body

\* One message is in the hands of the receiver, and not behind those in its inbox.
HandsOK(t, q, c, n, s) ==
    /\ \A k \in Threads : t[k].hand # Nothing =>
         /\ IsData(t[k].hand) /\ Numbered(t[k].hand, c, n) /\ t[k].hand.body <= s
         /\ \A i \in DOMAIN q : IsData(q[i]) => t[k].hand.body <= q[i].body
    /\ \A j, k \in Threads : t[j].hand # Nothing /\ t[k].hand # Nothing => j = k
    /\ \A k \in Threads : t[k].counting => t[k].hand # Nothing /\ t[k].hand.body = c + 1

CountsOK(e, c) ==
    /\ sent[e] \in {c, c + 1} /\ confirmed[e] <= c /\ sent[e] <= confirmed[e] + 1
    /\ threads[e]["send"].pc = "run" => confirmed[e] < sent[e]
    /\ threads[e]["send"].pc = "idle" => confirmed[e] = sent[e]
    /\ ends[Peer(e)].remoteSeq = IF sent[e] = c THEN Succ(ends[e].localSeq) ELSE ends[e].localSeq
    /\ Pushed(e) = IF Counting(Peer(e)) THEN c + 1 ELSE c

\* An acknowledgement is of the message that is being sent, and there is one.
AcksOK(e, c) ==
    /\ ends[e].acks <= 1
    /\ ends[e].acks = 1 => c = sent[e] /\ confirmed[e] < sent[e]
    /\ \A i \in DOMAIN inbox[e] : IsAck(inbox[e][i]) =>
         /\ inbox[e][i].seq = ends[e].localSeq /\ c = sent[e] /\ confirmed[e] < sent[e]
         /\ ends[e].acks = 0
    /\ \A i, j \in DOMAIN inbox[e] : IsAck(inbox[e][i]) /\ IsAck(inbox[e][j]) => i = j

OrderlyAt(e, c) ==
    /\ CountsOK(e, c) /\ AcksOK(e, c)
    /\ HandsOK(threads[Peer(e)], inbox[Peer(e)], c, ends[Peer(e)].remoteSeq, sent[e])
    /\ DataOK(inbox[Peer(e)], c, ends[Peer(e)].remoteSeq, sent[e])
Orderly(e) == \E c \in Nat : OrderlyAt(e, c)

Inv == raced \/ \A e \in Ends : Orderly(e)

\* The messages of a kind in r are those of q, in order, but perhaps for the first of q.
KeepsData(q, r) ==
    \E s \in {0, 1} : \A i \in DOMAIN r : IsData(r[i]) => i + s \in DOMAIN q /\ r[i] = q[i + s]
KeepsAcks(q, r) ==
    \E s \in {0, 1} : \A i \in DOMAIN r : IsAck(r[i]) => i + s \in DOMAIN q /\ r[i] = q[i + s]

\* An inbox as it was keeps both.
LEMMA KeepsSame ==
    ASSUME NEW q \in Seq(Messages)
    PROVE  KeepsData(q, q) /\ KeepsAcks(q, q)
<1>1. \A i \in DOMAIN q : i + 0 = i
  OBVIOUS
<1> QED BY <1>1 DEF KeepsData, KeepsAcks

\* So does the rest of it.
LEMMA KeepsTail ==
    ASSUME NEW q \in Seq(Messages), q # <<>>
    PROVE  KeepsData(q, Tail(q)) /\ KeepsAcks(q, Tail(q))
<1>1. \A i \in DOMAIN Tail(q) : i + 1 \in DOMAIN q /\ Tail(q)[i] = q[i + 1]
  OBVIOUS
<1> QED BY <1>1 DEF KeepsData, KeepsAcks

\* So does it with one more message, but of its own kind.
LEMMA KeepsAppend ==
    ASSUME NEW q \in Seq(Messages), NEW m \in Messages
    PROVE  /\ ~IsData(m) => KeepsData(q, Append(q, m))
           /\ ~IsAck(m) => KeepsAcks(q, Append(q, m))
<1>1. /\ DOMAIN Append(q, m) = DOMAIN q \union {Len(q) + 1} /\ Append(q, m)[Len(q) + 1] = m
      /\ \A i \in DOMAIN q : Append(q, m)[i] = q[i]
  OBVIOUS
<1>2. \A i \in DOMAIN q : i + 0 \in DOMAIN q /\ Append(q, m)[i] = q[i + 0]
  BY <1>1
<1>3. ASSUME ~IsData(m) PROVE KeepsData(q, Append(q, m))
  <2>1. \A i \in DOMAIN Append(q, m) : IsData(Append(q, m)[i]) => i \in DOMAIN q
    BY <1>1, <1>3
  <2> QED BY <1>2, <2>1 DEF KeepsData
<1>4. ASSUME ~IsAck(m) PROVE KeepsAcks(q, Append(q, m))
  <2>1. \A i \in DOMAIN Append(q, m) : IsAck(Append(q, m)[i]) => i \in DOMAIN q
    BY <1>1, <1>4
  <2> QED BY <1>2, <2>1 DEF KeepsAcks
<1> QED BY <1>3, <1>4

\* The order of an inbox is kept with its messages.
LEMMA DataKept ==
    ASSUME NEW q \in Seq(Messages), NEW r \in Seq(Messages), KeepsData(q, r),
           NEW c, NEW n, NEW s, DataOK(q, c, n, s)
    PROVE  DataOK(r, c, n, s)
<1>1. PICK h \in {0, 1} : \A i \in DOMAIN r : IsData(r[i]) => i + h \in DOMAIN q /\ r[i] = q[i + h]
  BY DEF KeepsData
<1>2. \A i, j \in DOMAIN r : i < j => i + h < j + h
  OBVIOUS
<1> QED BY <1>1, <1>2 DEF DataOK

\* What a step leaves alone of a direction: its sender, its receiver, what was
\* pushed, the messages and the acknowledgements under way.
SenderSame(e) ==
    /\ sent'[e] = sent[e] /\ confirmed'[e] = confirmed[e]
    /\ ends'[e].localSeq = ends[e].localSeq /\ ends'[e].acks = ends[e].acks
    /\ threads'[e]["send"].pc \in {"run", "idle"} =>
         threads'[e]["send"].pc = threads[e]["send"].pc
ReceiverSame(p) ==
    /\ ends'[p].remoteSeq = ends[p].remoteSeq
    /\ \A k \in Threads :
         threads'[p][k].hand = threads[p][k].hand /\ threads'[p][k].counting = threads[p][k].counting
PushedSame(e) ==
    Len(delivered'[Peer(e)]) + Len(ends'[Peer(e)].recvq)
      = Len(delivered[Peer(e)]) + Len(ends[Peer(e)].recvq)
WireSame(e) ==
    KeepsData(inbox[Peer(e)], inbox'[Peer(e)]) /\ KeepsAcks(inbox[e], inbox'[e])

SameHands(t, u) ==
    \A k \in Threads : u[k].hand = t[k].hand /\ u[k].counting = t[k].counting

\* A receiver whose inbox keeps its messages.
LEMMA HandsKept ==
    ASSUME NEW t, NEW u, NEW q \in Seq(Messages), NEW r \in Seq(Messages), KeepsData(q, r),
           SameHands(t, u), NEW c, NEW n, NEW s, HandsOK(t, q, c, n, s)
    PROVE  HandsOK(u, r, c, n, s)
<1>1. PICK h \in {0, 1} : \A i \in DOMAIN r : IsData(r[i]) => i + h \in DOMAIN q /\ r[i] = q[i + h]
  BY DEF KeepsData
<1> QED BY <1>1 DEF HandsOK, SameHands

\* The acknowledgements under way, when nothing happens to them.
LEMMA AcksKept ==
    ASSUME TypesOK, NEW e \in Ends, InboxOK', SenderSame(e), KeepsAcks(inbox[e], inbox'[e]),
           NEW c, AcksOK(e, c)
    PROVE  AcksOK(e, c)'
<1> DEFINE q == inbox[e]
           r == inbox'[e]
<1>1. q \in Seq(Messages) /\ r \in Seq(Messages)
  BY DEF TypesOK, InboxOK
<1>2. PICK h \in {0, 1} : \A i \in DOMAIN r : IsAck(r[i]) => i + h \in DOMAIN q /\ r[i] = q[i + h]
  BY DEF KeepsAcks
<1>3. \A i, j \in DOMAIN r : IsAck(r[i]) /\ IsAck(r[j]) => i = j
  <2> SUFFICES ASSUME NEW i \in DOMAIN r, NEW j \in DOMAIN r, IsAck(r[i]), IsAck(r[j]) PROVE i = j
    OBVIOUS
  <2>1. i + h = j + h
    BY <1>2 DEF AcksOK
  <2> QED BY <1>1, <2>1
<1>4. \A i \in DOMAIN r : IsAck(r[i]) =>
        /\ r[i].seq = ends[e].localSeq /\ c = sent[e] /\ confirmed[e] < sent[e]
        /\ ends[e].acks = 0
  BY <1>2 DEF AcksOK
<1> QED BY <1>3, <1>4 DEF AcksOK, SenderSame

\* What is counted, when nothing happens to it.
LEMMA CountsKept ==
    ASSUME NEW e \in Ends, SenderSame(e), ReceiverSame(Peer(e)), PushedSame(e), NEW c, CountsOK(e, c)
    PROVE  CountsOK(e, c)'
<1>1. Counting(Peer(e))' = Counting(Peer(e))
  BY DEF Counting, ReceiverSame
<1>2. Pushed(e)' = Pushed(e)
  BY DEF Pushed, PushedSame
<1> QED BY <1>1, <1>2 DEF CountsOK, SenderSame, ReceiverSame

\* A step that leaves all of a direction alone keeps it in order.
LEMMA Frame ==
    ASSUME TypesOK, InboxOK', NEW e \in Ends, Orderly(e), SenderSame(e), ReceiverSame(Peer(e)),
           PushedSame(e), WireSame(e)
    PROVE  Orderly(e)'
<1> DEFINE p == Peer(e)
<1>1. PICK c \in Nat : OrderlyAt(e, c)
  BY DEF Orderly
<1>2. p \in Ends /\ inbox[p] \in Seq(Messages) /\ inbox'[p] \in Seq(Messages)
  BY PeerType DEF TypesOK, InboxOK
<1>3. CountsOK(e, c)' /\ AcksOK(e, c)'
  BY <1>1, CountsKept, AcksKept DEF OrderlyAt, WireSame
<1>4. HandsOK(threads'[p], inbox'[p], c, ends[p].remoteSeq, sent[e])
  <2>1. SameHands(threads[p], threads'[p])
    BY DEF ReceiverSame, SameHands
  <2>2. HandsOK(threads[p], inbox[p], c, ends[p].remoteSeq, sent[e])
    BY <1>1 DEF OrderlyAt
  <2>3. KeepsData(inbox[p], inbox'[p])
    BY DEF WireSame
  <2> QED BY <1>2, <2>1, <2>2, <2>3, HandsKept
<1>5. DataOK(inbox'[p], c, ends[p].remoteSeq, sent[e])
  BY <1>1, <1>2, DataKept DEF OrderlyAt, WireSame
<1>6. ends'[p].remoteSeq = ends[p].remoteSeq /\ sent'[e] = sent[e]
  BY DEF ReceiverSame, SenderSame
<1>7. OrderlyAt(e, c)'
  BY <1>3, <1>4, <1>5, <1>6 DEF OrderlyAt
<1> QED BY <1>7 DEF Orderly

\* A thread whose hand stays, and that begins nothing.
Calm(t, u) ==
    /\ u.hand = t.hand /\ u.counting = t.counting
    /\ u.pc \in {"run", "idle"} => u.pc = t.pc

\* What a step of the thread k of x does to the threads.
LEMMA SetThread ==
    ASSUME ThreadsOK, NEW x \in Ends, NEW k \in Threads, NEW t, Set(x, k, t)
    PROVE  /\ threads'[x][k] = t
           /\ \A j \in Threads : j # k => threads'[x][j] = threads[x][j]
           /\ \A e \in Ends : e # x => threads'[e] = threads[e]
           /\ Calm(threads[x][k], t) => \A j \in Threads : Calm(threads[x][j], threads'[x][j])
BY DEF ThreadsOK, Set, Calm

\* A thread that goes to a position but the first ones is calm.
LEMMA GotoCalm ==
    ASSUME ThreadsOK, NEW x \in Ends, NEW k \in Threads, NEW pc \in PCs \ {"run", "idle"}
    PROVE  Calm(threads[x][k], [threads[x][k] EXCEPT !.pc = pc])
BY ThreadHas DEF Calm, ThreadType

\* So is one for which a round of Close is over.
LEMMA RoundCalm ==
    ASSUME ThreadsOK, NEW x \in Ends, NEW k \in Threads
    PROVE  /\ Calm(threads[x][k], Round(x, k))
           /\ \A pc \in {"done", "ended", "failed", threads[x][k].pc} :
                Calm(threads[x][k], [Round(x, k) EXCEPT !.pc = pc])
<1>1. threads[x][k] \in ThreadType
  BY ThreadHas
<1> QED BY <1>1 DEF Calm, Round, ThreadType

\* Nothing happens at the other end but to its inbox.
OnlyAt(x) ==
    \A e \in Ends : e # x =>
        /\ ends'[e] = ends[e] /\ threads'[e] = threads[e] /\ sent'[e] = sent[e]
        /\ confirmed'[e] = confirmed[e] /\ delivered'[e] = delivered[e]

\* The part of each direction that is there stays.
LEMMA OtherEnd ==
    ASSUME NEW x \in Ends, OnlyAt(x)
    PROVE  SenderSame(Peer(x)) /\ ReceiverSame(Peer(x)) /\ PushedSame(x)
BY PeerType DEF OnlyAt, SenderSame, ReceiverSame, PushedSame

\* What a publication does to the inboxes.
LEMMA PublishWire ==
    ASSUME InboxOK, NEW x \in Ends, NEW msg \in Messages, Publish(x, msg)
    PROVE  /\ KeepsData(inbox[x], inbox'[x]) /\ KeepsAcks(inbox[x], inbox'[x])
           /\ inbox'[Peer(x)] \in {inbox[Peer(x)], Append(inbox[Peer(x)], msg)}
           /\ ~IsData(msg) => KeepsData(inbox[Peer(x)], inbox'[Peer(x)])
           /\ ~IsAck(msg) => KeepsAcks(inbox[Peer(x)], inbox'[Peer(x)])
<1>1. PICK y \in Ends : y = Peer(x) /\ y # x
  BY PeerType
<1>i. inbox[x] \in Seq(Messages) /\ inbox[y] \in Seq(Messages) /\ Signal("refused") \in Messages
  BY MessageTypes DEF InboxOK
<1>2. \/ UNCHANGED inbox
      \/ inbox' = [inbox EXCEPT ![y] = Append(@, msg)]
      \/ inbox' = [inbox EXCEPT ![x] = Append(@, Signal("refused"))]
  BY <1>1 DEF Publish
<1>3. CASE UNCHANGED inbox
  BY <1>i, <1>1, <1>3, KeepsSame
<1>4. CASE inbox' = [inbox EXCEPT ![y] = Append(@, msg)]
  <2>1. inbox'[x] = inbox[x] /\ inbox'[y] = Append(inbox[y], msg)
    BY <1>1, <1>4 DEF InboxOK
  <2> QED BY <1>i, <1>1, <2>1, KeepsSame, KeepsAppend
<1>5. CASE inbox' = [inbox EXCEPT ![x] = Append(@, Signal("refused"))]
  <2>1. inbox'[y] = inbox[y] /\ inbox'[x] = Append(inbox[x], Signal("refused"))
    BY <1>1, <1>5 DEF InboxOK
  <2>2. ~IsData(Signal("refused")) /\ ~IsAck(Signal("refused"))
    BY DEF IsData, IsAck, Signal
  <2> QED BY <1>i, <1>1, <2>1, <2>2, KeepsSame, KeepsAppend
<1> QED BY <1>2, <1>3, <1>4, <1>5

\* What taking a message does to the inboxes.
LEMMA TakeWire ==
    ASSUME InboxOK, NEW x \in Ends, inbox[x] # <<>>
    PROVE  /\ KeepsData(inbox[x], Rest(x)[x]) /\ KeepsAcks(inbox[x], Rest(x)[x])
           /\ Rest(x)[x] = Tail(inbox[x]) /\ Rest(x)[Peer(x)] = inbox[Peer(x)]
           /\ KeepsData(inbox[Peer(x)], inbox[Peer(x)]) /\ KeepsAcks(inbox[Peer(x)], inbox[Peer(x)])
<1>1. inbox[x] \in Seq(Messages) /\ inbox[Peer(x)] \in Seq(Messages)
  BY PeerType DEF InboxOK
<1>2. Rest(x)[x] = Tail(inbox[x]) /\ Rest(x)[Peer(x)] = inbox[Peer(x)]
  BY PeerType DEF Rest, InboxOK
<1> QED BY <1>1, <1>2, KeepsTail, KeepsSame

\* A step of x after which both directions are as they were.
Quiet(x) ==
    /\ OnlyAt(x) /\ SenderSame(x) /\ ReceiverSame(x) /\ PushedSame(Peer(x))
    /\ WireSame(x) /\ WireSame(Peer(x))

\* It keeps both in order.
LEMMA QuietOrderly ==
    ASSUME TypesOK, InboxOK', NEW x \in Ends, Quiet(x), Orderly(x), Orderly(Peer(x))
    PROVE  Orderly(x)' /\ Orderly(Peer(x))'
<1>1. Peer(x) \in Ends /\ Peer(Peer(x)) = x
  BY PeerType
<1>2. SenderSame(Peer(x)) /\ ReceiverSame(Peer(x)) /\ PushedSame(x)
  BY OtherEnd DEF Quiet
<1>3. Orderly(x)'
  BY <1>2, Frame DEF Quiet
<1>4. PICK y \in Ends : y = Peer(x) /\ x = Peer(y)
  BY <1>1
<1>5. Orderly(y)'
  BY <1>2, <1>4, Frame DEF Quiet
<1> QED BY <1>3, <1>4, <1>5

\* What is delivered and what is left of it is together what was pushed.
LEMMA RecvPushed ==
    ASSUME TypesOK, NEW x \in Ends, Recv(x)
    PROVE  Len(delivered'[x]) + Len(ends'[x].recvq) = Len(delivered[x]) + Len(ends[x].recvq)
<1>1. delivered[x] \in Seq(Nat) /\ ends[x].recvq \in Seq(Nat) /\ ends[x].recvq # <<>>
  BY DEF TypesOK, HistoryOK, EndsOK, EndType, Recv
<1>2. delivered'[x] = Append(delivered[x], Head(ends[x].recvq))
  BY DEF Recv, TypesOK, HistoryOK
<1>3. ends'[x].recvq = Tail(ends[x].recvq)
  BY DEF Recv, TypesOK, EndsOK, EndType
<1>4. Len(delivered'[x]) = Len(delivered[x]) + 1 /\ Len(ends'[x].recvq) = Len(ends[x].recvq) - 1
  BY <1>1, <1>2, <1>3
<1>5. Len(delivered[x]) \in Nat /\ Len(ends[x].recvq) \in Nat
  BY <1>1
<1>6. \A a, b \in Nat : (a + 1) + (b - 1) = a + b
  OBVIOUS
<1>7. (Len(delivered[x]) + 1) + (Len(ends[x].recvq) - 1) = Len(delivered[x]) + Len(ends[x].recvq)
  BY <1>5, <1>6
<1> QED BY <1>4, <1>7

\* A calm step of a thread, after which no number and no message pushed has changed.
LEMMA CalmQuiet ==
    ASSUME TypesOK, NEW x \in Ends, NEW k \in Threads, NEW t, Set(x, k, t), Calm(threads[x][k], t),
           ends' = ends \/ ends' = [ends EXCEPT ![x].closed = TRUE], UNCHANGED history,
           WireSame(x), WireSame(Peer(x))
    PROVE  Quiet(x)
<1>1. ThreadsOK /\ EndsOK /\ ends[x] \in EndType /\ "send" \in Threads
  BY DEF TypesOK, EndsOK, Threads
<1>2. /\ \A j \in Threads : Calm(threads[x][j], threads'[x][j])
      /\ \A e \in Ends : e # x => threads'[e] = threads[e]
  BY <1>1, SetThread
<1>3. /\ \A e \in Ends : e # x => ends'[e] = ends[e]
      /\ ends'[x].localSeq = ends[x].localSeq /\ ends'[x].acks = ends[x].acks
      /\ ends'[x].remoteSeq = ends[x].remoteSeq /\ ends'[x].recvq = ends[x].recvq
  BY <1>1 DEF EndsOK, EndType
<1>4. OnlyAt(x)
  BY <1>2, <1>3 DEF OnlyAt, history
<1>5. SenderSame(x) /\ ReceiverSame(x)
  BY <1>1, <1>2, <1>3 DEF SenderSame, ReceiverSame, Calm, history
<1>6. PushedSame(Peer(x))
  BY <1>3, PeerType DEF PushedSame, history
<1> QED BY <1>4, <1>5, <1>6 DEF Quiet

\* Steps that neither send, push, count nor acknowledge anything.
QuietStep(x) ==
    \/ SeeClosed(x) \/ Recv(x)
    \/ \E k \in Threads : Cancel(x, k) \/ Close(x, k)
    \/ \E k \in Threads : HandleBye(x, k) \/ HandleByeAck(x, k) \/ HandleRefusal(x, k)

\* They leave both directions as they were.
LEMMA QuietSteps ==
    ASSUME TypesOK, NEW x \in Ends, QuietStep(x)
    PROVE  Quiet(x)
<1> DEFINE y == Peer(x)
<1>i. /\ InboxOK /\ ThreadsOK /\ EndsOK /\ y \in Ends /\ y # x /\ Peer(y) = x
      /\ "send" \in Threads /\ "recv" \in Threads
      /\ inbox[x] \in Seq(Messages) /\ inbox[y] \in Seq(Messages)
      /\ {"ended", "failed", "closing", "done"} \subseteq PCs \ {"run", "idle"}
  BY PeerType DEF TypesOK, Threads, InboxOK, PCs
<1>w. ASSUME inbox' = inbox PROVE WireSame(x) /\ WireSame(y)
  BY <1>i, <1>w, KeepsSame DEF WireSame
<1>p. ASSUME Publish(x, Signal("bye")) PROVE WireSame(x) /\ WireSame(y)
  <2>1. Signal("bye") \in Messages /\ ~IsData(Signal("bye")) /\ ~IsAck(Signal("bye"))
    BY MessageTypes DEF Signal, IsData, IsAck
  <2> QED BY <1>i, <1>p, <2>1, PublishWire DEF WireSame
<1>t. ASSUME inbox[x] # <<>>, inbox' = Rest(x) PROVE WireSame(x) /\ WireSame(y)
  BY <1>i, <1>t, TakeWire DEF WireSame
<1>1. CASE SeeClosed(x)
  BY <1>i, <1>w, <1>1, GotoCalm, CalmQuiet DEF SeeClosed, Goto
<1>2. CASE Recv(x)
  <2>1. \A e \in Ends : e # x => ends'[e] = ends[e] /\ delivered'[e] = delivered[e]
    BY <1>2 DEF Recv, TypesOK, EndsOK, HistoryOK
  <2>2. /\ ends'[x].localSeq = ends[x].localSeq /\ ends'[x].acks = ends[x].acks
        /\ ends'[x].remoteSeq = ends[x].remoteSeq
    BY <1>2 DEF Recv, TypesOK, EndsOK, EndType
  <2>6. /\ \A j \in Threads : Calm(threads[x][j], threads'[x][j])
        /\ \A e \in Ends : e # x => threads'[e] = threads[e]
    <3>1. PICK pc \in {"run", "failed"} : Goto(x, "recv", pc)
      BY <1>2 DEF Recv
    <3>2. threads[x]["recv"] \in ThreadType /\ threads[x]["recv"].pc = "run"
      BY <1>i, <1>2, ThreadHas DEF Recv, Waiting
    <3>3. Calm(threads[x]["recv"], [threads[x]["recv"] EXCEPT !.pc = pc])
      BY <3>1, <3>2 DEF Calm, ThreadType
    <3> QED BY <1>i, <3>1, <3>3, SetThread DEF Goto
  <2>3. OnlyAt(x) /\ SenderSame(x) /\ ReceiverSame(x)
    BY <1>i, <1>2, <2>1, <2>2, <2>6 DEF OnlyAt, SenderSame, ReceiverSame, Recv, Calm
  <2>4. PushedSame(y)
    BY <1>i, <1>2, RecvPushed DEF PushedSame
  <2>5. inbox' = inbox
    BY <1>2 DEF Recv
  <2> QED BY <1>w, <2>3, <2>4, <2>5 DEF Quiet
<1>3. ASSUME NEW k \in Threads, Cancel(x, k) PROVE Quiet(x)
  BY <1>i, <1>w, <1>3, GotoCalm, CalmQuiet DEF Cancel, Goto
<1>4. ASSUME NEW k \in Threads, Close(x, k) PROVE Quiet(x)
  <2>1. CASE BeginClose(x, k)
    BY <1>i, <1>p, <2>1, GotoCalm, CalmQuiet DEF BeginClose, Goto
  <2>2. CASE RepeatBye(x, k)
    BY <1>i, <1>p, <2>2, RoundCalm, CalmQuiet DEF RepeatBye
  <2>3. CASE EndClose(x, k)
    BY <1>i, <1>w, <2>3, GotoCalm, CalmQuiet DEF EndClose, Goto
  <2>4. CASE AbandonClose(x, k)
    BY <1>i, <1>w, <2>4, GotoCalm, CalmQuiet DEF AbandonClose, Goto
  <2> QED BY <1>4, <2>1, <2>2, <2>3, <2>4 DEF Close
<1>e. ASSUME NEW k \in Threads, Ended(x, k)
      PROVE  /\ ends' = [ends EXCEPT ![x].closed = TRUE]
             /\ \E t : Set(x, k, t) /\ Calm(threads[x][k], t)
  <2>1. Round(x, k).pc = threads[x][k].pc
    BY <1>i, ThreadHas DEF Round, ThreadType
  <2> DEFINE t == [Round(x, k) EXCEPT !.pc = IF ends[x].closed THEN Returns(x, k, "ended") ELSE @]
  <2>2. Calm(threads[x][k], t)
    BY <1>i, <2>1, RoundCalm DEF Returns
  <2> QED BY <1>e, <2>2 DEF Ended
<1>6. ASSUME NEW k \in Threads, HandleBye(x, k) PROVE Quiet(x)
  <2>1. inbox[x] # <<>> /\ Ended(x, k) /\ UNCHANGED history
    BY <1>6 DEF HandleBye, Taken
  <2>2. inbox' = Rest(x) \/ inbox' = [Rest(x) EXCEPT ![y] = Append(@, Signal("byeack"))]
    BY <1>6 DEF HandleBye
  <2>3. WireSame(x) /\ WireSame(y)
    <3>1. CASE inbox' = Rest(x)
      BY <1>t, <2>1, <3>1
    <3>2. CASE inbox' = [Rest(x) EXCEPT ![y] = Append(@, Signal("byeack"))]
      <4>1. Signal("byeack") \in Messages /\ ~IsData(Signal("byeack")) /\ ~IsAck(Signal("byeack"))
        BY MessageTypes DEF Signal, IsData, IsAck
      <4>2. Rest(x) \in [Ends -> Seq(Messages)]
        BY <2>1, TakenTypes
      <4>3. inbox'[x] = Rest(x)[x] /\ inbox'[y] = Append(inbox[y], Signal("byeack"))
        BY <1>i, <2>1, <3>2, <4>2, TakeWire
      <4> QED BY <1>i, <2>1, <4>1, <4>3, TakeWire, KeepsAppend DEF WireSame
    <3> QED BY <2>2, <3>1, <3>2
  <2> QED BY <1>e, <2>1, <2>3, CalmQuiet
<1>7. ASSUME NEW k \in Threads, HandleByeAck(x, k) PROVE Quiet(x)
  <2>1. inbox[x] # <<>> /\ inbox' = Rest(x) /\ Ended(x, k) /\ UNCHANGED history
    BY <1>7 DEF HandleByeAck, Taken
  <2> QED BY <1>e, <1>t, <2>1, CalmQuiet
<1>8. ASSUME NEW k \in Threads, HandleRefusal(x, k) PROVE Quiet(x)
  <2>1. /\ inbox[x] # <<>> /\ inbox' = Rest(x) /\ UNCHANGED <<ends, history>>
        /\ Set(x, k, [Round(x, k) EXCEPT !.pc = Returns(x, k, "failed")])
    BY <1>8 DEF HandleRefusal, Taken
  <2>2. Returns(x, k, "failed") \in {"done", "ended", "failed", threads[x][k].pc}
    BY DEF Returns
  <2> QED BY <1>i, <1>t, <2>1, <2>2, RoundCalm, CalmQuiet
<1> QED BY <1>1, <1>2, <1>3, <1>4, <1>6, <1>7, <1>8 DEF QuietStep

\* One more message, not behind those that were sent.
LEMMA DataAppended ==
    ASSUME NEW q \in Seq(Messages), NEW m \in Messages, NEW c \in Nat, NEW n, NEW s \in Nat,
           NEW s2 \in Nat, s <= s2, DataOK(q, c, n, s), Numbered(m, c, n), m.body = s2,
           NEW r \in {q, Append(q, m)}
    PROVE  DataOK(r, c, n, s2)
<1>1. /\ DOMAIN Append(q, m) = DOMAIN q \union {Len(q) + 1} /\ Append(q, m)[Len(q) + 1] = m
      /\ \A i \in DOMAIN q : Append(q, m)[i] = q[i] /\ i \in Nat /\ i <= Len(q)
      /\ Len(q) \in Nat
  OBVIOUS
<1>2. \A i \in DOMAIN q : q[i].body \in Nat
  <2>1. \A i \in DOMAIN q : q[i] \in Messages
    OBVIOUS
  <2> QED BY <2>1 DEF Messages
<1>3. \A i \in DOMAIN q : IsData(q[i]) => Numbered(q[i], c, n) /\ q[i].body <= s2
  BY <1>2 DEF DataOK
<1>4. CASE r = q
  BY <1>3, <1>4 DEF DataOK
<1>5. CASE r = Append(q, m)
  <2>1. \A i \in DOMAIN r : IsData(r[i]) => Numbered(r[i], c, n) /\ r[i].body <= s2
    BY <1>1, <1>3, <1>5
  <2>2. ASSUME NEW i \in DOMAIN r, NEW j \in DOMAIN r, i < j, IsData(r[i]), IsData(r[j])
        PROVE  r[i].body <= r[j].body
    <3>1. i \in DOMAIN q
      BY <1>1, <1>5, <2>2
    <3>2. CASE j \in DOMAIN q
      BY <1>1, <1>5, <2>2, <3>1, <3>2 DEF DataOK
    <3>3. CASE j = Len(q) + 1
      BY <1>1, <1>3, <1>5, <2>2, <3>1, <3>3
    <3> QED BY <1>1, <1>5, <3>2, <3>3
  <2> QED BY <2>1, <2>2 DEF DataOK
<1> QED BY <1>4, <1>5

\* The receiver is not ahead of it.
LEMMA HandsAppended ==
    ASSUME NEW t \in [Threads -> ThreadType], NEW q \in Seq(Messages), NEW m \in Messages,
           NEW c \in Nat, NEW n, NEW s \in Nat, NEW s2 \in Nat, s <= s2, HandsOK(t, q, c, n, s),
           m.body = s2, NEW r \in {q, Append(q, m)}
    PROVE  HandsOK(t, r, c, n, s2)
<1>1. /\ DOMAIN Append(q, m) = DOMAIN q \union {Len(q) + 1} /\ Append(q, m)[Len(q) + 1] = m
      /\ \A i \in DOMAIN q : Append(q, m)[i] = q[i]
  OBVIOUS
<1>2. \A k \in Threads : t[k].hand.body \in Nat
  BY DEF ThreadType, Messages
<1>3. \A k \in Threads : t[k].hand # Nothing => t[k].hand.body <= s2
  BY <1>2 DEF HandsOK
<1>4. \A i \in DOMAIN r : r[i] = m \/ (i \in DOMAIN q /\ r[i] = q[i])
  BY <1>1
<1>5. \A k \in Threads : t[k].hand # Nothing =>
        /\ IsData(t[k].hand) /\ Numbered(t[k].hand, c, n) /\ t[k].hand.body <= s2
        /\ \A i \in DOMAIN r : IsData(r[i]) => t[k].hand.body <= r[i].body
  BY <1>3, <1>4 DEF HandsOK
<1> QED BY <1>5 DEF HandsOK

\* The types of one direction.
LEMMA DirectionTypes ==
    ASSUME TypesOK, NEW e \in Ends
    PROVE  /\ Peer(e) \in Ends /\ Peer(Peer(e)) = e /\ Peer(e) # e
           /\ sent[e] \in Nat /\ confirmed[e] \in Nat
           /\ ends[e] \in EndType /\ ends[Peer(e)] \in EndType
           /\ ends[e].localSeq \in 0..(SeqMod - 1) /\ ends[Peer(e)].remoteSeq \in 0..(SeqMod - 1)
           /\ ends[e].acks \in 0..4
           /\ inbox[e] \in Seq(Messages) /\ inbox[Peer(e)] \in Seq(Messages)
           /\ threads[e] \in [Threads -> ThreadType] /\ threads[Peer(e)] \in [Threads -> ThreadType]
           /\ "send" \in Threads
BY PeerType DEF TypesOK, HistoryOK, EndsOK, EndType, InboxOK, ThreadsOK, Threads

\* A call of Send begins: everything before was confirmed.
LEMMA BeginOrderly ==
    ASSUME TypesOK, TypesOK', NEW x \in Ends, BeginSend(x), Orderly(x), Orderly(Peer(x))
    PROVE  Orderly(x)' /\ Orderly(Peer(x))'
<1>1. PICK y \in Ends : y = Peer(x)
  BY PeerType
<1>i. /\ y # x /\ Peer(y) = x /\ sent[x] \in Nat /\ confirmed[x] \in Nat /\ ends[x] \in EndType
      /\ inbox[x] \in Seq(Messages) /\ inbox[y] \in Seq(Messages) /\ InboxOK /\ InboxOK'
      /\ threads[x] \in [Threads -> ThreadType] /\ threads[y] \in [Threads -> ThreadType]
      /\ "send" \in Threads /\ ends[x].localSeq \in 0..(SeqMod - 1) /\ ends[x].acks \in 0..4
  BY <1>1, DirectionTypes DEF TypesOK
<1> DEFINE n == Succ(ends[x].localSeq)
           m == [kind |-> "data", seq |-> n, body |-> sent[x] + 1]
<1>2. n \in 0..(SeqMod - 1) /\ m \in Messages /\ IsData(m) /\ ~IsAck(m) /\ m.body = sent[x] + 1 /\ m.seq = n
  BY <1>i, NextNumber, MessageTypes DEF Succ, IsData, IsAck
<1>3. /\ Publish(x, m) /\ threads[x]["send"].pc = "idle" /\ Goto(x, "send", "run")
      /\ ends' = [ends EXCEPT ![x].localSeq = n] /\ sent' = [sent EXCEPT ![x] = @ + 1]
      /\ UNCHANGED <<confirmed, delivered>>
  BY DEF BeginSend, Succ
<1> HIDE DEF m, n
<1>4. /\ ends'[x].localSeq = n /\ ends'[x].acks = ends[x].acks
      /\ ends'[x].remoteSeq = ends[x].remoteSeq /\ ends'[x].recvq = ends[x].recvq
      /\ ends'[y] = ends[y]
      /\ sent'[x] = sent[x] + 1 /\ sent'[y] = sent[y]
  BY <1>i, <1>3 DEF EndType, TypesOK, EndsOK, HistoryOK
<1>5. /\ threads'[x]["send"].pc = "run" /\ threads'[y] = threads[y]
      /\ \A k \in Threads : /\ threads'[x][k].hand = threads[x][k].hand
                            /\ threads'[x][k].counting = threads[x][k].counting
  BY <1>i, <1>3 DEF Goto, Set, TypesOK, ThreadsOK, ThreadType
<1>6. /\ KeepsData(inbox[x], inbox'[x]) /\ KeepsAcks(inbox[x], inbox'[x])
      /\ inbox'[y] \in {inbox[y], Append(inbox[y], m)} /\ KeepsAcks(inbox[y], inbox'[y])
  BY <1>1, <1>i, <1>2, <1>3, PublishWire
<1>7. Orderly(y)'
  <2>1. OnlyAt(x)
    BY <1>3, <1>i DEF OnlyAt, Goto, Set, TypesOK, EndsOK, HistoryOK, ThreadsOK
  <2>2. SenderSame(y)
    BY <1>1, <2>1, OtherEnd
  <2>3. ReceiverSame(x) /\ PushedSame(y)
    BY <1>i, <1>3, <1>4, <1>5 DEF ReceiverSame, PushedSame
  <2> QED BY <1>1, <1>i, <1>6, <2>2, <2>3, Frame DEF WireSame
<1>8. PICK c \in Nat : OrderlyAt(x, c)
  BY DEF Orderly
<1>9. sent[x] = c /\ confirmed[x] = c /\ ends[y].remoteSeq = n
  BY <1>1, <1>3, <1>8, <1>i DEF OrderlyAt, CountsOK, n
<1>10. CountsOK(x, c)'
  <2>1. Counting(y)' = Counting(y)
    BY <1>5 DEF Counting
  <2>2. Pushed(x)' = Pushed(x)
    BY <1>1, <1>3, <1>4 DEF Pushed
  <2>3. sent'[x] = c + 1 /\ confirmed'[x] = c /\ ends'[y].remoteSeq = ends'[x].localSeq
    BY <1>3, <1>4, <1>9
  <2>4. c + 1 # c /\ c <= c /\ c < c + 1 /\ c + 1 <= c + 1 /\ c \in Nat
    OBVIOUS
  <2>5. Pushed(x) = IF Counting(y) THEN c + 1 ELSE c
    BY <1>1, <1>8 DEF OrderlyAt, CountsOK
  <2> QED BY <1>1, <1>5, <2>1, <2>2, <2>3, <2>4, <2>5 DEF CountsOK
<1>11. AcksOK(x, c)'
  <2>1. ends[x].acks = 0 /\ \A i \in DOMAIN inbox[x] : ~IsAck(inbox[x][i])
    BY <1>8, <1>9, <1>i DEF OrderlyAt, AcksOK
  <2>2. \A i \in DOMAIN inbox'[x] : ~IsAck(inbox'[x][i])
    BY <1>6, <2>1 DEF KeepsAcks
  <2> QED BY <1>4, <2>1, <2>2 DEF AcksOK
<1>12. DataOK(inbox'[y], c, ends[y].remoteSeq, c + 1)
  <2>1. Numbered(m, c, ends[y].remoteSeq) /\ m.body = c + 1 /\ c <= c + 1 /\ c + 1 \in Nat
    BY <1>2, <1>9 DEF Numbered
  <2>2. DataOK(inbox[y], c, ends[y].remoteSeq, c)
    BY <1>1, <1>8, <1>9 DEF OrderlyAt
  <2> QED BY <1>2, <1>6, <1>i, <2>1, <2>2, DataAppended
<1>13. HandsOK(threads'[y], inbox'[y], c, ends[y].remoteSeq, c + 1)
  <2>1. HandsOK(threads[y], inbox[y], c, ends[y].remoteSeq, c)
    BY <1>1, <1>8, <1>9 DEF OrderlyAt
  <2>2. m.body = c + 1 /\ c <= c + 1 /\ c + 1 \in Nat
    BY <1>2, <1>9
  <2>3. HandsOK(threads[y], inbox'[y], c, ends[y].remoteSeq, c + 1)
    BY <1>2, <1>6, <1>i, <2>1, <2>2, HandsAppended
  <2> QED BY <1>5, <2>3
<1>14. OrderlyAt(x, c)'
  BY <1>1, <1>4, <1>9, <1>10, <1>11, <1>12, <1>13 DEF OrderlyAt
<1> QED BY <1>1, <1>7, <1>14 DEF Orderly

\* The message that waits for its acknowledgement is sent again.
LEMMA RetryOrderly ==
    ASSUME TypesOK, TypesOK', NEW x \in Ends, Retry(x), Orderly(x), Orderly(Peer(x))
    PROVE  Orderly(x)' /\ Orderly(Peer(x))'
<1>1. PICK y \in Ends : y = Peer(x)
  BY PeerType
<1>i. /\ y # x /\ Peer(y) = x /\ sent[x] \in Nat /\ confirmed[x] \in Nat
      /\ inbox[x] \in Seq(Messages) /\ inbox[y] \in Seq(Messages) /\ InboxOK /\ InboxOK'
      /\ threads[y] \in [Threads -> ThreadType] /\ ends[x].localSeq \in 0..(SeqMod - 1)
  BY <1>1, DirectionTypes DEF TypesOK
<1> DEFINE m == Data(x)
<1>2. /\ m \in Messages /\ IsData(m) /\ ~IsAck(m) /\ m.body = sent[x] /\ m.seq = ends[x].localSeq
  BY <1>i, MessageTypes DEF IsData, IsAck, Data
<1>3. Publish(x, m) /\ UNCHANGED <<ends, threads, history>>
  BY DEF Retry
<1> HIDE DEF m
<1>4. /\ KeepsData(inbox[x], inbox'[x]) /\ KeepsAcks(inbox[x], inbox'[x])
      /\ inbox'[y] \in {inbox[y], Append(inbox[y], m)} /\ KeepsAcks(inbox[y], inbox'[y])
  BY <1>1, <1>i, <1>2, <1>3, PublishWire
<1>5. SenderSame(x) /\ ReceiverSame(x) /\ PushedSame(x) /\ SenderSame(y) /\ ReceiverSame(y) /\ PushedSame(y)
  BY <1>3 DEF SenderSame, ReceiverSame, PushedSame, history
<1>6. Orderly(y)'
  BY <1>1, <1>i, <1>4, <1>5, Frame DEF WireSame
<1>7. PICK c \in Nat : OrderlyAt(x, c)
  BY DEF Orderly
<1>8. CountsOK(x, c)' /\ AcksOK(x, c)'
  BY <1>1, <1>4, <1>5, <1>7, <1>i, CountsKept, AcksKept DEF OrderlyAt
<1>9. Numbered(m, c, ends[y].remoteSeq)
  BY <1>1, <1>2, <1>7, <1>i DEF OrderlyAt, CountsOK, Numbered
<1>10. DataOK(inbox'[y], c, ends[y].remoteSeq, sent[x])
  <2>1. DataOK(inbox[y], c, ends[y].remoteSeq, sent[x]) /\ sent[x] <= sent[x]
    BY <1>1, <1>7, <1>i DEF OrderlyAt
  <2> QED BY <1>2, <1>4, <1>9, <1>i, <2>1, DataAppended
<1>11. HandsOK(threads[y], inbox'[y], c, ends[y].remoteSeq, sent[x])
  <2>1. PICK s \in Nat : s = sent[x] /\ s <= s
    BY <1>i
  <2>2. HandsOK(threads[y], inbox[y], c, ends[y].remoteSeq, s) /\ m.body = s
    BY <1>1, <1>2, <1>7, <2>1 DEF OrderlyAt
  <2>3. /\ threads[y] \in [Threads -> ThreadType] /\ inbox[y] \in Seq(Messages) /\ m \in Messages
        /\ inbox'[y] \in {inbox[y], Append(inbox[y], m)}
    BY <1>2, <1>4, <1>i
  <2>4. HandsOK(threads[y], inbox'[y], c, ends[y].remoteSeq, s)
    BY <2>1, <2>2, <2>3, HandsAppended, Zenon
  <2> QED BY <2>1, <2>4
<1>12. OrderlyAt(x, c)'
  BY <1>1, <1>3, <1>8, <1>10, <1>11 DEF OrderlyAt, history
<1> QED BY <1>1, <1>6, <1>12 DEF Orderly

\* The wire and the receiver of a direction stay, and s messages are sent.
LEMMA ReceiverKept ==
    ASSUME TypesOK, InboxOK', NEW e \in Ends, NEW c \in Nat, OrderlyAt(e, c), ReceiverSame(Peer(e)),
           KeepsData(inbox[Peer(e)], inbox'[Peer(e)]), sent'[e] = sent[e]
    PROVE  /\ HandsOK(threads'[Peer(e)], inbox'[Peer(e)], c, ends'[Peer(e)].remoteSeq, sent'[e])
           /\ DataOK(inbox'[Peer(e)], c, ends'[Peer(e)].remoteSeq, sent'[e])
<1>1. PICK p \in Ends : p = Peer(e)
  BY PeerType
<1>2. inbox[p] \in Seq(Messages) /\ inbox'[p] \in Seq(Messages) /\ ends'[p].remoteSeq = ends[p].remoteSeq
  BY <1>1 DEF TypesOK, InboxOK, ReceiverSame
<1>3. SameHands(threads[p], threads'[p])
  BY <1>1 DEF ReceiverSame, SameHands
<1>4. /\ HandsOK(threads[p], inbox[p], c, ends[p].remoteSeq, sent[e])
      /\ DataOK(inbox[p], c, ends[p].remoteSeq, sent[e]) /\ KeepsData(inbox[p], inbox'[p])
  BY <1>1 DEF OrderlyAt
<1>5. HandsOK(threads'[p], inbox'[p], c, ends[p].remoteSeq, sent[e])
  <2>1. HandsOK(threads[p], inbox[p], c, ends[p].remoteSeq, sent[e]) /\ KeepsData(inbox[p], inbox'[p])
    BY <1>4
  <2>2. inbox[p] \in Seq(Messages) /\ inbox'[p] \in Seq(Messages)
    BY <1>2
  <2> QED BY <1>3, <2>1, <2>2, HandsKept
<1>6. DataOK(inbox'[p], c, ends[p].remoteSeq, sent[e])
  BY <1>2, <1>4, DataKept
<1> QED BY <1>1, <1>2, <1>5, <1>6

\* A call of Send returns with the acknowledgement of its message.
LEMMA TakeAckOrderly ==
    ASSUME TypesOK, TypesOK', NEW x \in Ends, TakeAck(x), Orderly(x), Orderly(Peer(x))
    PROVE  Orderly(x)' /\ Orderly(Peer(x))'
<1>1. PICK y \in Ends : y = Peer(x)
  BY PeerType
<1>i. /\ y # x /\ Peer(y) = x /\ sent[x] \in Nat /\ confirmed[x] \in Nat /\ ends[x] \in EndType
      /\ inbox[x] \in Seq(Messages) /\ inbox[y] \in Seq(Messages) /\ InboxOK'
      /\ threads[x] \in [Threads -> ThreadType] /\ "send" \in Threads /\ ends[x].acks \in 0..4
  BY <1>1, DirectionTypes DEF TypesOK
<1>2. /\ ends[x].acks > 0 /\ ends' = [ends EXCEPT ![x].acks = @ - 1]
      /\ confirmed' = [confirmed EXCEPT ![x] = sent[x]] /\ Goto(x, "send", "idle")
      /\ UNCHANGED <<inbox, sent, delivered>>
  BY DEF TakeAck
<1>3. /\ ends'[x].acks = ends[x].acks - 1 /\ ends'[x].localSeq = ends[x].localSeq
      /\ ends'[x].remoteSeq = ends[x].remoteSeq /\ ends'[x].recvq = ends[x].recvq
      /\ ends'[y] = ends[y] /\ confirmed'[x] = sent[x]
  BY <1>2, <1>i DEF EndType, TypesOK, EndsOK, HistoryOK
<1>4. /\ threads'[x]["send"].pc = "idle" /\ threads'[y] = threads[y]
      /\ \A k \in Threads : /\ threads'[x][k].hand = threads[x][k].hand
                            /\ threads'[x][k].counting = threads[x][k].counting
  BY <1>i, <1>2 DEF Goto, Set, TypesOK, ThreadsOK, ThreadType
<1>5. OnlyAt(x)
  BY <1>2, <1>i DEF OnlyAt, Goto, Set, TypesOK, EndsOK, HistoryOK, ThreadsOK
<1>6. /\ KeepsData(inbox[x], inbox'[x]) /\ KeepsAcks(inbox[x], inbox'[x])
      /\ KeepsData(inbox[y], inbox'[y]) /\ KeepsAcks(inbox[y], inbox'[y])
  BY <1>2, <1>i, KeepsSame
<1>7. Orderly(y)'
  <2>1. SenderSame(y)
    BY <1>1, <1>5, OtherEnd
  <2>2. ReceiverSame(x) /\ PushedSame(y)
    BY <1>i, <1>2, <1>3, <1>4 DEF ReceiverSame, PushedSame
  <2> QED BY <1>1, <1>i, <1>6, <2>1, <2>2, Frame DEF WireSame
<1>8. PICK c \in Nat : OrderlyAt(x, c)
  BY DEF Orderly
<1>9. ends[x].acks = 1 /\ sent[x] = c
  BY <1>2, <1>8, <1>i DEF OrderlyAt, AcksOK
<1>10. CountsOK(x, c)'
  <2>1. Counting(y)' = Counting(y)
    BY <1>4 DEF Counting
  <2>2. Pushed(x)' = Pushed(x)
    BY <1>1, <1>2, <1>3 DEF Pushed
  <2>3. /\ Pushed(x) = (IF Counting(y) THEN c + 1 ELSE c)
        /\ ends[y].remoteSeq = Succ(ends[x].localSeq)
    BY <1>1, <1>8, <1>9 DEF OrderlyAt, CountsOK
  <2>4. c <= c /\ c <= c + 1
    OBVIOUS
  <2> QED BY <1>1, <1>2, <1>3, <1>4, <1>9, <2>1, <2>2, <2>3, <2>4 DEF CountsOK
<1>11. AcksOK(x, c)'
  <2>1. \A i \in DOMAIN inbox[x] : ~IsAck(inbox[x][i])
    BY <1>8, <1>9 DEF OrderlyAt, AcksOK
  <2>2. ends'[x].acks = 0
    BY <1>3, <1>9
  <2> QED BY <1>2, <2>1, <2>2 DEF AcksOK
<1>12. ReceiverSame(Peer(x)) /\ sent'[x] = sent[x]
  BY <1>2, <1>5, OtherEnd
<1>13. OrderlyAt(x, c)'
  BY <1>1, <1>6, <1>8, <1>10, <1>11, <1>12, <1>i, ReceiverKept DEF OrderlyAt
<1> QED BY <1>1, <1>7, <1>13 DEF Orderly

\* The acknowledgement arrives, and there is no other.
LEMMA AckOrderly ==
    ASSUME TypesOK, TypesOK', NEW x \in Ends, NEW k \in Threads, HandleAck(x, k),
           Orderly(x), Orderly(Peer(x))
    PROVE  Orderly(x)' /\ Orderly(Peer(x))'
<1>1. PICK y \in Ends : y = Peer(x)
  BY PeerType
<1>i. /\ y # x /\ Peer(y) = x /\ sent[x] \in Nat /\ confirmed[x] \in Nat /\ ends[x] \in EndType
      /\ inbox[x] \in Seq(Messages) /\ inbox[y] \in Seq(Messages) /\ InboxOK /\ InboxOK'
      /\ ThreadsOK /\ "send" \in Threads /\ ends[x].acks \in 0..4
      /\ ends[x].localSeq \in 0..(SeqMod - 1)
  BY <1>1, DirectionTypes DEF TypesOK
<1>2. /\ inbox[x] # <<>> /\ IsAck(First(x)) /\ inbox' = Rest(x) /\ Set(x, k, Round(x, k))
      /\ ends' = IF Answered(x, First(x).seq) = 0 /\ ends[x].acks < 4
                   THEN [ends EXCEPT ![x].acks = @ + 1] ELSE ends
      /\ UNCHANGED history
  BY DEF HandleAck, Taken, IsAck
<1>3. PICK c \in Nat : OrderlyAt(x, c)
  BY DEF Orderly
<1>4. 1 \in DOMAIN inbox[x] /\ First(x) = inbox[x][1]
  BY <1>2, <1>i DEF First
<1>5. /\ First(x).seq = ends[x].localSeq /\ c = sent[x] /\ confirmed[x] < sent[x] /\ ends[x].acks = 0
      /\ \A i \in DOMAIN inbox[x] : IsAck(inbox[x][i]) => i = 1
  BY <1>2, <1>3, <1>4 DEF OrderlyAt, AcksOK
<1>6. Answered(x, First(x).seq) = 0
  <2>1. ASSUME NEW M \in Nat, M > 2, NEW n \in 0..(M - 1) PROVE (n - n) % M = 0
    OBVIOUS
  <2> QED BY <1>5, <1>i, <2>1, SizesAssumption DEF Answered, Diff
<1>7. ends' = [ends EXCEPT ![x].acks = @ + 1]
  BY <1>2, <1>5, <1>6
<1>8. /\ ends'[x].acks = 1 /\ ends'[x].localSeq = ends[x].localSeq
      /\ ends'[x].remoteSeq = ends[x].remoteSeq /\ ends'[x].recvq = ends[x].recvq
      /\ ends'[y] = ends[y]
  BY <1>5, <1>7, <1>i DEF EndType, TypesOK, EndsOK
<1>9. /\ \A j \in Threads : Calm(threads[x][j], threads'[x][j])
      /\ \A e \in Ends : e # x => threads'[e] = threads[e]
  BY <1>2, <1>i, RoundCalm, SetThread
<1>10. OnlyAt(x)
  BY <1>2, <1>7, <1>9, <1>i DEF OnlyAt, history, TypesOK, EndsOK
<1>11. /\ KeepsData(inbox[x], inbox'[x]) /\ inbox'[x] = Tail(inbox[x])
       /\ KeepsData(inbox[y], inbox'[y]) /\ KeepsAcks(inbox[y], inbox'[y])
  BY <1>1, <1>2, <1>i, TakeWire
<1>12. Orderly(y)'
  <2>1. SenderSame(y)
    BY <1>1, <1>10, OtherEnd
  <2>2. ReceiverSame(x) /\ PushedSame(y)
    BY <1>i, <1>2, <1>8, <1>9 DEF ReceiverSame, PushedSame, Calm, history
  <2> QED BY <1>1, <1>i, <1>11, <2>1, <2>2, Frame DEF WireSame
<1>13. CountsOK(x, c)'
  <2>1. ReceiverSame(y) /\ PushedSame(x)
    BY <1>1, <1>10, OtherEnd
  <2>2. Counting(y)' = Counting(y)
    BY <2>1 DEF Counting, ReceiverSame
  <2>3. Pushed(x)' = Pushed(x)
    BY <2>1 DEF Pushed, PushedSame
  <2>4. threads'[x]["send"].pc \in {"run", "idle"} => threads'[x]["send"].pc = threads[x]["send"].pc
    BY <1>9, <1>i DEF Calm
  <2> QED BY <1>1, <1>2, <1>3, <1>8, <2>2, <2>3, <2>4 DEF OrderlyAt, CountsOK, history
<1>14. AcksOK(x, c)'
  <2>1. \A i \in DOMAIN Tail(inbox[x]) : i + 1 \in DOMAIN inbox[x] /\ i + 1 # 1 /\ Tail(inbox[x])[i] = inbox[x][i + 1]
    BY <1>2, <1>i
  <2>2. \A i \in DOMAIN inbox'[x] : ~IsAck(inbox'[x][i])
    BY <1>5, <1>11, <2>1
  <2> QED BY <1>2, <1>5, <1>8, <2>2 DEF AcksOK, history
<1>15. ReceiverSame(Peer(x)) /\ sent'[x] = sent[x]
  BY <1>2, <1>10, OtherEnd DEF history
<1>16. OrderlyAt(x, c)'
  BY <1>1, <1>3, <1>11, <1>13, <1>14, <1>15, <1>i, ReceiverKept DEF OrderlyAt
<1> QED BY <1>1, <1>12, <1>16 DEF Orderly

\* What the thread k of x that handles a message leaves alone.
HandlingAt(x, k) ==
    /\ threads'[x][k].pc = threads[x][k].pc
    /\ \A j \in Threads : j # k => threads'[x][j] = threads[x][j]
    /\ OnlyAt(x) /\ UNCHANGED history
    /\ ends'[x].localSeq = ends[x].localSeq /\ ends'[x].acks = ends[x].acks

\* The direction of which x is the sender stays in order.
LEMMA HandlingFrame ==
    ASSUME TypesOK, InboxOK', NEW x \in Ends, NEW k \in Threads, HandlingAt(x, k), Orderly(x), WireSame(x)
    PROVE  Orderly(x)'
<1>1. SenderSame(x)
  <2>1. "send" \in Threads
    BY DEF Threads
  <2> QED BY <2>1 DEF HandlingAt, SenderSame, history
<1> QED BY <1>1, OtherEnd, Frame DEF HandlingAt

\* What is said of the sender of the other direction stays.
LEMMA SenderKept ==
    ASSUME TypesOK, TypesOK', NEW x \in Ends, NEW k \in Threads, HandlingAt(x, k), NEW c \in Nat,
           OrderlyAt(Peer(x), c), KeepsAcks(inbox[Peer(x)], inbox'[Peer(x)])
    PROVE  /\ AcksOK(Peer(x), c)'
           /\ ends'[x].remoteSeq = ends[x].remoteSeq /\ Pushed(Peer(x))' = Pushed(Peer(x))
                /\ Counting(x)' = Counting(x) => CountsOK(Peer(x), c)'
<1>1. PICK y \in Ends : y = Peer(x) /\ x = Peer(y) /\ y # x
  BY PeerType
<1>2. SenderSame(y) /\ OnlyAt(x)
  BY <1>1, OtherEnd DEF HandlingAt
<1>3. AcksOK(y, c)'
  BY <1>1, <1>2, AcksKept DEF OrderlyAt, TypesOK
<1>4. ASSUME ends'[x].remoteSeq = ends[x].remoteSeq, Pushed(y)' = Pushed(y), Counting(x)' = Counting(x)
      PROVE  CountsOK(y, c)'
  BY <1>1, <1>2, <1>4 DEF OrderlyAt, CountsOK, SenderSame
<1> QED BY <1>1, <1>3, <1>4

\* Nothing is a message that nobody holds.
LEMMA NotNothing == \A m : IsData(m) => m # Nothing
BY DEF IsData, Nothing, Signal

\* A message is taken by the one thread that holds one.
LEMMA TakeOrderly ==
    ASSUME TypesOK, TypesOK', NEW x \in Ends, NEW k \in Threads, TakeData(x, k), ~raced',
           Orderly(x), Orderly(Peer(x))
    PROVE  Orderly(x)' /\ Orderly(Peer(x))'
<1>1. PICK y \in Ends : y = Peer(x) /\ x = Peer(y) /\ y # x
  BY PeerType
<1>i. /\ inbox[x] \in Seq(Messages) /\ inbox[y] \in Seq(Messages) /\ InboxOK /\ InboxOK' /\ ThreadsOK
      /\ threads[x] \in [Threads -> ThreadType] /\ sent[y] \in Nat
  BY <1>1, DirectionTypes DEF TypesOK
<1>2. /\ inbox[x] # <<>> /\ IsData(First(x)) /\ inbox' = Rest(x) /\ UNCHANGED <<ends, history>>
      /\ Set(x, k, [Round(x, k) EXCEPT !.hand = First(x)])
      /\ \A j \in Threads : ~Holds(x, j)
  BY DEF TakeData, Taken, IsData
<1>3. /\ threads'[x][k].hand = First(x) /\ threads'[x][k].pc = threads[x][k].pc
      /\ threads'[x][k].counting = threads[x][k].counting
      /\ \A j \in Threads : j # k => threads'[x][j] = threads[x][j]
      /\ threads'[y] = threads[y] /\ \A e \in Ends : e # x => threads'[e] = threads[e]
  <2>1. /\ threads'[x][k] = [Round(x, k) EXCEPT !.hand = First(x)]
        /\ \A j \in Threads : j # k => threads'[x][j] = threads[x][j]
        /\ \A e \in Ends : e # x => threads'[e] = threads[e]
    BY <1>2, <1>i, SetThread
  <2>2. threads[x][k] \in ThreadType
    BY <1>i
  <2>3. /\ [Round(x, k) EXCEPT !.hand = First(x)].hand = First(x)
        /\ [Round(x, k) EXCEPT !.hand = First(x)].pc = threads[x][k].pc
        /\ [Round(x, k) EXCEPT !.hand = First(x)].counting = threads[x][k].counting
    BY <2>2 DEF Round, ThreadType
  <2> QED BY <1>1, <2>1, <2>3
<1>4. HandlingAt(x, k)
  BY <1>2, <1>3 DEF HandlingAt, OnlyAt, history
<1>5. /\ KeepsAcks(inbox[x], inbox'[x]) /\ KeepsData(inbox[x], inbox'[x]) /\ inbox'[x] = Tail(inbox[x])
      /\ KeepsData(inbox[y], inbox'[y]) /\ KeepsAcks(inbox[y], inbox'[y])
  BY <1>1, <1>2, <1>i, TakeWire
<1>6. Orderly(x)'
  BY <1>1, <1>4, <1>5, <1>i, HandlingFrame DEF WireSame
<1>7. PICK c \in Nat : OrderlyAt(y, c)
  BY <1>1 DEF Orderly
<1>8. \A j \in Threads : threads'[x][j].counting = threads[x][j].counting
  BY <1>3
<1>9. \A j \in Threads : ~threads[x][j].counting
  BY <1>1, <1>2, <1>7 DEF OrderlyAt, HandsOK, Holds
<1>10. CountsOK(y, c)' /\ AcksOK(y, c)'
  <2>1. Counting(x)' = Counting(x)
    BY <1>8 DEF Counting
  <2>2. Pushed(y)' = Pushed(y)
    BY <1>1, <1>2 DEF Pushed, history
  <2> QED BY <1>1, <1>2, <1>4, <1>5, <1>7, <2>1, <2>2, SenderKept
<1>11. /\ DataOK(inbox[x], c, ends[x].remoteSeq, sent[y]) /\ DataOK(inbox'[x], c, ends[x].remoteSeq, sent[y])
  <2>1. DataOK(inbox[x], c, ends[x].remoteSeq, sent[y])
    BY <1>1, <1>7 DEF OrderlyAt
  <2> QED BY <1>5, <1>i, <2>1, DataKept DEF TypesOK, InboxOK
<1>12. HandsOK(threads'[x], inbox'[x], c, ends[x].remoteSeq, sent[y])
  <2>1. 1 \in DOMAIN inbox[x] /\ First(x) = inbox[x][1]
    BY <1>2, <1>i DEF First
  <2>2. Numbered(First(x), c, ends[x].remoteSeq) /\ First(x).body <= sent[y]
    BY <1>2, <1>11, <2>1 DEF DataOK
  <2>3. \A i \in DOMAIN Tail(inbox[x]) : i + 1 \in DOMAIN inbox[x] /\ 1 < i + 1 /\ Tail(inbox[x])[i] = inbox[x][i + 1]
    BY <1>2, <1>i
  <2>4. \A i \in DOMAIN inbox'[x] : IsData(inbox'[x][i]) => First(x).body <= inbox'[x][i].body
    BY <1>2, <1>5, <1>11, <2>1, <2>3 DEF DataOK
  <2>5. \A j \in Threads : threads'[x][j].hand # Nothing => j = k
    BY <1>2, <1>3 DEF Holds
  <2>6. \A j \in Threads : ~threads'[x][j].counting
    BY <1>8, <1>9
  <2> QED BY <1>2, <1>3, <2>2, <2>4, <2>5, <2>6 DEF HandsOK
<1>13. OrderlyAt(y, c)'
  BY <1>1, <1>2, <1>10, <1>11, <1>12 DEF OrderlyAt, history
<1> QED BY <1>1, <1>6, <1>13 DEF Orderly

\* How the difference of two numbers tells the next message from the last one.
LEMMA Differences ==
    ASSUME NEW r \in 0..(SeqMod - 1), NEW n \in 0..(SeqMod - 1)
    PROVE  /\ Diff(r, n) = 0 <=> r = n
           /\ Succ(n) = r => Diff(r, n) = 1 /\ r # n
<1>1. ASSUME NEW M \in Nat, M > 2, NEW a \in 0..(M - 1), NEW b \in 0..(M - 1)
      PROVE  ((a - b) % M = 0) <=> (a = b)
  OBVIOUS
<1>2. ASSUME NEW M \in Nat, M > 2, NEW a \in 0..(M - 1), NEW b \in 0..(M - 1), (b + 1) % M = a
      PROVE  (a - b) % M = 1 /\ a # b
  BY <1>2
<1> QED BY <1>1, <1>2, SizesAssumption DEF Diff, Succ

\* What the receiver knows of the message it checks.
LEMMA Checked ==
    ASSUME TypesOK, NEW x \in Ends, NEW k \in Threads, NEW c \in Nat, OrderlyAt(Peer(x), c),
           Holds(x, k)
    PROVE  /\ \A j \in Threads : j # k => threads[x][j].hand = Nothing /\ ~threads[x][j].counting
           /\ Hand(x, k).body \in Nat /\ Hand(x, k).body <= sent[Peer(x)]
           /\ \/ /\ Hand(x, k).body = c + 1 /\ Hand(x, k).seq = ends[x].remoteSeq
                 /\ Expected(x, Hand(x, k).seq) = 0 /\ sent[Peer(x)] = c + 1
              \/ Hand(x, k).body = c /\ Expected(x, Hand(x, k).seq) = 1
<1>1. PICK y \in Ends : y = Peer(x) /\ x = Peer(y)
  BY PeerType
<1>2. HandsOK(threads[x], inbox[x], c, ends[x].remoteSeq, sent[y]) /\ CountsOK(y, c)
  BY <1>1 DEF OrderlyAt
<1>3. threads[x][k] \in ThreadType /\ ends[x].remoteSeq \in 0..(SeqMod - 1) /\ sent[y] \in Nat
  BY <1>1, ThreadHas, DirectionTypes DEF TypesOK
<1>4. Hand(x, k).body \in Nat /\ Hand(x, k).seq \in 0..(SeqMod - 1) /\ Hand(x, k) = threads[x][k].hand
  BY <1>3 DEF ThreadType, Messages, Hand
<1>5. Numbered(Hand(x, k), c, ends[x].remoteSeq) /\ Hand(x, k).body <= sent[y]
  BY <1>2, <1>4 DEF HandsOK, Holds
<1>6. \A j \in Threads : j # k => threads[x][j].hand = Nothing /\ ~threads[x][j].counting
  BY <1>2 DEF HandsOK, Holds
<1>7. CASE Hand(x, k).body = c + 1 /\ Hand(x, k).seq = ends[x].remoteSeq
  <2>1. sent[y] = c + 1
    BY <1>2, <1>3, <1>5, <1>7 DEF CountsOK
  <2>2. Expected(x, Hand(x, k).seq) = 0
    BY <1>3, <1>4, <1>7, Differences DEF Expected
  <2> QED BY <1>1, <1>4, <1>5, <1>6, <1>7, <2>1, <2>2
<1>8. CASE Hand(x, k).body = c /\ Succ(Hand(x, k).seq) = ends[x].remoteSeq
  <2>1. Expected(x, Hand(x, k).seq) = 1
    BY <1>3, <1>4, <1>8, Differences DEF Expected
  <2> QED BY <1>1, <1>4, <1>5, <1>6, <1>8, <2>1
<1> QED BY <1>5, <1>7, <1>8 DEF Numbered

\* The message is pushed: it is the next one, and the last that was sent.
LEMMA PushOrderly ==
    ASSUME TypesOK, TypesOK', NEW x \in Ends, NEW k \in Threads, Push(x, k),
           Orderly(x), Orderly(Peer(x))
    PROVE  Orderly(x)' /\ Orderly(Peer(x))'
<1>1. PICK y \in Ends : y = Peer(x) /\ x = Peer(y) /\ y # x
  BY PeerType
<1>i. /\ inbox[x] \in Seq(Messages) /\ inbox[y] \in Seq(Messages) /\ InboxOK' /\ ThreadsOK
      /\ ends[x] \in EndType /\ threads[x][k] \in ThreadType /\ delivered[x] \in Seq(Nat)
  BY <1>1, ThreadHas DEF TypesOK, InboxOK, EndsOK, HistoryOK
<1>2. /\ Holds(x, k) /\ ~threads[x][k].counting /\ Expected(x, Hand(x, k).seq) = 0
      /\ ends' = [ends EXCEPT ![x].recvq = Append(@, Hand(x, k).body)]
      /\ Set(x, k, [threads[x][k] EXCEPT !.counting = TRUE]) /\ UNCHANGED <<inbox, history>>
  BY DEF Push, Checking
<1>3. PICK c \in Nat : OrderlyAt(y, c)
  BY <1>1 DEF Orderly
<1>4. /\ \A j \in Threads : j # k => threads[x][j].hand = Nothing /\ ~threads[x][j].counting
      /\ Hand(x, k).body \in Nat /\ Hand(x, k).body = c + 1 /\ sent[y] = c + 1
  BY <1>1, <1>2, <1>3, Checked
<1>5. /\ threads'[x][k].counting /\ threads'[x][k].hand = threads[x][k].hand
      /\ threads'[x][k].pc = threads[x][k].pc
      /\ \A j \in Threads : j # k => threads'[x][j] = threads[x][j]
      /\ \A e \in Ends : e # x => threads'[e] = threads[e]
  BY <1>2, <1>i, SetThread DEF ThreadType
<1>6. /\ ends'[x].recvq = Append(ends[x].recvq, Hand(x, k).body) /\ ends'[x].localSeq = ends[x].localSeq
      /\ ends'[x].acks = ends[x].acks /\ ends'[x].remoteSeq = ends[x].remoteSeq
      /\ \A e \in Ends : e # x => ends'[e] = ends[e]
  BY <1>2, <1>i DEF TypesOK, EndsOK, EndType
<1>7. HandlingAt(x, k)
  BY <1>2, <1>5, <1>6 DEF HandlingAt, OnlyAt, history
<1>8. WireSame(x) /\ WireSame(y)
  BY <1>1, <1>2, <1>i, KeepsSame DEF WireSame
<1>9. Orderly(x)'
  BY <1>7, <1>8, <1>i, HandlingFrame
<1>10. AcksOK(y, c)'
  BY <1>1, <1>3, <1>7, <1>8, SenderKept DEF WireSame
<1>11. CountsOK(y, c)'
  <2>1. SenderSame(y)
    BY <1>1, <1>7, OtherEnd DEF HandlingAt
  <2>2. ~Counting(x) /\ Counting(x)'
    BY <1>2, <1>4, <1>5 DEF Counting
  <2>3. Len(delivered[x]) + Len(ends[x].recvq) = c
    BY <1>1, <1>3, <2>2 DEF OrderlyAt, CountsOK, Pushed
  <2>4. Len(delivered[x]) + Len(ends'[x].recvq) = c + 1
    <3>1. ends[x].recvq \in Seq(Nat)
      BY <1>i DEF EndType
    <3>2. Len(ends'[x].recvq) = Len(ends[x].recvq) + 1 /\ Len(ends[x].recvq) \in Nat /\ Len(delivered[x]) \in Nat
      BY <1>4, <1>6, <1>i, <3>1
    <3>3. \A a, b \in Nat : a + (b + 1) = (a + b) + 1
      OBVIOUS
    <3>4. Len(delivered[x]) + (Len(ends[x].recvq) + 1) = (Len(delivered[x]) + Len(ends[x].recvq)) + 1
      BY <3>2, <3>3
    <3> QED BY <2>3, <3>2, <3>4
  <2>5. Pushed(y)' = c + 1
    BY <1>1, <1>2, <2>4 DEF Pushed, history
  <2> QED BY <1>1, <1>3, <1>6, <2>1, <2>2, <2>5 DEF OrderlyAt, CountsOK, SenderSame
<1>12. HandsOK(threads'[x], inbox[x], c, ends[x].remoteSeq, sent[y])
  <2>1. HandsOK(threads[x], inbox[x], c, ends[x].remoteSeq, sent[y])
    BY <1>1, <1>3 DEF OrderlyAt
  <2>2. /\ \A j \in Threads : threads'[x][j].hand = threads[x][j].hand
        /\ \A j \in Threads : threads'[x][j].counting => j = k
    BY <1>4, <1>5
  <2>3. threads'[x][k].hand # Nothing /\ threads'[x][k].hand.body = c + 1
    BY <1>2, <1>4, <1>5 DEF Holds, Hand
  <2> QED BY <2>1, <2>2, <2>3 DEF HandsOK
<1>13. OrderlyAt(y, c)'
  BY <1>1, <1>2, <1>3, <1>6, <1>10, <1>11, <1>12 DEF OrderlyAt, history
<1> QED BY <1>1, <1>9, <1>13 DEF Orderly

\* The message is dropped.
LEMMA SkipOrderly ==
    ASSUME TypesOK, TypesOK', NEW x \in Ends, NEW k \in Threads, Skip(x, k),
           Orderly(x), Orderly(Peer(x))
    PROVE  Orderly(x)' /\ Orderly(Peer(x))'
<1>1. PICK y \in Ends : y = Peer(x) /\ x = Peer(y) /\ y # x
  BY PeerType
<1>i. /\ inbox[x] \in Seq(Messages) /\ inbox[y] \in Seq(Messages) /\ InboxOK' /\ ThreadsOK
      /\ threads[x][k] \in ThreadType
  BY <1>1, ThreadHas DEF TypesOK, InboxOK
<1>2. /\ Holds(x, k) /\ ~threads[x][k].counting
      /\ Set(x, k, [threads[x][k] EXCEPT !.hand = Nothing]) /\ UNCHANGED <<inbox, ends, history>>
  BY DEF Skip, Checking
<1>3. PICK c \in Nat : OrderlyAt(y, c)
  BY <1>1 DEF Orderly
<1>4. \A j \in Threads : j # k => threads[x][j].hand = Nothing /\ ~threads[x][j].counting
  BY <1>1, <1>2, <1>3, Checked
<1>5. /\ ~threads'[x][k].counting /\ threads'[x][k].hand = Nothing
      /\ threads'[x][k].pc = threads[x][k].pc
      /\ \A j \in Threads : j # k => threads'[x][j] = threads[x][j]
      /\ \A e \in Ends : e # x => threads'[e] = threads[e]
  BY <1>2, <1>i, SetThread DEF ThreadType
<1>6. HandlingAt(x, k)
  BY <1>2, <1>5 DEF HandlingAt, OnlyAt, history
<1>7. WireSame(x) /\ WireSame(y)
  BY <1>1, <1>2, <1>i, KeepsSame DEF WireSame
<1>8. Orderly(x)'
  BY <1>6, <1>7, <1>i, HandlingFrame
<1>9. CountsOK(y, c)' /\ AcksOK(y, c)'
  <2>1. Counting(x)' = Counting(x)
    BY <1>2, <1>4, <1>5 DEF Counting
  <2>2. Pushed(y)' = Pushed(y)
    BY <1>1, <1>2 DEF Pushed, history
  <2> QED BY <1>1, <1>2, <1>3, <1>6, <1>7, <2>1, <2>2, SenderKept DEF WireSame
<1>10. HandsOK(threads'[x], inbox[x], c, ends[x].remoteSeq, sent[y])
  BY <1>4, <1>5 DEF HandsOK
<1>11. OrderlyAt(y, c)'
  BY <1>1, <1>2, <1>3, <1>9, <1>10 DEF OrderlyAt, history
<1> QED BY <1>1, <1>8, <1>11 DEF Orderly

\* The message is counted and acknowledged: it was the last that was sent, and has no
\* acknowledgement yet.
LEMMA CountOrderly ==
    ASSUME TypesOK, TypesOK', NEW x \in Ends, NEW k \in Threads, Count(x, k),
           Orderly(x), Orderly(Peer(x))
    PROVE  Orderly(x)' /\ Orderly(Peer(x))'
<1>1. PICK y \in Ends : y = Peer(x) /\ x = Peer(y) /\ y # x
  BY PeerType
<1>i. /\ inbox[x] \in Seq(Messages) /\ inbox[y] \in Seq(Messages) /\ InboxOK /\ InboxOK' /\ ThreadsOK
      /\ inbox'[x] \in Seq(Messages)
      /\ ends[x] \in EndType /\ threads[x][k] \in ThreadType /\ sent[y] \in Nat /\ confirmed[y] \in Nat
      /\ ends[y].acks \in 0..4
  BY <1>1, ThreadHas, DirectionTypes DEF TypesOK, InboxOK
<1> DEFINE m == Ack(Hand(x, k).seq)
<1>2. /\ threads[x][k].counting /\ Publish(x, m)
      /\ ends' = [ends EXCEPT ![x].remoteSeq = Succ(@)]
      /\ Set(x, k, [threads[x][k] EXCEPT !.counting = FALSE, !.hand = Nothing])
      /\ UNCHANGED history
  BY DEF Count, Succ
<1>3. PICK c \in Nat : OrderlyAt(y, c)
  BY <1>1 DEF Orderly
<1>4. Holds(x, k) /\ Hand(x, k).body = c + 1 /\ sent[y] \in {c, c + 1}
  BY <1>1, <1>2, <1>3 DEF OrderlyAt, HandsOK, CountsOK, Holds, Hand
<1>5. /\ \A j \in Threads : j # k => threads[x][j].hand = Nothing /\ ~threads[x][j].counting
      /\ Hand(x, k).seq = ends[x].remoteSeq /\ sent[y] = c + 1
  BY <1>1, <1>3, <1>4, Checked
<1>6. m \in Messages /\ ~IsData(m) /\ IsAck(m) /\ m.seq = ends[x].remoteSeq
  <2>1. Hand(x, k).seq \in 0..(SeqMod - 1)
    BY <1>5, <1>i DEF EndType
  <2> QED BY <1>5, <2>1, MessageTypes DEF IsData, IsAck, Ack
<1> HIDE DEF m
<1>7. /\ ~threads'[x][k].counting /\ threads'[x][k].hand = Nothing
      /\ threads'[x][k].pc = threads[x][k].pc
      /\ \A j \in Threads : j # k => threads'[x][j] = threads[x][j]
      /\ \A e \in Ends : e # x => threads'[e] = threads[e]
  <2>1. /\ threads'[x][k] = [threads[x][k] EXCEPT !.counting = FALSE, !.hand = Nothing]
        /\ \A j \in Threads : j # k => threads'[x][j] = threads[x][j]
        /\ \A e \in Ends : e # x => threads'[e] = threads[e]
    BY <1>2, <1>i, SetThread
  <2> QED BY <1>i, <2>1 DEF ThreadType
<1>8. /\ ends'[x].remoteSeq = Succ(ends[x].remoteSeq) /\ ends'[x].localSeq = ends[x].localSeq
      /\ ends'[x].acks = ends[x].acks /\ ends'[x].recvq = ends[x].recvq
      /\ \A e \in Ends : e # x => ends'[e] = ends[e]
  BY <1>2, <1>i DEF TypesOK, EndsOK, EndType
<1>9. HandlingAt(x, k)
  BY <1>2, <1>7, <1>8 DEF HandlingAt, OnlyAt, history
<1>10. /\ KeepsData(inbox[x], inbox'[x]) /\ KeepsAcks(inbox[x], inbox'[x])
       /\ KeepsData(inbox[y], inbox'[y]) /\ inbox'[y] \in {inbox[y], Append(inbox[y], m)}
  BY <1>1, <1>2, <1>6, <1>i, PublishWire
<1>11. Orderly(x)'
  BY <1>1, <1>9, <1>10, <1>i, HandlingFrame DEF WireSame
<1>12. SenderSame(y)
  BY <1>1, <1>9, OtherEnd DEF HandlingAt
<1>13. /\ ends[y].localSeq = ends[x].remoteSeq /\ confirmed[y] <= c /\ sent[y] <= confirmed[y] + 1
       /\ threads[y]["send"].pc = "run" => confirmed[y] < sent[y]
       /\ threads[y]["send"].pc = "idle" => confirmed[y] = sent[y]
       /\ Pushed(y) = IF Counting(x) THEN c + 1 ELSE c
  <2>1. c + 1 # c
    OBVIOUS
  <2>2. CountsOK(y, c) /\ sent[y] # c
    BY <1>3, <1>5, <2>1 DEF OrderlyAt
  <2> QED BY <1>1, <2>2 DEF CountsOK
<1>14. CountsOK(y, c + 1)'
  <2>1. Counting(x) /\ ~Counting(x)'
    BY <1>2, <1>5, <1>7 DEF Counting
  <2>2. Pushed(y)' = c + 1
    BY <1>1, <1>2, <1>8, <1>13, <2>1 DEF Pushed, history
  <2>3. confirmed[y] <= c + 1 /\ sent[y] = c + 1
    BY <1>5, <1>13, <1>i
  <2>4. ends'[x].remoteSeq = Succ(ends'[y].localSeq)
    BY <1>1, <1>8, <1>13
  <2> QED BY <1>1, <1>12, <1>13, <2>1, <2>2, <2>3, <2>4 DEF CountsOK, SenderSame
<1>15. AcksOK(y, c + 1)'
  <2>1. ends[y].acks = 0 /\ \A i \in DOMAIN inbox[y] : ~IsAck(inbox[y][i])
    BY <1>3, <1>5, <1>i DEF OrderlyAt, AcksOK
  <2>2. confirmed[y] < sent[y]
    BY <1>5, <1>13, <1>i
  <2>3. /\ DOMAIN Append(inbox[y], m) = DOMAIN inbox[y] \union {Len(inbox[y]) + 1}
        /\ \A i \in DOMAIN inbox[y] : Append(inbox[y], m)[i] = inbox[y][i]
        /\ Append(inbox[y], m)[Len(inbox[y]) + 1] = m
    BY <1>6, <1>i
  <2>4. \A i \in DOMAIN inbox'[y] : IsAck(inbox'[y][i]) => i = Len(inbox[y]) + 1 /\ inbox'[y][i] = m
    BY <1>10, <2>1, <2>3
  <2>5. sent'[y] = c + 1 /\ confirmed'[y] = confirmed[y] /\ ends'[y] = ends[y]
    BY <1>1, <1>5, <1>8, <1>12 DEF SenderSame
  <2> QED BY <1>5, <1>6, <1>13, <2>1, <2>2, <2>4, <2>5 DEF AcksOK
<1>16. DataOK(inbox'[x], c + 1, ends'[x].remoteSeq, sent[y])
  <2>1. DataOK(inbox[x], c, ends[x].remoteSeq, c + 1) /\ HandsOK(threads[x], inbox[x], c, ends[x].remoteSeq, c + 1)
    BY <1>1, <1>3, <1>5 DEF OrderlyAt
  <2>2. ASSUME NEW i \in DOMAIN inbox[x], IsData(inbox[x][i])
        PROVE  Numbered(inbox[x][i], c + 1, Succ(ends[x].remoteSeq)) /\ inbox[x][i].body <= c + 1
    <3>1. inbox[x][i].body \in Nat
      <4>1. inbox[x][i] \in Messages
        BY <1>i
      <4> QED BY <4>1 DEF Messages
    <3>2. c + 1 <= inbox[x][i].body /\ inbox[x][i].body <= c + 1
      BY <1>4, <2>1, <2>2 DEF DataOK, HandsOK, Holds, Hand
    <3>3. inbox[x][i].body = c + 1 /\ c + 1 # c
      BY <3>1, <3>2
    <3> QED BY <2>1, <2>2, <3>2, <3>3 DEF DataOK, Numbered
  <2>3. DataOK(inbox[x], c + 1, Succ(ends[x].remoteSeq), c + 1)
    BY <2>1, <2>2 DEF DataOK
  <2>4. DataOK(inbox'[x], c + 1, Succ(ends[x].remoteSeq), c + 1)
    BY <1>10, <1>i, <2>3, DataKept
  <2> QED BY <1>5, <1>8, <2>4
<1>17. HandsOK(threads'[x], inbox'[x], c + 1, ends'[x].remoteSeq, sent[y])
  BY <1>5, <1>7 DEF HandsOK
<1>18. OrderlyAt(y, c + 1)' /\ c + 1 \in Nat
  BY <1>1, <1>2, <1>14, <1>15, <1>16, <1>17 DEF OrderlyAt, history
<1> QED BY <1>1, <1>11, <1>18 DEF Orderly

\* Both directions are in order when the stream is connected.
LEMMA InvInit == Init => Inv
<1> SUFFICES ASSUME Init, NEW e \in Ends PROVE OrderlyAt(e, 0)
  BY DEF Inv, Orderly
<1>1. Peer(e) \in Ends /\ "send" \in Threads
  BY PeerType DEF Threads
<1>2. /\ \A x \in Ends, k \in Threads : threads[x][k].hand = Nothing /\ ~threads[x][k].counting
      /\ threads[e]["send"].pc = "idle"
  BY <1>1 DEF Init, NewThread
<1>3. CountsOK(e, 0)
  <2>1. ~Counting(Peer(e))
    BY <1>1, <1>2 DEF Counting
  <2>2. Pushed(e) = 0
    BY <1>1 DEF Init, Pushed
  <2>3. Succ(0) = 1
    <3>1. \A M \in Nat : M > 2 => (0 + 1) % M = 1
      OBVIOUS
    <3> QED BY <3>1, SizesAssumption DEF Succ
  <2>4. sent[e] = 0 /\ confirmed[e] = 0 /\ ends[e].localSeq = 0 /\ ends[Peer(e)].remoteSeq = 1
    BY <1>1 DEF Init
  <2> QED BY <1>2, <2>1, <2>2, <2>3, <2>4 DEF CountsOK
<1>4. AcksOK(e, 0)
  BY DEF Init, AcksOK
<1>5. /\ HandsOK(threads[Peer(e)], inbox[Peer(e)], 0, ends[Peer(e)].remoteSeq, sent[e])
      /\ DataOK(inbox[Peer(e)], 0, ends[Peer(e)].remoteSeq, sent[e])
  BY <1>1, <1>2 DEF Init, HandsOK, DataOK
<1> QED BY <1>3, <1>4, <1>5 DEF OrderlyAt

\* Every step but one that begins a race keeps both directions in order.
LEMMA InvStep == TypesOK /\ TypesOK' /\ Inv /\ [Next]_vars => Inv'
<1> SUFFICES ASSUME TypesOK, TypesOK', Inv, [Next]_vars, ~raced'
             PROVE  \A e \in Ends : Orderly(e)'
  BY DEF Inv
<1>1. CASE UNCHANGED vars
  <2> SUFFICES ASSUME NEW e \in Ends PROVE Orderly(e)'
    OBVIOUS
  <2>1. Orderly(e)
    BY <1>1 DEF Inv, vars
  <2>2. SenderSame(e) /\ ReceiverSame(Peer(e)) /\ PushedSame(e) /\ inbox' = inbox
    BY <1>1 DEF vars, history, SenderSame, ReceiverSame, PushedSame
  <2>3. WireSame(e)
    BY <2>2, DirectionTypes, KeepsSame DEF WireSame
  <2> QED BY <2>1, <2>2, <2>3, Frame DEF TypesOK
<1>2. CASE ~UNCHANGED vars
  <2>1. PICK x \in Ends :
           /\ ~raced
           /\ \/ BeginSend(x) \/ Retry(x) \/ TakeAck(x) \/ SeeClosed(x) \/ Recv(x)
              \/ \E k \in Threads : Cancel(x, k) \/ Handle(x, k) \/ Close(x, k)
    BY <1>2, Steps
  <2>2. Orderly(x) /\ Orderly(Peer(x))
    BY <2>1, PeerType DEF Inv
  <2>3. ASSUME QuietStep(x) PROVE Orderly(x)' /\ Orderly(Peer(x))'
    BY <2>2, <2>3, QuietSteps, QuietOrderly DEF TypesOK
  <2>4. ASSUME ~QuietStep(x) PROVE Orderly(x)' /\ Orderly(Peer(x))'
    <3>1. \/ BeginSend(x) \/ Retry(x) \/ TakeAck(x)
          \/ \E k \in Threads : TakeData(x, k) \/ Push(x, k) \/ Skip(x, k) \/ Count(x, k) \/ HandleAck(x, k)
      BY <2>1, <2>4 DEF QuietStep, Handle
    <3> QED BY <2>2, <3>1, BeginOrderly, RetryOrderly, TakeAckOrderly, AckOrderly, TakeOrderly,
               PushOrderly, SkipOrderly, CountOrderly
  <2>5. Orderly(x)' /\ Orderly(Peer(x))'
    BY <2>3, <2>4
  <2>6. \A e \in Ends : e = x \/ e = Peer(x)
    BY DEF Ends, Peer
  <2> QED BY <2>5, <2>6
<1> QED BY <1>1, <1>2

\* No message of the peer is ever taken for a violation of the protocol, however
\* many are lost and repeated and however often the numbers begin again, as long
\* as no two threads of an end handle data messages at the same time, copies of one
\* message or not: the code does not exclude that (handleMessage).
THEOREM NumbersHold == Spec => []NoViolation
<1>1. TypesOK /\ Inv => NoViolation
  <2> SUFFICES ASSUME TypesOK, NEW e \in Ends, \A x \in Ends : Orderly(x)
               PROVE  /\ \A k \in Threads : Checking(e, k) => Expected(e, Hand(e, k).seq) \in {0, 1}
                      /\ inbox[e] # <<>> /\ First(e).kind = "ack" => Answered(e, First(e).seq) \in {0, 1}
    BY DEF Inv, NoViolation
  <2>1. ASSUME NEW k \in Threads, Checking(e, k) PROVE Expected(e, Hand(e, k).seq) \in {0, 1}
    <3>1. PICK c \in Nat : OrderlyAt(Peer(e), c)
      BY PeerType DEF Orderly
    <3> QED BY <2>1, <3>1, Checked DEF Checking
  <2>2. ASSUME inbox[e] # <<>>, First(e).kind = "ack" PROVE Answered(e, First(e).seq) \in {0, 1}
    <3>1. PICK c \in Nat : OrderlyAt(e, c)
      BY DEF Orderly
    <3>2. inbox[e] \in Seq(Messages) /\ ends[e].localSeq \in 0..(SeqMod - 1)
      BY DirectionTypes
    <3>3. 1 \in DOMAIN inbox[e] /\ First(e) = inbox[e][1]
      BY <2>2, <3>2 DEF First
    <3>4. First(e).seq = ends[e].localSeq
      BY <2>2, <3>1, <3>3 DEF OrderlyAt, AcksOK, IsAck
    <3> QED BY <3>2, <3>4, Differences DEF Answered
  <2> QED BY <2>1, <2>2
<1> QED BY TypesInit, TypesStep, InvInit, InvStep, <1>1, PTL DEF Spec

---------------------------------------------------------------------------
(* Each direction is a pipe.                                               *)

\* What a direction shows of itself.
Shown(e) == <<sent[e], confirmed[e], ends[Peer(e)].recvq, delivered[Peer(e)]>>

\* A step that shows nothing is a stutter of the pipe.
LEMMA Unseen ==
    ASSUME NEW e \in Ends, Shown(e)' = Shown(e)
    PROVE  UNCHANGED Direction(e)!pipe
BY DEF Shown, Direction!pipe

\* A step of x shows in one direction at most.
LEMMA PipeSteps ==
    ASSUME TypesOK, TypesOK', NEW x \in Ends, NEW y \in Ends, y = Peer(x), Orderly(x), Orderly(y),
           \/ BeginSend(x) \/ Retry(x) \/ TakeAck(x) \/ SeeClosed(x) \/ Recv(x)
           \/ \E k \in Threads : Cancel(x, k) \/ Handle(x, k) \/ Close(x, k)
    PROVE  /\ [Direction(x)!Next]_(Direction(x)!pipe)
           /\ [Direction(y)!Next]_(Direction(y)!pipe)
<1>i. /\ y # x /\ x = Peer(y) /\ sent[x] \in Nat /\ confirmed[x] \in Nat /\ ends[x] \in EndType
      /\ ends[x].acks \in 0..4 /\ EndsOK /\ HistoryOK
  BY PeerType, DirectionTypes DEF TypesOK
<1>c. PICK c \in Nat : OrderlyAt(x, c)
  BY DEF Orderly
<1>d. PICK d \in Nat : OrderlyAt(y, d)
  BY DEF Orderly
<1>1. CASE BeginSend(x)
  <2>1. sent[x] = confirmed[x]
    BY <1>1, <1>c DEF BeginSend, OrderlyAt, CountsOK
  <2>2. /\ sent'[x] = sent[x] + 1 /\ sent'[y] = sent[y] /\ UNCHANGED <<confirmed, delivered>>
        /\ ends'[x].recvq = ends[x].recvq /\ ends'[y] = ends[y]
    BY <1>1, <1>i DEF BeginSend, EndsOK, EndType, HistoryOK
  <2>3. Direction(x)!Next
    BY <2>1, <2>2 DEF Direction!Next, Direction!Send
  <2>4. Shown(y)' = Shown(y)
    BY <1>i, <2>2 DEF Shown
  <2> QED BY <2>3, <2>4, Unseen
<1>2. CASE TakeAck(x)
  <2>1. ends[x].acks = 1 /\ sent[x] = c /\ confirmed[x] < sent[x]
    BY <1>2, <1>c, <1>i DEF TakeAck, OrderlyAt, AcksOK
  <2>2. Pushed(x) = c
    <3>1. ~Counting(y)
      <4>1. ASSUME NEW k \in Threads, threads[y][k].counting PROVE FALSE
        <5>1. threads[y][k].hand # Nothing /\ threads[y][k].hand.body = c + 1 /\ threads[y][k].hand.body <= sent[x]
          BY <1>c, <4>1 DEF OrderlyAt, HandsOK
        <5> QED BY <2>1, <5>1
      <4> QED BY <4>1 DEF Counting
    <3> QED BY <1>c, <3>1 DEF OrderlyAt, CountsOK
  <2>3. /\ confirmed'[x] = sent[x] /\ confirmed'[y] = confirmed[y] /\ UNCHANGED <<sent, delivered>>
        /\ ends'[x].recvq = ends[x].recvq /\ ends'[y] = ends[y]
    BY <1>2, <1>i DEF TakeAck, EndsOK, EndType, HistoryOK
  <2>4. Direction(x)!Next
    BY <2>1, <2>2, <2>3 DEF Direction!Next, Direction!Confirm, Direction!Arrived, Pushed
  <2>5. Shown(y)' = Shown(y)
    BY <1>i, <2>3 DEF Shown
  <2> QED BY <2>4, <2>5, Unseen
<1>3. CASE Recv(x)
  <2>1. /\ delivered'[x] = Append(delivered[x], Head(ends[x].recvq)) /\ ends[x].recvq # <<>>
        /\ ends'[x].recvq = Tail(ends[x].recvq) /\ UNCHANGED <<sent, confirmed>>
        /\ delivered'[y] = delivered[y] /\ ends'[y] = ends[y]
    BY <1>3, <1>i DEF Recv, EndsOK, EndType, HistoryOK
  <2>2. Direction(y)!Next
    BY <1>i, <2>1 DEF Direction!Next, Direction!Deliver
  <2>3. Shown(x)' = Shown(x)
    BY <2>1 DEF Shown
  <2> QED BY <2>2, <2>3, Unseen
<1>4. ASSUME NEW k \in Threads, Push(x, k)
      PROVE  /\ [Direction(x)!Next]_(Direction(x)!pipe)
             /\ [Direction(y)!Next]_(Direction(y)!pipe)
  <2>1. /\ Holds(x, k) /\ ~threads[x][k].counting /\ Expected(x, Hand(x, k).seq) = 0
        /\ ends' = [ends EXCEPT ![x].recvq = Append(@, Hand(x, k).body)] /\ UNCHANGED history
    BY <1>4 DEF Push, Checking
  <2>2. /\ \A j \in Threads : j # k => ~threads[x][j].counting
        /\ Hand(x, k).body = d + 1 /\ sent[y] = d + 1
    BY <1>d, <1>i, <2>1, Checked
  <2>3. Pushed(y) = d
    <3>1. ~Counting(x)
      BY <2>1, <2>2 DEF Counting
    <3> QED BY <1>d, <1>i, <3>1 DEF OrderlyAt, CountsOK
  <2>4. ends'[x].recvq = Append(ends[x].recvq, sent[y]) /\ ends'[y] = ends[y]
    BY <1>i, <2>1, <2>2 DEF EndsOK, EndType
  <2>5. Direction(y)!Next
    <3>1. d < d + 1
      OBVIOUS
    <3> QED BY <1>i, <2>1, <2>2, <2>3, <2>4, <3>1
            DEF Direction!Next, Direction!Arrive, Direction!Arrived, Pushed, history
  <2>6. Shown(x)' = Shown(x)
    BY <2>1, <2>4 DEF Shown, history
  <2> QED BY <2>5, <2>6, Unseen
<1>5. CASE /\ ends' = ends \/ (\E r \in EndType : r.recvq = ends[x].recvq /\ ends' = [ends EXCEPT ![x] = r])
           /\ UNCHANGED history
  <2>1. \A e \in Ends : ends'[e].recvq = ends[e].recvq
    BY <1>5, <1>i DEF EndsOK
  <2>2. Shown(x)' = Shown(x) /\ Shown(y)' = Shown(y)
    BY <1>5, <1>i, <2>1 DEF Shown, history
  <2> QED BY <2>2, Unseen
<1>6. CASE \/ SeeClosed(x) \/ Retry(x)
           \/ \E k \in Threads :
                Cancel(x, k) \/ BeginClose(x, k) \/ RepeatBye(x, k) \/ AbandonClose(x, k)
  BY <1>5, <1>6 DEF SeeClosed, Retry, Cancel, BeginClose, RepeatBye, AbandonClose
<1>7. CASE \E k \in Threads : EndClose(x, k)
  <2>1. [ends[x] EXCEPT !.closed = TRUE] \in EndType
    BY <1>i DEF EndType
  <2>2. [ends[x] EXCEPT !.closed = TRUE].recvq = ends[x].recvq
    BY <1>i DEF EndType
  <2> QED BY <1>5, <1>7, <2>1, <2>2 DEF EndClose
<1>8. ASSUME NEW k \in Threads,
             TakeData(x, k) \/ Skip(x, k) \/ HandleRefusal(x, k)
      PROVE  UNCHANGED <<ends, history>>
  BY <1>8 DEF TakeData, Skip, HandleRefusal
<1>9. ASSUME NEW k \in Threads, Count(x, k)
      PROVE  Shown(x)' = Shown(x) /\ Shown(y)' = Shown(y)
  <2>1. \A e \in Ends : ends'[e].recvq = ends[e].recvq
    BY <1>9, <1>i DEF Count, EndsOK, EndType
  <2> QED BY <1>9, <1>i, <2>1 DEF Shown, Count, history
<1>10. ASSUME NEW k \in Threads, HandleAck(x, k) \/ HandleBye(x, k) \/ HandleByeAck(x, k)
      PROVE  Shown(x)' = Shown(x) /\ Shown(y)' = Shown(y)
  <2>1. \/ ends' = ends \/ ends' = [ends EXCEPT ![x].acks = @ + 1]
        \/ ends' = [ends EXCEPT ![x].closed = TRUE]
    BY <1>10 DEF HandleAck, HandleBye, HandleByeAck, Ended
  <2>2. \A e \in Ends : ends'[e].recvq = ends[e].recvq
    <3>1. CASE ends' = [ends EXCEPT ![x].acks = @ + 1]
      BY <1>i, <3>1 DEF EndsOK, EndType
    <3>2. CASE ends' = [ends EXCEPT ![x].closed = TRUE]
      BY <1>i, <3>2 DEF EndsOK, EndType
    <3> QED BY <2>1, <3>1, <3>2
  <2> QED BY <1>10, <1>i, <2>2 DEF Shown, HandleAck, HandleBye, HandleByeAck, history
<1> QED BY <1>1, <1>2, <1>3, <1>4, <1>5, <1>6, <1>7, <1>8, <1>9, <1>10, Unseen DEF Handle, Close

\* Every step is one of the pipes, or shows nothing.
LEMMA DirectionSteps ==
    ASSUME TypesOK, TypesOK', Inv, [Next]_vars, ~UNCHANGED vars
    PROVE  \A e \in Ends : [Direction(e)!Next]_(Direction(e)!pipe)
<1>1. PICK x \in Ends :
         /\ ~raced
         /\ \/ BeginSend(x) \/ Retry(x) \/ TakeAck(x) \/ SeeClosed(x) \/ Recv(x)
            \/ \E k \in Threads : Cancel(x, k) \/ Handle(x, k) \/ Close(x, k)
  BY Steps
<1>2. PICK y \in Ends : y = Peer(x)
  BY PeerType
<1>3. Orderly(x) /\ Orderly(y)
  BY <1>1 DEF Inv
<1>4. \A e \in Ends : e = x \/ e = y
  BY <1>2 DEF Ends, Peer
<1> QED BY <1>1, <1>2, <1>3, <1>4, PipeSteps

\* Without a race in particular.
LEMMA PipeStep ==
    TypesOK /\ TypesOK' /\ Inv /\ [Next]_vars =>
        [raced' \/ \A e \in Ends : [Direction(e)!Next]_(Direction(e)!pipe)]_vars
BY DirectionSteps

\* Each direction of a stream is a pipe (Pipe): every message arrives exactly once
\* and in order and Send returns when it has arrived, for any modulus of the
\* sequence numbers, any capacity, any losses and repetitions and any closes, until
\* two threads of an end handle data messages at the same time, copies of one message
\* or not (Send, Recv, handleMessage).
THEOREM StreamIsPipe == Spec => IsPipe
<1>1. Init => \A e \in Ends : Direction(e)!Init
  BY PeerType DEF Init, Direction!Init
<1> QED BY TypesInit, TypesStep, InvInit, InvStep, PipeStep, <1>1, PTL DEF Spec, IsPipe

---------------------------------------------------------------------------
(* What a pipe promises.                                                   *)

\* One direction with s messages sent, c of them confirmed, q waiting to be received and d
\* delivered: d and q are the messages in order, and one message is on its way at most.
InSequence(s, c, q, d) ==
    /\ s \in Nat /\ c \in Nat /\ q \in Seq(Nat) /\ d \in Seq(Nat)
    /\ \A i \in 1..Len(d) : d[i] = i
    /\ \A i \in 1..Len(q) : q[i] = Len(d) + i
    /\ c <= Len(d) + Len(q) /\ Len(d) + Len(q) <= s /\ s <= c + 1

\* A message arrives after those before it.
LEMMA ArrivesInSequence ==
    ASSUME NEW s, NEW c, NEW q, NEW d, InSequence(s, c, q, d), Len(d) + Len(q) < s
    PROVE  InSequence(s, c, Append(q, s), d)
<1>i. /\ s \in Nat /\ c \in Nat /\ q \in Seq(Nat) /\ d \in Seq(Nat)
      /\ Len(q) \in Nat /\ Len(d) \in Nat
      /\ c <= Len(d) + Len(q) /\ s <= c + 1
  BY DEF InSequence
<1>1. s = Len(d) + (Len(q) + 1)
  BY <1>i
<1>2. /\ Len(Append(q, s)) = Len(q) + 1 /\ Append(q, s) \in Seq(Nat)
      /\ Append(q, s)[Len(q) + 1] = s
      /\ \A i \in 1..Len(q) : Append(q, s)[i] = q[i]
  BY <1>i
<1>3. ASSUME NEW i \in 1..(Len(q) + 1)
      PROVE  Append(q, s)[i] = Len(d) + i
  <2>1. CASE i = Len(q) + 1
    BY <1>1, <1>2, <2>1
  <2>2. CASE i # Len(q) + 1
    <3>1. i \in 1..Len(q)
      BY <1>i, <2>2
    <3> QED BY <1>2, <3>1 DEF InSequence
  <2> QED BY <2>1, <2>2
<1>4. \A i \in 1..Len(Append(q, s)) : Append(q, s)[i] = Len(d) + i
  BY <1>2, <1>3
<1>5. c <= Len(d) + Len(Append(q, s)) /\ Len(d) + Len(Append(q, s)) <= s
  BY <1>i, <1>1, <1>2
<1> QED BY <1>i, <1>2, <1>4, <1>5 DEF InSequence

\* The first one that waits is the next to be delivered.
LEMMA DeliversInSequence ==
    ASSUME NEW s, NEW c, NEW q, NEW d, InSequence(s, c, q, d), q # <<>>
    PROVE  InSequence(s, c, Tail(q), Append(d, Head(q)))
<1>i. /\ s \in Nat /\ c \in Nat /\ q \in Seq(Nat) /\ d \in Seq(Nat)
      /\ Len(q) \in Nat /\ Len(d) \in Nat
  BY DEF InSequence
<1>1. /\ Tail(q) \in Seq(Nat) /\ Len(Tail(q)) = Len(q) - 1 /\ Len(q) >= 1
      /\ \A i \in 1..Len(Tail(q)) : Tail(q)[i] = q[i + 1] /\ i + 1 \in 1..Len(q)
      /\ Head(q) = q[1] /\ 1 \in 1..Len(q)
  BY <1>i
<1>2. Head(q) = Len(d) + 1
  BY <1>1 DEF InSequence
<1>3. PICK e : e = Append(d, Head(q))
  OBVIOUS
<1>4. /\ e \in Seq(Nat) /\ Len(e) = Len(d) + 1 /\ e[Len(d) + 1] = Len(d) + 1
      /\ \A i \in 1..Len(d) : e[i] = d[i]
  BY <1>i, <1>2, <1>3
<1>5. ASSUME NEW i \in 1..Len(e)
      PROVE  e[i] = i
  <2>1. i = Len(d) + 1 \/ i \in 1..Len(d)
    BY <1>i, <1>4
  <2> QED BY <1>4, <2>1 DEF InSequence
<1>6. ASSUME NEW i \in 1..Len(Tail(q))
      PROVE  Tail(q)[i] = Len(e) + i
  <2>1. Tail(q)[i] = Len(d) + (i + 1)
    BY <1>1 DEF InSequence
  <2> QED BY <1>i, <1>4, <2>1
<1>7. Len(e) + Len(Tail(q)) = Len(d) + Len(q)
  BY <1>i, <1>1, <1>4
<1> QED BY <1>i, <1>1, <1>3, <1>4, <1>5, <1>6, <1>7 DEF InSequence

\* One direction of the stream in these terms.
DirectionInSequence(e) ==
    InSequence(sent[e], confirmed[e], ends[Peer(e)].recvq, delivered[Peer(e)])

\* The steps of a pipe keep it in sequence.
LEMMA PipeKeepsSequence ==
    ASSUME NEW e \in Ends, DirectionInSequence(e), [Direction(e)!Next]_(Direction(e)!pipe)
    PROVE  DirectionInSequence(e)'
<1>1. PICK s, c, q, d : /\ s = sent[e] /\ c = confirmed[e]
                        /\ q = ends[Peer(e)].recvq /\ d = delivered[Peer(e)]
  OBVIOUS
<1>2. PICK t, b, r, g : /\ t = sent'[e] /\ b = confirmed'[e]
                        /\ r = ends'[Peer(e)].recvq /\ g = delivered'[Peer(e)]
  OBVIOUS
<1>3. InSequence(s, c, q, d)
  BY <1>1 DEF DirectionInSequence
<1>4. \/ s = c /\ t = s + 1 /\ b = c /\ r = q /\ g = d
      \/ Len(d) + Len(q) < s /\ r = Append(q, s) /\ t = s /\ b = c /\ g = d
      \/ Len(d) + Len(q) = s /\ b = s /\ t = s /\ r = q /\ g = d
      \/ q # <<>> /\ g = Append(d, Head(q)) /\ r = Tail(q) /\ t = s /\ b = c
      \/ t = s /\ b = c /\ r = q /\ g = d
  BY <1>1, <1>2 DEF Direction!Next, Direction!Send, Direction!Arrive, Direction!Confirm,
     Direction!Deliver, Direction!Arrived, Direction!pipe
<1>5. InSequence(t, b, r, g)
  <2>1. CASE s = c /\ t = s + 1 /\ b = c /\ r = q /\ g = d
    BY <1>3, <2>1 DEF InSequence
  <2>2. CASE Len(d) + Len(q) = s /\ b = s /\ t = s /\ r = q /\ g = d
    BY <1>3, <2>2 DEF InSequence
  <2> QED BY <1>3, <1>4, <2>1, <2>2, ArrivesInSequence, DeliversInSequence
<1> QED BY <1>2, <1>5 DEF DirectionInSequence

\* What each end receives is what the other one sent, in order and each message once, and
\* what a call of Send took for received has arrived (Pipe's InOrder, in both directions):
\* whatever is lost, repeated, dropped by a full channel or numbered anew; until two threads
\* of an end handle data messages at once, copies of one or not, where the model stops.
THEOREM StreamInOrder == Spec => [](\A e \in Ends : Direction(e)!InOrder)
<1> DEFINE All == \A e \in Ends : DirectionInSequence(e)
<1>1. Init => All
  <2> SUFFICES ASSUME Init, NEW e \in Ends PROVE DirectionInSequence(e)
    OBVIOUS
  <2>1. /\ sent[e] = 0 /\ confirmed[e] = 0
        /\ ends[Peer(e)].recvq = <<>> /\ delivered[Peer(e)] = <<>>
    BY PeerType DEF Init
  <2>2. InSequence(0, 0, <<>>, <<>>)
    BY DEF InSequence
  <2> QED BY <2>1, <2>2 DEF DirectionInSequence
<1>2. TypesOK /\ TypesOK' /\ Inv /\ All /\ [Next]_vars => All'
  <2> SUFFICES ASSUME TypesOK, TypesOK', Inv, All, [Next]_vars, NEW e \in Ends
               PROVE  DirectionInSequence(e)'
    OBVIOUS
  <2>1. CASE UNCHANGED vars
    <3>1. UNCHANGED <<sent, confirmed, ends, delivered>>
      BY <2>1 DEF vars, history
    <3>2. DirectionInSequence(e)
      OBVIOUS
    <3> QED BY <3>1, <3>2 DEF DirectionInSequence
  <2>2. CASE ~UNCHANGED vars
    <3>1. DirectionInSequence(e)
      OBVIOUS
    <3>2. [Direction(e)!Next]_(Direction(e)!pipe)
      BY <2>2, DirectionSteps
    <3> QED BY <3>1, <3>2, PipeKeepsSequence
  <2> QED BY <2>1, <2>2
<1>3. All => \A e \in Ends : Direction(e)!InOrder
  BY DEF DirectionInSequence, InSequence, Direction!InOrder, Direction!Arrived
<1> HIDE DEF All
<1> QED BY <1>1, <1>2, <1>3, TypesInit, TypesStep, InvInit, InvStep, PTL DEF Spec

---------------------------------------------------------------------------
(* What is under way in the inboxes: who waits for an answer gets one, and *)
(* the end of a stream is learned.                                         *)

In(q, msg) == \E i \in DOMAIN q : q[i] = msg
Has(q, kind) == \E i \in DOMAIN q : q[i].kind = kind

\* One more message.
LEMMA InAppended ==
    ASSUME NEW q \in Seq(Messages), NEW m \in Messages
    PROVE  /\ In(Append(q, m), m)
           /\ \A msg : In(q, msg) => In(Append(q, m), msg)
           /\ \A kind : Has(Append(q, m), kind) => Has(q, kind) \/ m.kind = kind
<1>1. /\ DOMAIN Append(q, m) = 1..(Len(q) + 1) /\ DOMAIN q = 1..Len(q) /\ Len(q) \in Nat
      /\ Append(q, m)[Len(q) + 1] = m
      /\ \A i \in 1..Len(q) : Append(q, m)[i] = q[i]
  OBVIOUS
<1>2. \A i \in DOMAIN Append(q, m) : i \in DOMAIN q \/ i = Len(q) + 1
  BY <1>1
<1> QED BY <1>1, <1>2 DEF In, Has

\* Without the first message.
LEMMA InTail ==
    ASSUME NEW q \in Seq(Messages), q # <<>>
    PROVE  /\ \A msg : In(q, msg) => In(Tail(q), msg) \/ msg = Head(q)
           /\ \A kind : Has(Tail(q), kind) => Has(q, kind)
           /\ Has(q, Head(q).kind)
<1>1. /\ DOMAIN Tail(q) = 1..(Len(q) - 1) /\ DOMAIN q = 1..Len(q) /\ Len(q) \in Nat
      /\ Len(q) > 0 /\ Head(q) = q[1] /\ \A i \in 1..(Len(q) - 1) : Tail(q)[i] = q[i + 1]
  OBVIOUS
<1>2. \A i \in DOMAIN q : i = 1 \/ (i - 1 \in DOMAIN Tail(q) /\ Tail(q)[i - 1] = q[i])
  BY <1>1
<1>3. \A i \in DOMAIN Tail(q) : i + 1 \in DOMAIN q /\ q[i + 1] = Tail(q)[i]
  BY <1>1
<1>4. 1 \in DOMAIN q /\ q[1] = Head(q)
  BY <1>1
<1> QED BY <1>2, <1>3, <1>4 DEF In, Has

\* A step of x leaves the inbox y of the other end as it is, with the message m in it or
\* with what was lost counted.
Put(x, y, m) ==
    \/ inbox'[y] = Append(inbox[y], m) /\ missed' = missed
    \/ inbox'[y] = inbox[y] /\ (ends[y].closed \/ missed' = (missed \/ ~Repeated(m)))

Bids(x) == \E k \in Threads : BeginClose(x, k) \/ RepeatBye(x, k)

StepOf(x) ==
    \/ BeginSend(x) \/ Retry(x) \/ TakeAck(x) \/ SeeClosed(x) \/ Recv(x)
    \/ \E k \in Threads : Cancel(x, k) \/ Handle(x, k) \/ Close(x, k)

\* Where a message of x is to arrive.
LEMMA PublishPuts ==
    ASSUME InboxOK, LossesOK, NEW x \in Ends, NEW y \in Ends, y = Peer(x), NEW m \in Messages,
           Publish(x, m)
    PROVE  /\ Put(x, y, m)
           /\ \/ inbox'[x] = inbox[x]
              \/ inbox'[x] = Append(inbox[x], Signal("refused"))
           /\ missed => missed'
<1>1. x # y /\ inbox \in [Ends -> Seq(Messages)] /\ missed \in BOOLEAN
  BY PeerType DEF InboxOK, LossesOK
<1> DEFINE refused == Signal("refused")
<1>2. \/ UNCHANGED inbox /\ missed' = (missed \/ ~Repeated(m))
      \/ inbox' = [inbox EXCEPT ![y] = Append(@, m)] /\ UNCHANGED missed
      \/ ends[y].closed /\ inbox' = [inbox EXCEPT ![x] = Append(@, refused)] /\ UNCHANGED missed
      \/ ends[y].closed /\ UNCHANGED <<inbox, missed>>
      \/ ends[y].closed /\ UNCHANGED inbox /\ missed' = (missed \/ ~Repeated(m))
  BY <1>1 DEF Publish
<1> HIDE DEF refused
<1>3. CASE UNCHANGED inbox /\ missed' = (missed \/ ~Repeated(m))
  BY <1>3 DEF Put
<1>4. CASE inbox' = [inbox EXCEPT ![y] = Append(@, m)] /\ UNCHANGED missed
  BY <1>1, <1>4 DEF Put
<1>5. CASE ends[y].closed /\ inbox' = [inbox EXCEPT ![x] = Append(@, refused)] /\ UNCHANGED missed
  BY <1>1, <1>5 DEF Put, refused
<1>6. CASE ends[y].closed /\ UNCHANGED <<inbox, missed>>
  BY <1>6 DEF Put
<1> QED BY <1>2, <1>3, <1>4, <1>5, <1>6

\* What a step of x does to the inboxes, and what it is that does it.
LEMMA WireStep ==
    ASSUME TypesOK, NEW x \in Ends, NEW y \in Ends, y = Peer(x), StepOf(x)
    PROVE  /\ \E m \in Messages :
                /\ inbox'[y] \in {inbox[y], Append(inbox[y], m)}
                /\ m.kind = "bye" => Bids(x)
                /\ m.kind = "byeack" => \E k \in Threads : HandleBye(x, k)
           /\ \/ inbox'[x] = inbox[x]
              \/ inbox'[x] = Append(inbox[x], Signal("refused"))
              \/ /\ inbox'[x] = Tail(inbox[x]) /\ inbox[x] # <<>>
                 /\ First(x).kind = "bye" => \E k \in Threads : HandleBye(x, k)
                 /\ First(x).kind = "ack" => \E k \in Threads : HandleAck(x, k)
           /\ missed => missed'
<1>1. x # y /\ inbox \in [Ends -> Seq(Messages)] /\ InboxOK /\ LossesOK /\ missed \in BOOLEAN
  BY PeerType DEF TypesOK, InboxOK, LossesOK
<1>2. Nothing \in Messages /\ Signal("bye") \in Messages /\ Signal("byeack") \in Messages
  BY MessageTypes
<1>3. ASSUME NEW m \in Messages, Publish(x, m),
             m.kind = "bye" => Bids(x), m.kind # "byeack"
      PROVE  /\ \E n \in Messages :
                  /\ inbox'[y] \in {inbox[y], Append(inbox[y], n)}
                  /\ n.kind = "bye" => Bids(x)
                  /\ n.kind = "byeack" => \E k \in Threads : HandleBye(x, k)
             /\ inbox'[x] = inbox[x] \/ inbox'[x] = Append(inbox[x], Signal("refused"))
             /\ missed => missed'
  <2>1. inbox'[y] \in {inbox[y], Append(inbox[y], m)}
    BY <1>1, <1>3, PublishPuts DEF Put
  <2> QED BY <1>1, <1>3, <2>1, PublishPuts
<1>4. CASE BeginSend(x)
  <2>1. PICK m : /\ m = [kind |-> "data", seq |-> (ends[x].localSeq + 1) % SeqMod,
                        body |-> sent[x] + 1]
                 /\ Publish(x, m)
    BY <1>4 DEF BeginSend
  <2>2. /\ ends[x].localSeq \in 0..(SeqMod - 1) /\ sent[x] \in Nat
        /\ (ends[x].localSeq + 1) % SeqMod \in 0..(SeqMod - 1)
    BY NextNumber DEF TypesOK, EndsOK, EndType, HistoryOK
  <2>3. m \in Messages
    BY <2>1, <2>2 DEF Messages
  <2>4. m.kind = "data"
    BY <2>1
  <2> QED BY <1>3, <2>1, <2>3, <2>4
<1>5. CASE Retry(x)
  <2>1. Publish(x, Data(x)) /\ Data(x).kind = "data"
    BY <1>5 DEF Retry, Data
  <2>2. Data(x) \in Messages
    BY MessageTypes DEF Data, TypesOK, EndsOK, EndType, HistoryOK
  <2> QED BY <1>3, <2>1, <2>2
<1>6. CASE Bids(x)
  <2>1. Publish(x, Signal("bye")) /\ Signal("bye").kind = "bye"
    BY <1>6 DEF Bids, BeginClose, RepeatBye, Signal
  <2> QED BY <1>2, <1>3, <1>6, <2>1
<1>8. ASSUME NEW k \in Threads, Count(x, k)
      PROVE  \E m \in Messages : Publish(x, m) /\ m.kind = "ack"
  <2>1. Publish(x, Ack(Hand(x, k).seq)) /\ Ack(Hand(x, k).seq).kind = "ack"
    BY <1>8 DEF Count, Ack
  <2>2. Hand(x, k).seq \in 0..(SeqMod - 1)
    BY ThreadHas DEF TypesOK, ThreadType, Hand, Messages
  <2> QED BY <2>1, <2>2, MessageTypes
<1>9. ASSUME NEW k \in Threads,
             TakeData(x, k) \/ HandleAck(x, k) \/ HandleByeAck(x, k) \/ HandleRefusal(x, k)
      PROVE  /\ inbox'[x] = Tail(inbox[x]) /\ inbox[x] # <<>> /\ inbox'[y] = inbox[y]
             /\ First(x).kind # "bye" /\ (First(x).kind = "ack" => HandleAck(x, k))
             /\ UNCHANGED missed
  BY <1>1, <1>9 DEF TakeData, HandleAck, HandleByeAck, HandleRefusal, Taken, Rest
<1>10. ASSUME NEW k \in Threads, HandleBye(x, k)
       PROVE  /\ inbox'[x] = Tail(inbox[x]) /\ inbox[x] # <<>>
              /\ inbox'[y] \in {inbox[y], Append(inbox[y], Signal("byeack"))}
              /\ First(x).kind = "bye" /\ UNCHANGED missed
  <2>1. /\ Rest(x) \in [Ends -> Seq(Messages)]
        /\ Rest(x)[x] = Tail(inbox[x]) /\ Rest(x)[y] = inbox[y]
        /\ inbox[x] # <<>> /\ First(x).kind = "bye" /\ UNCHANGED missed
    BY <1>1, <1>10, TakenTypes DEF HandleBye, Taken, Rest
  <2> DEFINE rest == Rest(x)
             note == Signal("byeack")
  <2>2. inbox' = rest \/ inbox' = [rest EXCEPT ![y] = Append(@, note)]
    BY <1>10 DEF HandleBye
  <2> HIDE DEF rest, note
  <2>3. inbox'[x] = rest[x] /\ inbox'[y] \in {rest[y], Append(rest[y], note)}
    BY <1>1, <2>1, <2>2 DEF rest
  <2> QED BY <2>1, <2>3 DEF rest, note
<1>11. CASE UNCHANGED <<inbox, missed>>
  <2>1. Nothing.kind = "none"
    BY DEF Nothing, Signal
  <2> QED BY <1>2, <1>11, <2>1
<1>12. Signal("byeack").kind = "byeack" /\ Nothing.kind = "none"
  BY DEF Signal, Nothing
<1>13. CASE \E k \in Threads : Count(x, k)
  BY <1>3, <1>8, <1>13
<1>14. CASE \E k \in Threads :
              TakeData(x, k) \/ HandleAck(x, k) \/ HandleByeAck(x, k) \/ HandleRefusal(x, k)
  BY <1>2, <1>9, <1>12, <1>14
<1>15. CASE \E k \in Threads : HandleBye(x, k)
  BY <1>2, <1>10, <1>12, <1>15
<1>16. CASE \/ TakeAck(x) \/ SeeClosed(x) \/ Recv(x)
            \/ \E k \in Threads :
                 Cancel(x, k) \/ EndClose(x, k) \/ AbandonClose(x, k) \/ Push(x, k) \/ Skip(x, k)
  BY <1>11, <1>16 DEF TakeAck, SeeClosed, Recv, Cancel, EndClose, AbandonClose, Push, Skip
<1> QED BY <1>4, <1>5, <1>6, <1>13, <1>14, <1>15, <1>16 DEF StepOf, Handle, Close, Bids

Told(p) == In(inbox[p], Signal("bye"))
Away(pc) == pc \in {"closing", "done"}

\* Who takes leave has begun to, and has told the other end; whoever is closed is so by
\* a Close of its own or of the other end.
Farewell(e) ==
    /\ Has(inbox[e], "bye") => Leaving(Peer(e))
    /\ Has(inbox[e], "byeack") => ends[Peer(e)].closed
    /\ ~missed /\ Leaving(e) => ends[Peer(e)].closed \/ Told(Peer(e))
    /\ ends[e].closed => Leaving(e) \/ Leaving(Peer(e))

\* What a step of the thread k of x does to the positions of the threads.
LEMMA Positions ==
    ASSUME TypesOK, NEW x \in Ends, NEW k \in Threads
    PROVE  /\ \A t : Set(x, k, t) =>
                /\ threads'[x][k] = t /\ threads'[Peer(x)] = threads[Peer(x)]
                /\ \A j \in Threads : j # k => threads'[x][j] = threads[x][j]
           /\ \A pc : Goto(x, k, pc) =>
                /\ threads'[x][k].pc = pc /\ threads'[Peer(x)] = threads[Peer(x)]
                /\ \A j \in Threads : j # k => threads'[x][j] = threads[x][j]
           /\ Round(x, k).pc = threads[x][k].pc
           /\ \A pc : [Round(x, k) EXCEPT !.pc = pc].pc = pc
           /\ \A h : [Round(x, k) EXCEPT !.hand = h].pc = threads[x][k].pc
           /\ \A h : [threads[x][k] EXCEPT !.hand = h].pc = threads[x][k].pc
           /\ \A h : [threads[x][k] EXCEPT !.counting = h].pc = threads[x][k].pc
           /\ \A h, b : [threads[x][k] EXCEPT !.counting = b, !.hand = h].pc = threads[x][k].pc
<1>1. threads[x][k] \in ThreadType /\ Peer(x) \in Ends /\ Peer(x) # x
  BY PeerType, ThreadHas DEF TypesOK
<1>2. ASSUME NEW t, Set(x, k, t)
      PROVE  /\ threads'[x][k] = t /\ threads'[Peer(x)] = threads[Peer(x)]
             /\ \A j \in Threads : j # k => threads'[x][j] = threads[x][j]
  BY <1>1, <1>2, SetThread DEF TypesOK
<1>3. /\ \A pc : [threads[x][k] EXCEPT !.pc = pc].pc = pc
      /\ Round(x, k).pc = threads[x][k].pc
      /\ \A pc : [Round(x, k) EXCEPT !.pc = pc].pc = pc
      /\ \A h : [Round(x, k) EXCEPT !.hand = h].pc = threads[x][k].pc
      /\ \A h : [threads[x][k] EXCEPT !.hand = h].pc = threads[x][k].pc
      /\ \A h : [threads[x][k] EXCEPT !.counting = h].pc = threads[x][k].pc
      /\ \A h, b : [threads[x][k] EXCEPT !.counting = b, !.hand = h].pc = threads[x][k].pc
  BY <1>1 DEF Round, ThreadType
<1>4. ASSUME NEW pc, Goto(x, k, pc)
      PROVE  /\ threads'[x][k].pc = pc /\ threads'[Peer(x)] = threads[Peer(x)]
             /\ \A j \in Threads : j # k => threads'[x][j] = threads[x][j]
  <2>1. Set(x, k, [threads[x][k] EXCEPT !.pc = pc]) /\ [threads[x][k] EXCEPT !.pc = pc].pc = pc
    BY <1>3, <1>4 DEF Goto
  <2> QED BY <1>2, <2>1
<1> QED BY <1>2, <1>3, <1>4

\* How an end gets closed, and a thread of it to Close; whoever is leaving stays so.
LEMMA LeavingSteps ==
    ASSUME TypesOK, NEW x \in Ends, NEW y \in Ends, y = Peer(x), StepOf(x)
    PROVE  /\ ends'[y] = ends[y] /\ threads'[y] = threads[y]
           /\ ends[x].closed => ends'[x].closed
           /\ \A j \in Threads : Away(threads[x][j].pc) => Away(threads'[x][j].pc)
           /\ \/ \E k \in Threads : BeginClose(x, k)
              \/ \A j \in Threads : Away(threads'[x][j].pc) => Away(threads[x][j].pc)
           /\ ends'[x].closed =>
                \/ ends[x].closed
                \/ \E k \in Threads : EndClose(x, k) \/ HandleBye(x, k) \/ HandleByeAck(x, k)
<1> DEFINE Fine == \A j \in Threads : Away(threads'[x][j].pc) <=> Away(threads[x][j].pc)
           Same == ends'[x].closed = ends[x].closed /\ ends'[y] = ends[y]
           Quits == ends'[x].closed /\ ends'[y] = ends[y]
<1>1. /\ x # y /\ ends \in [Ends -> EndType] /\ threads \in [Ends -> [Threads -> ThreadType]]
      /\ ends[x] \in EndType /\ ends[x].closed \in BOOLEAN
      /\ \A k \in Threads : threads[x][k] \in ThreadType
      /\ "send" \in Threads /\ "recv" \in Threads /\ TypesOK
  BY PeerType DEF TypesOK, EndsOK, EndType, ThreadsOK, Threads
<1>2. ASSUME NEW r, ends' = [ends EXCEPT ![x] = r], r.closed = ends[x].closed PROVE Same
  BY <1>1, <1>2
<1>3. ASSUME ends' = [ends EXCEPT ![x].closed = TRUE] PROVE Quits
  BY <1>1, <1>3 DEF EndType
<1>4. /\ \A n : [ends[x] EXCEPT !.localSeq = n].closed = ends[x].closed
      /\ \A n : [ends[x] EXCEPT !.remoteSeq = n].closed = ends[x].closed
      /\ \A n : [ends[x] EXCEPT !.acks = n].closed = ends[x].closed
      /\ \A n : [ends[x] EXCEPT !.recvq = n].closed = ends[x].closed
  BY <1>1 DEF EndType
<1>g. ASSUME NEW k \in Threads, NEW pc, Goto(x, k, pc), Away(pc) <=> Away(threads[x][k].pc)
      PROVE  Fine /\ threads'[y] = threads[y]
  <2>1. /\ threads'[x][k].pc = pc /\ threads'[y] = threads[y]
        /\ \A j \in Threads : j # k => threads'[x][j] = threads[x][j]
    BY <1>1, <1>g, Positions
  <2> QED BY <1>g, <2>1
<1>5. CASE BeginSend(x)
  <2>1. /\ threads[x]["send"].pc = "idle" /\ Goto(x, "send", "run")
        /\ ends' = [ends EXCEPT ![x] = [ends[x] EXCEPT !.localSeq = (ends[x].localSeq + 1) % SeqMod]]
    BY <1>5 DEF BeginSend
  <2>2. Same
    BY <1>2, <1>4, <2>1
  <2>3. Fine /\ threads'[y] = threads[y]
    BY <1>1, <1>g, <2>1 DEF Away
  <2> QED BY <2>2, <2>3
<1>6. CASE TakeAck(x)
  <2>1. /\ threads[x]["send"].pc = "run" /\ Goto(x, "send", "idle")
        /\ ends' = [ends EXCEPT ![x] = [ends[x] EXCEPT !.acks = ends[x].acks - 1]]
    BY <1>6 DEF TakeAck, Waiting
  <2>2. Same
    BY <1>2, <1>4, <2>1
  <2>3. Fine /\ threads'[y] = threads[y]
    BY <1>1, <1>g, <2>1 DEF Away
  <2> QED BY <2>2, <2>3
<1>7. CASE SeeClosed(x)
  <2>1. threads[x]["send"].pc = "run" /\ Goto(x, "send", "ended") /\ Same
    BY <1>7 DEF SeeClosed, Waiting
  <2>2. Fine /\ threads'[y] = threads[y]
    BY <1>1, <1>g, <2>1 DEF Away
  <2> QED BY <2>1, <2>2
<1>8. CASE Retry(x)
  BY <1>8 DEF Retry
<1>9. CASE Recv(x)
  <2>1. /\ threads[x]["recv"].pc = "run"
        /\ ends' = [ends EXCEPT ![x] = [ends[x] EXCEPT !.recvq = Tail(ends[x].recvq)]]
    BY <1>9 DEF Recv, Waiting
  <2>2. Same
    BY <1>2, <1>4, <2>1
  <2>3. PICK pc \in {"run", "failed"} : Goto(x, "recv", pc)
    BY <1>9 DEF Recv
  <2>4. Fine /\ threads'[y] = threads[y]
    BY <1>1, <1>g, <2>1, <2>3 DEF Away
  <2> QED BY <2>2, <2>4
<1>10. ASSUME NEW k \in Threads, Cancel(x, k) PROVE Fine /\ threads'[y] = threads[y] /\ Same
  <2>1. threads[x][k].pc = "run" /\ Goto(x, k, "failed") /\ Same
    BY <1>10 DEF Cancel, Waiting
  <2> QED BY <1>g, <2>1 DEF Away
<1>11. ASSUME NEW k \in Threads, BeginClose(x, k)
       PROVE  Away(threads'[x][k].pc) /\ threads'[y] = threads[y] /\ Same
              /\ \A j \in Threads : j # k => threads'[x][j] = threads[x][j]
  <2>1. Goto(x, k, "closing") /\ Same
    BY <1>11 DEF BeginClose
  <2> QED BY <1>1, <2>1, Positions DEF Away
<1>12. ASSUME NEW k \in Threads, RepeatBye(x, k) \/ EndClose(x, k) \/ AbandonClose(x, k)
       PROVE  Fine /\ threads'[y] = threads[y] /\ (Same \/ (Quits /\ EndClose(x, k)))
  <2>1. threads[x][k].pc = "closing"
    BY <1>12 DEF RepeatBye, EndClose, AbandonClose, Waiting
  <2>2. CASE RepeatBye(x, k)
    <3>1. Set(x, k, Round(x, k)) /\ Same
      BY <2>2 DEF RepeatBye
    <3> QED BY <1>1, <3>1, Positions
  <2>3. CASE EndClose(x, k) \/ AbandonClose(x, k)
    <3>1. Goto(x, k, "done") /\ (Same \/ (Quits /\ EndClose(x, k)))
      BY <1>3, <2>3 DEF EndClose, AbandonClose
    <3> QED BY <1>g, <2>1, <3>1 DEF Away
  <2> QED BY <1>12, <2>2, <2>3
<1>13. ASSUME NEW k \in Threads, Handle(x, k) PROVE Fine /\ threads'[y] = threads[y]
  <2>1. \/ HandleBye(x, k) \/ HandleByeAck(x, k) \/ HandleRefusal(x, k)
        \/ Set(x, k, Round(x, k))
        \/ \E h : Set(x, k, [Round(x, k) EXCEPT !.hand = h])
        \/ \E h : Set(x, k, [threads[x][k] EXCEPT !.hand = h])
        \/ Set(x, k, [threads[x][k] EXCEPT !.counting = TRUE])
        \/ \E h : Set(x, k, [threads[x][k] EXCEPT !.counting = FALSE, !.hand = h])
    <3>1. ASSUME TakeData(x, k) PROVE \E h : Set(x, k, [Round(x, k) EXCEPT !.hand = h])
      BY <3>1 DEF TakeData
    <3>2. ASSUME Push(x, k) PROVE Set(x, k, [threads[x][k] EXCEPT !.counting = TRUE])
      BY <3>2 DEF Push
    <3>3. ASSUME Skip(x, k) PROVE \E h : Set(x, k, [threads[x][k] EXCEPT !.hand = h])
      BY <3>3 DEF Skip
    <3>4. ASSUME Count(x, k)
          PROVE \E h : Set(x, k, [threads[x][k] EXCEPT !.counting = FALSE, !.hand = h])
      BY <3>4 DEF Count
    <3>5. ASSUME HandleAck(x, k) PROVE Set(x, k, Round(x, k))
      BY <3>5 DEF HandleAck
    <3> QED BY <1>13, <3>1, <3>2, <3>3, <3>4, <3>5 DEF Handle
  <2>2. PICK t : /\ Set(x, k, t)
                 /\ Away(t.pc) <=> Away(threads[x][k].pc)
    <3>1. [Round(x, k) EXCEPT !.pc = IF ends[x].closed THEN Returns(x, k, "ended") ELSE @].pc
            = IF ends[x].closed THEN Returns(x, k, "ended") ELSE threads[x][k].pc
      BY <1>1, Positions DEF Round, ThreadType
    <3>2. /\ Round(x, k).pc = threads[x][k].pc
          /\ [Round(x, k) EXCEPT !.pc = Returns(x, k, "failed")].pc = Returns(x, k, "failed")
          /\ \A h : [Round(x, k) EXCEPT !.hand = h].pc = threads[x][k].pc
          /\ \A h : [threads[x][k] EXCEPT !.hand = h].pc = threads[x][k].pc
          /\ [threads[x][k] EXCEPT !.counting = TRUE].pc = threads[x][k].pc
          /\ \A h : [threads[x][k] EXCEPT !.counting = FALSE, !.hand = h].pc = threads[x][k].pc
      BY <1>1, Positions
    <3>3. /\ Taken(x, k, "bye") \/ Taken(x, k, "byeack") \/ Taken(x, k, "refused") =>
               threads[x][k].pc \in {"run", "closing"}
          /\ Away(Returns(x, k, "ended")) <=> threads[x][k].pc = "closing"
          /\ Away(Returns(x, k, "failed")) <=> threads[x][k].pc = "closing"
      BY DEF Taken, Waiting, Away, Returns
    <3>4. ASSUME HandleBye(x, k) \/ HandleByeAck(x, k) \/ HandleRefusal(x, k)
          PROVE  threads[x][k].pc \in {"run", "closing"}
      BY <3>3, <3>4 DEF HandleBye, HandleByeAck, HandleRefusal
    <3>5. CASE HandleBye(x, k) \/ HandleByeAck(x, k)
      <4> DEFINE t == [Round(x, k) EXCEPT !.pc = IF ends[x].closed THEN Returns(x, k, "ended") ELSE @]
      <4>1. Set(x, k, t)
        BY <3>5 DEF HandleBye, HandleByeAck, Ended
      <4>2. Away(t.pc) <=> Away(threads[x][k].pc)
        BY <3>1, <3>3, <3>4, <3>5 DEF Away
      <4> QED BY <4>1, <4>2
    <3>6. CASE HandleRefusal(x, k)
      <4> DEFINE t == [Round(x, k) EXCEPT !.pc = Returns(x, k, "failed")]
      <4>1. Set(x, k, t)
        BY <3>6 DEF HandleRefusal
      <4>2. Away(t.pc) <=> Away(threads[x][k].pc)
        BY <3>2, <3>3, <3>4, <3>6 DEF Away
      <4> QED BY <4>1, <4>2
    <3>7. CASE ~(HandleBye(x, k) \/ HandleByeAck(x, k) \/ HandleRefusal(x, k))
      <4>1. \E t : Set(x, k, t) /\ t.pc = threads[x][k].pc
        BY <2>1, <3>2, <3>7
      <4> QED BY <4>1
    <3> QED BY <3>5, <3>6, <3>7
  <2>3. /\ threads'[x][k] = t /\ threads'[y] = threads[y]
        /\ \A j \in Threads : j # k => threads'[x][j] = threads[x][j]
    BY <1>1, <2>2, Positions
  <2> QED BY <1>1, <2>2, <2>3
<1>14. ASSUME NEW k \in Threads, HandleBye(x, k) \/ HandleByeAck(x, k) PROVE Quits
  BY <1>3, <1>14 DEF HandleBye, HandleByeAck, Ended
<1>15. ASSUME NEW k \in Threads,
              TakeData(x, k) \/ Push(x, k) \/ Skip(x, k) \/ Count(x, k) \/ HandleAck(x, k)
                \/ HandleRefusal(x, k)
       PROVE  Same
  <2>1. ASSUME Push(x, k) PROVE Same
    <3>1. ends' = [ends EXCEPT ![x] = [ends[x] EXCEPT !.recvq = Append(ends[x].recvq, Hand(x, k).body)]]
      BY <2>1 DEF Push
    <3> QED BY <1>2, <1>4, <3>1
  <2>2. ASSUME Count(x, k) PROVE Same
    <3>1. ends' = [ends EXCEPT ![x] = [ends[x] EXCEPT !.remoteSeq = (ends[x].remoteSeq + 1) % SeqMod]]
      BY <2>2 DEF Count
    <3> QED BY <1>2, <1>4, <3>1
  <2>3. ASSUME HandleAck(x, k) PROVE Same
    <3>1. \/ ends' = ends
          \/ ends' = [ends EXCEPT ![x] = [ends[x] EXCEPT !.acks = ends[x].acks + 1]]
      BY <2>3 DEF HandleAck
    <3> QED BY <1>2, <1>4, <3>1
  <2>4. ASSUME TakeData(x, k) \/ Skip(x, k) \/ HandleRefusal(x, k) PROVE Same
    BY <2>4 DEF TakeData, Skip, HandleRefusal
  <2> QED BY <1>15, <2>1, <2>2, <2>3, <2>4
<1>16. ASSUME NEW k \in Threads, Handle(x, k)
       PROVE  Fine /\ threads'[y] = threads[y]
              /\ (Same \/ (Quits /\ (HandleBye(x, k) \/ HandleByeAck(x, k))))
  BY <1>13, <1>14, <1>15, <1>16 DEF Handle
<1> QED BY <1>5, <1>6, <1>7, <1>8, <1>9, <1>10, <1>11, <1>12, <1>16 DEF StepOf, Close

\* Who begins or repeats a farewell is leaving, who handles one or its answer is closed.
LEMMA TakingLeave ==
    ASSUME TypesOK, NEW x \in Ends
    PROVE  /\ Bids(x) => Leaving(x)'
           /\ \A k \in Threads : HandleBye(x, k) \/ HandleByeAck(x, k) => ends'[x].closed
<1>1. ends \in [Ends -> EndType] /\ TypesOK
  BY DEF TypesOK, EndsOK
<1>2. ASSUME NEW k \in Threads, BeginClose(x, k) PROVE threads'[x][k].pc = "closing"
  BY <1>1, <1>2, Positions DEF BeginClose
<1>3. ASSUME NEW k \in Threads, RepeatBye(x, k) PROVE threads'[x][k].pc = "closing"
  BY <1>1, <1>3, Positions DEF RepeatBye, Waiting
<1>4. ASSUME NEW k \in Threads, HandleBye(x, k) \/ HandleByeAck(x, k) PROVE ends'[x].closed
  BY <1>1, <1>4 DEF HandleBye, HandleByeAck, Ended, EndType
<1> QED BY <1>2, <1>3, <1>4 DEF Bids, Leaving

\* Nobody has told anything, and nobody is leaving.
LEMMA FarewellInit == Init => \A e \in Ends : Farewell(e)
<1> SUFFICES ASSUME Init, NEW e \in Ends PROVE Farewell(e)
  OBVIOUS
<1>1. inbox[e] = <<>> /\ ~ends[e].closed
  BY DEF Init
<1>2. ~Leaving(e)
  <2>1. \A k \in Threads : threads[e][k] = NewThread(k)
    BY DEF Init
  <2>2. \A k \in Threads : NewThread(k).pc \in {"run", "idle"}
    BY DEF NewThread
  <2>3. \A k \in Threads : threads[e][k].pc \in {"run", "idle"}
    BY <2>1, <2>2
  <2> QED BY <2>3 DEF Leaving
<1> QED BY <1>1, <1>2 DEF Farewell, Has

\* A farewell stays in the inbox of the other end until that handles it.
LEMMA ToldStays ==
    ASSUME TypesOK, NEW x \in Ends, NEW y \in Ends, y = Peer(x), StepOf(x)
    PROVE  /\ Told(y) => Told(y)'
           /\ Told(x) => Told(x)' \/ ends'[x].closed
           /\ (\E k \in Threads : BeginClose(x, k)) => Told(y)' \/ missed' \/ ends[y].closed
<1>1. inbox[x] \in Seq(Messages) /\ inbox[y] \in Seq(Messages) /\ Signal("refused") \in Messages
      /\ Signal("bye") \in Messages /\ InboxOK /\ LossesOK /\ Signal("bye").kind = "bye"
  BY MessageTypes DEF TypesOK, InboxOK, Signal
<1> DEFINE bye == Signal("bye")
           refused == Signal("refused")
<1>2. Told(y) => Told(y)'
  <2>1. PICK m \in Messages : inbox'[y] \in {inbox[y], Append(inbox[y], m)}
    BY WireStep
  <2>2. In(inbox[y], bye) => In(inbox'[y], bye)
    BY <1>1, <2>1, InAppended
  <2> QED BY <2>2 DEF Told
<1>3. Told(x) => Told(x)' \/ ends'[x].closed
  <2>1. \/ inbox'[x] = inbox[x]
        \/ inbox'[x] = Append(inbox[x], refused)
        \/ /\ inbox'[x] = Tail(inbox[x]) /\ inbox[x] # <<>>
           /\ First(x).kind = "bye" => \E k \in Threads : HandleBye(x, k)
    BY WireStep
  <2>2. CASE inbox'[x] = inbox[x] \/ inbox'[x] = Append(inbox[x], refused)
    <3>1. In(inbox[x], bye) => In(inbox'[x], bye)
      BY <1>1, <2>2, InAppended
    <3> QED BY <3>1 DEF Told
  <2>3. CASE /\ inbox'[x] = Tail(inbox[x]) /\ inbox[x] # <<>>
             /\ First(x).kind = "bye" => \E k \in Threads : HandleBye(x, k)
    <3>1. In(inbox[x], bye) => In(inbox'[x], bye) \/ bye = First(x)
      BY <1>1, <2>3, InTail DEF First
    <3>2. bye = First(x) => ends'[x].closed
      BY <1>1, <2>3, TakingLeave
    <3> QED BY <3>1, <3>2 DEF Told
  <2> QED BY <2>1, <2>2, <2>3
<1>4. (\E k \in Threads : BeginClose(x, k)) => Told(y)' \/ missed' \/ ends[y].closed
  <2> SUFFICES ASSUME NEW k \in Threads, BeginClose(x, k) PROVE Told(y)' \/ missed' \/ ends[y].closed
    OBVIOUS
  <2>1. Put(x, y, bye)
    BY <1>1, PublishPuts DEF BeginClose
  <2>2. CASE inbox'[y] = Append(inbox[y], bye)
    BY <1>1, <2>2, InAppended DEF Told
  <2>3. ~Repeated(bye)
    BY DEF Repeated, Signal
  <2> QED BY <2>1, <2>2, <2>3 DEF Put
<1> QED BY <1>2, <1>3, <1>4

\* A new farewell is of an end that is gone, a new answer of one that is closed.
LEMMA NewsIsTrue ==
    ASSUME TypesOK, NEW x \in Ends, NEW y \in Ends, y = Peer(x), StepOf(x)
    PROVE  /\ Has(inbox'[y], "bye") => Has(inbox[y], "bye") \/ Leaving(x)'
           /\ Has(inbox'[y], "byeack") => Has(inbox[y], "byeack") \/ ends'[x].closed
           /\ Has(inbox'[x], "bye") => Has(inbox[x], "bye")
           /\ Has(inbox'[x], "byeack") => Has(inbox[x], "byeack")
           /\ \A k \in Threads : HandleBye(x, k) => Has(inbox[x], "bye")
           /\ \A k \in Threads : HandleByeAck(x, k) => Has(inbox[x], "byeack")
<1> DEFINE refused == Signal("refused")
<1>1. /\ inbox[x] \in Seq(Messages) /\ inbox[y] \in Seq(Messages)
      /\ refused \in Messages /\ refused.kind = "refused"
  BY MessageTypes DEF TypesOK, InboxOK, Signal
<1>2. PICK m \in Messages :
        /\ inbox'[y] \in {inbox[y], Append(inbox[y], m)}
        /\ m.kind = "bye" => Bids(x)
        /\ m.kind = "byeack" => \E k \in Threads : HandleBye(x, k)
  BY WireStep
<1>3. /\ Has(inbox'[y], "bye") => Has(inbox[y], "bye") \/ m.kind = "bye"
      /\ Has(inbox'[y], "byeack") => Has(inbox[y], "byeack") \/ m.kind = "byeack"
  <2>1. \A kind : Has(Append(inbox[y], m), kind) => Has(inbox[y], kind) \/ m.kind = kind
    BY <1>1, InAppended
  <2>2. CASE inbox'[y] = inbox[y]
    BY <2>2
  <2>3. CASE inbox'[y] = Append(inbox[y], m)
    BY <2>1, <2>3
  <2> QED BY <1>2, <2>2, <2>3
<1>4. /\ Has(inbox'[y], "bye") => Has(inbox[y], "bye") \/ Leaving(x)'
      /\ Has(inbox'[y], "byeack") => Has(inbox[y], "byeack") \/ ends'[x].closed
  BY <1>2, <1>3, TakingLeave
<1>5. \/ inbox'[x] = inbox[x]
      \/ inbox'[x] = Append(inbox[x], refused)
      \/ inbox'[x] = Tail(inbox[x]) /\ inbox[x] # <<>>
  BY WireStep
<1>6. /\ Has(inbox'[x], "bye") => Has(inbox[x], "bye")
      /\ Has(inbox'[x], "byeack") => Has(inbox[x], "byeack")
  <2>1. /\ \A kind : Has(Append(inbox[x], refused), kind) => Has(inbox[x], kind) \/ refused.kind = kind
        /\ inbox[x] # <<>> => \A kind : Has(Tail(inbox[x]), kind) => Has(inbox[x], kind)
    BY <1>1, InAppended, InTail
  <2>2. CASE inbox'[x] = inbox[x]
    BY <2>2
  <2>3. CASE inbox'[x] = Append(inbox[x], refused)
    BY <1>1, <2>1, <2>3
  <2>4. CASE inbox'[x] = Tail(inbox[x]) /\ inbox[x] # <<>>
    BY <2>1, <2>4
  <2> QED BY <1>5, <2>2, <2>3, <2>4
<1>7. /\ \A k \in Threads : HandleBye(x, k) => Has(inbox[x], "bye")
      /\ \A k \in Threads : HandleByeAck(x, k) => Has(inbox[x], "byeack")
  <2>1. inbox[x] # <<>> => Has(inbox[x], First(x).kind)
    BY <1>1, InTail DEF First
  <2> QED BY <2>1 DEF HandleBye, HandleByeAck, Taken
<1> QED BY <1>4, <1>6, <1>7

\* Every step keeps what is known of farewells.
LEMMA FarewellStep ==
    ASSUME TypesOK, \A e \in Ends : Farewell(e), [Next]_vars
    PROVE  \A e \in Ends : Farewell(e)'
<1>1. CASE UNCHANGED vars
  BY <1>1 DEF vars, Farewell, Leaving, Told
<1>2. CASE ~UNCHANGED vars
  <2>1. PICK x \in Ends : StepOf(x)
    BY <1>2, Steps DEF StepOf
  <2>2. PICK y \in Ends : y = Peer(x) /\ x = Peer(y) /\ \A e \in Ends : e = x \/ e = y
    BY PeerType DEF Ends, Peer
  <2>3. Farewell(x) /\ Farewell(y) /\ TypesOK
    OBVIOUS
  <2>4. missed => missed'
    BY <2>1, <2>2, WireStep
  <2>5. /\ ends'[y] = ends[y] /\ threads'[y] = threads[y]
        /\ ends[x].closed => ends'[x].closed
        /\ Leaving(x) => Leaving(x)'
        /\ Leaving(y)' <=> Leaving(y)
    <3>1. /\ ends'[y] = ends[y] /\ threads'[y] = threads[y]
          /\ ends[x].closed => ends'[x].closed
          /\ \A j \in Threads : Away(threads[x][j].pc) => Away(threads'[x][j].pc)
      BY <2>1, <2>2, LeavingSteps
    <3> QED BY <3>1 DEF Leaving, Away
  <2>6. Farewell(x)'
    <3>1. Has(inbox'[x], "bye") => Leaving(y)'
      BY <2>1, <2>2, <2>3, <2>5, NewsIsTrue DEF Farewell
    <3>2. Has(inbox'[x], "byeack") => ends'[y].closed
      BY <2>1, <2>2, <2>3, <2>5, NewsIsTrue DEF Farewell
    <3>3. Told(y) => Told(y)'
      BY <2>1, <2>2, ToldStays
    <3>4. ~missed' /\ Leaving(x)' => ends'[y].closed \/ Told(y)'
      <4>1. Leaving(x)' => Leaving(x) \/ \E k \in Threads : BeginClose(x, k)
        BY <2>1, <2>2, LeavingSteps DEF Leaving, Away
      <4>2. (\E k \in Threads : BeginClose(x, k)) => Told(y)' \/ missed' \/ ends[y].closed
        BY <2>1, <2>2, ToldStays
      <4> QED BY <2>2, <2>3, <2>4, <2>5, <3>3, <4>1, <4>2 DEF Farewell
    <3>5. ends'[x].closed => Leaving(x)' \/ Leaving(y)'
      <4> SUFFICES ASSUME ends'[x].closed PROVE Leaving(x) \/ Leaving(y)
        BY <2>5
      <4>1. \/ ends[x].closed
            \/ \E k \in Threads : EndClose(x, k) \/ HandleBye(x, k) \/ HandleByeAck(x, k)
        BY <2>1, <2>2, LeavingSteps
      <4>2. ASSUME NEW k \in Threads, HandleBye(x, k) PROVE Leaving(y)
        BY <2>1, <2>2, <2>3, <4>2, NewsIsTrue DEF Farewell
      <4>3. ASSUME NEW k \in Threads, HandleByeAck(x, k) PROVE Leaving(y) \/ Leaving(x)
        BY <2>1, <2>2, <2>3, <4>3, NewsIsTrue DEF Farewell
      <4>4. ASSUME NEW k \in Threads, EndClose(x, k) PROVE Leaving(x)
        BY <4>4 DEF EndClose, Waiting, Leaving
      <4>5. ends[x].closed => Leaving(x) \/ Leaving(y)
        BY <2>2, <2>3 DEF Farewell
      <4> QED BY <4>1, <4>2, <4>3, <4>4, <4>5
    <3> QED BY <2>2, <3>1, <3>2, <3>4, <3>5 DEF Farewell
  <2>7. Farewell(y)'
    <3>1. Has(inbox'[y], "bye") => Leaving(x)'
      BY <2>1, <2>2, <2>3, <2>5, NewsIsTrue DEF Farewell
    <3>2. Has(inbox'[y], "byeack") => ends'[x].closed
      BY <2>1, <2>2, <2>3, <2>5, NewsIsTrue DEF Farewell
    <3>3. Told(x) => Told(x)' \/ ends'[x].closed
      BY <2>1, <2>2, ToldStays
    <3>4. ~missed' /\ Leaving(y)' => ends'[x].closed \/ Told(x)'
      BY <2>2, <2>3, <2>4, <2>5, <3>3 DEF Farewell
    <3>5. ends'[y].closed => Leaving(x)' \/ Leaving(y)'
      BY <2>2, <2>3, <2>5 DEF Farewell
    <3> QED BY <2>2, <3>1, <3>2, <3>4, <3>5 DEF Farewell
  <2> QED BY <2>2, <2>6, <2>7
<1> QED BY <1>1, <1>2

\* Whichever end begins to close, be it the user's, the device's or both at the same
\* time, its peer is closed or has the farewell to read, and no end is closed but by a
\* Close of one of them, in any interleaving of the threads of both ends, until a
\* farewell or its answer was lost or two threads of an end handle data messages at
\* the same time (Close, handleMessage, term).
THEOREM PeerAlwaysLearns == Spec => []PeerLearns
<1>1. ASSUME \A e \in Ends : Farewell(e) PROVE PeerLearns
  BY <1>1 DEF Farewell, PeerLearns, Told, In, InInbox
<1> DEFINE All == \A e \in Ends : Farewell(e)
<1>2. TypesOK /\ All /\ [Next]_vars => All'
  BY FarewellStep
<1>3. Init => All
  BY FarewellInit
<1>4. All => PeerLearns
  BY <1>1
<1> HIDE DEF All
<1> QED BY <1>2, <1>3, <1>4, TypesInit, TypesStep, PTL DEF Spec

---------------------------------------------------------------------------
(* A call of Send has an answer to wait for.                               *)

\* The other end still waits for the message, or it is acknowledged, or that is under way.
Answerable(e) ==
    Sending(e) /\ ~missed /\ ~ends[e].closed /\ ~ends[Peer(e)].closed =>
        \/ ends[Peer(e)].remoteSeq = ends[e].localSeq \/ ends[e].acks > 0
        \/ In(inbox[e], Ack(ends[e].localSeq))

\* Which steps of x change its numbers and its acknowledgements, and begin a call of Send.
LEMMA NumbersChange ==
    ASSUME TypesOK, NEW x \in Ends, StepOf(x)
    PROVE  /\ ends'[x].localSeq = ends[x].localSeq \/ BeginSend(x)
           /\ ends'[x].remoteSeq = ends[x].remoteSeq \/ \E k \in Threads : Count(x, k)
           /\ \/ ends'[x].acks = ends[x].acks \/ TakeAck(x)
              \/ \E k \in Threads : HandleAck(x, k)
           /\ Sending(x)' => Sending(x) \/ BeginSend(x)
           /\ TakeAck(x) => ~Sending(x)'
<1>1. /\ ends \in [Ends -> EndType] /\ ends[x] \in EndType /\ "send" \in Threads /\ TypesOK
      /\ threads \in [Ends -> [Threads -> ThreadType]]
  BY DEF TypesOK, EndsOK, ThreadsOK, Threads
<1> DEFINE Numbers == /\ ends'[x].localSeq = ends[x].localSeq
                      /\ ends'[x].remoteSeq = ends[x].remoteSeq
                      /\ ends'[x].acks = ends[x].acks
           Calls == threads'[x]["send"].pc = "run" => threads[x]["send"].pc = "run"
<1>2. /\ \A v : /\ [ends[x] EXCEPT !.localSeq = v].remoteSeq = ends[x].remoteSeq
                /\ [ends[x] EXCEPT !.localSeq = v].acks = ends[x].acks
      /\ \A v : /\ [ends[x] EXCEPT !.remoteSeq = v].localSeq = ends[x].localSeq
                /\ [ends[x] EXCEPT !.remoteSeq = v].acks = ends[x].acks
      /\ \A v : /\ [ends[x] EXCEPT !.acks = v].localSeq = ends[x].localSeq
                /\ [ends[x] EXCEPT !.acks = v].remoteSeq = ends[x].remoteSeq
      /\ \A v : /\ [ends[x] EXCEPT !.recvq = v].localSeq = ends[x].localSeq
                /\ [ends[x] EXCEPT !.recvq = v].remoteSeq = ends[x].remoteSeq
                /\ [ends[x] EXCEPT !.recvq = v].acks = ends[x].acks
  BY <1>1 DEF EndType
<1>3. \A r : ends' = [ends EXCEPT ![x] = r] => ends'[x] = r
  BY <1>1
<1>4. ASSUME QuietStep(x) PROVE Numbers /\ Calls
  BY <1>1, <1>4, QuietSteps DEF Quiet, SenderSame, ReceiverSame
<1>5. ASSUME BeginSend(x) PROVE ends'[x].remoteSeq = ends[x].remoteSeq /\ ends'[x].acks = ends[x].acks
  <2>1. ends' = [ends EXCEPT ![x] = [ends[x] EXCEPT !.localSeq = (ends[x].localSeq + 1) % SeqMod]]
    BY <1>5 DEF BeginSend
  <2> QED BY <1>2, <1>3, <2>1
<1>6. ASSUME Retry(x) PROVE Numbers /\ Calls
  BY <1>6 DEF Retry
<1>7. ASSUME TakeAck(x)
      PROVE  /\ ends'[x].localSeq = ends[x].localSeq /\ ends'[x].remoteSeq = ends[x].remoteSeq
             /\ threads'[x]["send"].pc = "idle"
  <2>1. /\ ends' = [ends EXCEPT ![x] = [ends[x] EXCEPT !.acks = ends[x].acks - 1]]
        /\ Goto(x, "send", "idle")
    BY <1>7 DEF TakeAck
  <2> QED BY <1>1, <1>2, <1>3, <2>1, Positions
<1>8. ASSUME NEW k \in Threads,
             TakeData(x, k) \/ Push(x, k) \/ Skip(x, k) \/ Count(x, k) \/ HandleAck(x, k)
      PROVE  Calls
  <2>1. \/ Set(x, k, Round(x, k))
        \/ \E h : Set(x, k, [Round(x, k) EXCEPT !.hand = h])
        \/ \E h : Set(x, k, [threads[x][k] EXCEPT !.hand = h])
        \/ Set(x, k, [threads[x][k] EXCEPT !.counting = TRUE])
        \/ \E h : Set(x, k, [threads[x][k] EXCEPT !.counting = FALSE, !.hand = h])
    <3>1. ASSUME TakeData(x, k) PROVE \E h : Set(x, k, [Round(x, k) EXCEPT !.hand = h])
      BY <3>1 DEF TakeData
    <3>2. ASSUME Push(x, k) PROVE Set(x, k, [threads[x][k] EXCEPT !.counting = TRUE])
      BY <3>2 DEF Push
    <3>3. ASSUME Skip(x, k) PROVE \E h : Set(x, k, [threads[x][k] EXCEPT !.hand = h])
      BY <3>3 DEF Skip
    <3>4. ASSUME Count(x, k)
          PROVE \E h : Set(x, k, [threads[x][k] EXCEPT !.counting = FALSE, !.hand = h])
      BY <3>4 DEF Count
    <3>5. ASSUME HandleAck(x, k) PROVE Set(x, k, Round(x, k))
      BY <3>5 DEF HandleAck
    <3> QED BY <1>8, <3>1, <3>2, <3>3, <3>4, <3>5
  <2>2. PICK t : Set(x, k, t) /\ t.pc = threads[x][k].pc
    <3>2. /\ Round(x, k).pc = threads[x][k].pc
          /\ \A h : [Round(x, k) EXCEPT !.hand = h].pc = threads[x][k].pc
          /\ \A h : [threads[x][k] EXCEPT !.hand = h].pc = threads[x][k].pc
          /\ [threads[x][k] EXCEPT !.counting = TRUE].pc = threads[x][k].pc
          /\ \A h : [threads[x][k] EXCEPT !.counting = FALSE, !.hand = h].pc = threads[x][k].pc
      BY <1>1, Positions
    <3> QED BY <2>1, <3>2
  <2>3. threads'[x][k] = t /\ \A j \in Threads : j # k => threads'[x][j] = threads[x][j]
    BY <1>1, <2>2, Positions
  <2> QED BY <1>1, <2>2, <2>3
<1>9. ASSUME NEW k \in Threads,
             TakeData(x, k) \/ Push(x, k) \/ Skip(x, k)
      PROVE  Numbers
  <2>1. \/ ends' = ends
        \/ \E v : ends' = [ends EXCEPT ![x] = [ends[x] EXCEPT !.recvq = v]]
    BY <1>9 DEF TakeData, Push, Skip
  <2>2. ASSUME NEW v, ends' = [ends EXCEPT ![x] = [ends[x] EXCEPT !.recvq = v]] PROVE Numbers
    <3>1. ends'[x] = [ends[x] EXCEPT !.recvq = v]
      BY <1>3, <2>2
    <3> QED BY <1>2, <3>1
  <2> QED BY <2>1, <2>2
<1>10. ASSUME NEW k \in Threads, Count(x, k)
       PROVE  ends'[x].localSeq = ends[x].localSeq /\ ends'[x].acks = ends[x].acks
  <2>1. ends' = [ends EXCEPT ![x] = [ends[x] EXCEPT !.remoteSeq = (ends[x].remoteSeq + 1) % SeqMod]]
    BY <1>10 DEF Count
  <2> QED BY <1>2, <1>3, <2>1
<1>11. ASSUME NEW k \in Threads, HandleAck(x, k)
       PROVE  ends'[x].localSeq = ends[x].localSeq /\ ends'[x].remoteSeq = ends[x].remoteSeq
  <2>1. \/ ends' = ends
        \/ ends' = [ends EXCEPT ![x] = [ends[x] EXCEPT !.acks = ends[x].acks + 1]]
    BY <1>11 DEF HandleAck
  <2>2. CASE ends' = [ends EXCEPT ![x] = [ends[x] EXCEPT !.acks = ends[x].acks + 1]]
    <3>1. ends'[x] = [ends[x] EXCEPT !.acks = ends[x].acks + 1]
      BY <1>3, <2>2
    <3> QED BY <1>2, <3>1
  <2> QED BY <2>1, <2>2
<1>12. \/ QuietStep(x) \/ BeginSend(x) \/ Retry(x) \/ TakeAck(x)
       \/ \E k \in Threads :
            TakeData(x, k) \/ Push(x, k) \/ Skip(x, k) \/ Count(x, k) \/ HandleAck(x, k)
  BY DEF StepOf, QuietStep, Handle, Close
<1>13. TakeAck(x) => ~Sending(x)'
  BY <1>7 DEF Sending
<1>14. CASE QuietStep(x) \/ Retry(x)
  BY <1>4, <1>6, <1>13, <1>14 DEF Sending
<1>15. CASE BeginSend(x)
  BY <1>5, <1>13, <1>15
<1>16. CASE TakeAck(x)
  BY <1>7, <1>16 DEF Sending
<1>17. CASE \E k \in Threads :
              TakeData(x, k) \/ Push(x, k) \/ Skip(x, k) \/ Count(x, k) \/ HandleAck(x, k)
  <2>1. PICK k \in Threads :
          TakeData(x, k) \/ Push(x, k) \/ Skip(x, k) \/ Count(x, k) \/ HandleAck(x, k)
    BY <1>17
  <2>2. Sending(x)' => Sending(x)
    BY <1>8, <2>1 DEF Sending
  <2> QED BY <1>9, <1>10, <1>11, <1>13, <2>1, <2>2
<1> QED BY <1>12, <1>14, <1>15, <1>16, <1>17

\* A call of Send that begins: the other end waits for its message.
LEMMA BeginsAnswerable ==
    ASSUME TypesOK, NEW x \in Ends, Orderly(x), BeginSend(x)
    PROVE  ends[Peer(x)].remoteSeq = ends'[x].localSeq
<1>1. PICK c \in Nat : OrderlyAt(x, c)
  BY DEF Orderly
<1>2. sent[x] \in Nat /\ confirmed[x] \in Nat /\ ends[x] \in EndType /\ ends \in [Ends -> EndType]
  BY DirectionTypes DEF TypesOK, EndsOK
<1>3. threads[x]["send"].pc = "idle" /\ ends'[x].localSeq = Succ(ends[x].localSeq)
  BY <1>2 DEF BeginSend, EndType, Succ
<1>4. CountsOK(x, c)
  BY <1>1 DEF OrderlyAt
<1>5. sent[x] = c
  BY <1>2, <1>3, <1>4 DEF CountsOK
<1> QED BY <1>3, <1>4, <1>5 DEF CountsOK

\* An acknowledgement that is handled answers the call of Send.
LEMMA AckAnswers ==
    ASSUME TypesOK, NEW x \in Ends, Orderly(x), NEW k \in Threads, HandleAck(x, k)
    PROVE  ends'[x].acks > 0
<1>1. PICK c \in Nat : OrderlyAt(x, c)
  BY DEF Orderly
<1>2. /\ inbox[x] \in Seq(Messages) /\ ends[x] \in EndType /\ ends \in [Ends -> EndType]
      /\ ends[x].localSeq \in 0..(SeqMod - 1)
  BY DirectionTypes DEF TypesOK, EndsOK
<1>3. /\ inbox[x] # <<>> /\ IsAck(First(x))
      /\ ends' = IF Answered(x, First(x).seq) = 0 /\ ends[x].acks < 4
                   THEN [ends EXCEPT ![x].acks = @ + 1] ELSE ends
  BY DEF HandleAck, Taken, IsAck
<1>4. 1 \in DOMAIN inbox[x] /\ First(x) = inbox[x][1]
  BY <1>2, <1>3 DEF First
<1>5. First(x).seq = ends[x].localSeq /\ ends[x].acks = 0
  BY <1>1, <1>3, <1>4 DEF OrderlyAt, AcksOK
<1>6. Answered(x, First(x).seq) = 0
  BY <1>2, <1>5, Differences DEF Answered
<1>7. ends' = [ends EXCEPT ![x].acks = 1]
  BY <1>3, <1>5, <1>6
<1> QED BY <1>2, <1>7 DEF EndType

\* A message that is counted is the one the other end sends, and its acknowledgement
\* is under way, or lost, or nobody is to read it.
LEMMA CountAnswers ==
    ASSUME TypesOK, NEW x \in Ends, NEW y \in Ends, y = Peer(x), Orderly(y),
           NEW k \in Threads, Count(x, k)
    PROVE  In(inbox'[y], Ack(ends[y].localSeq)) \/ ends[y].closed \/ missed'
<1>1. x = Peer(y)
  BY PeerType
<1>2. PICK c \in Nat : OrderlyAt(y, c)
  BY DEF Orderly
<1>3. /\ threads[x][k].counting /\ Publish(x, Ack(Hand(x, k).seq))
      /\ inbox[y] \in Seq(Messages) /\ InboxOK /\ LossesOK /\ sent[y] \in Nat
      /\ ends[y].localSeq \in 0..(SeqMod - 1)
  BY DirectionTypes DEF Count, TypesOK
<1>4. Holds(x, k) /\ Hand(x, k).body = c + 1
  BY <1>1, <1>2, <1>3 DEF OrderlyAt, HandsOK, Holds, Hand
<1>5. Hand(x, k).seq = ends[x].remoteSeq /\ sent[y] = c + 1
  BY <1>1, <1>2, <1>4, Checked
<1>6. ends[x].remoteSeq = ends[y].localSeq
  <2>1. CountsOK(y, c) /\ sent[y] # c
    BY <1>2, <1>5 DEF OrderlyAt
  <2> QED BY <1>1, <2>1 DEF CountsOK
<1> DEFINE a == Ack(ends[y].localSeq)
<1>7. a \in Messages /\ ~Repeated(a) /\ Publish(x, a)
  BY <1>3, <1>5, <1>6, MessageTypes DEF Ack, Repeated
<1> HIDE DEF a
<1>8. Put(x, y, a)
  BY <1>3, <1>7, PublishPuts
<1>9. In(Append(inbox[y], a), a)
  BY <1>3, <1>7, InAppended
<1> QED BY <1>7, <1>8, <1>9 DEF Put, a

\* Of the steps of the sender and of those of the receiver each leaves the call of
\* Send with an answer to wait for.
LEMMA AnswerableStep ==
    ASSUME TypesOK, \A e \in Ends : Orderly(e), \A e \in Ends : Answerable(e), [Next]_vars
    PROVE  \A e \in Ends : Answerable(e)'
<1>1. CASE UNCHANGED vars
  BY <1>1 DEF vars, Answerable, Sending
<1>2. CASE ~UNCHANGED vars
  <2>1. PICK x \in Ends : StepOf(x)
    BY <1>2, Steps DEF StepOf
  <2>2. PICK y \in Ends : y = Peer(x) /\ x = Peer(y) /\ \A e \in Ends : e = x \/ e = y
    BY PeerType DEF Ends, Peer
  <2>3. Answerable(x) /\ Answerable(y) /\ TypesOK /\ Orderly(x) /\ Orderly(y)
    OBVIOUS
  <2>4. (missed => missed') /\ (ends[x].closed => ends'[x].closed)
    BY <2>1, <2>2, WireStep, LeavingSteps
  <2>5. ends'[y] = ends[y] /\ threads'[y] = threads[y]
    BY <2>1, <2>2, LeavingSteps
  <2>6. /\ inbox[x] \in Seq(Messages) /\ inbox[y] \in Seq(Messages) /\ Signal("refused") \in Messages
        /\ ends[x].localSeq \in 0..(SeqMod - 1) /\ ends[y].localSeq \in 0..(SeqMod - 1)
    BY DirectionTypes, MessageTypes
  <2>7. Answerable(x)'
    <3> SUFFICES ASSUME Sending(x)', ~missed', ~ends'[x].closed, ~ends'[y].closed
                 PROVE  \/ ends'[y].remoteSeq = ends'[x].localSeq \/ ends'[x].acks > 0
                        \/ In(inbox'[x], Ack(ends'[x].localSeq))
      BY <2>2 DEF Answerable
    <3>1. ASSUME BeginSend(x) PROVE ends'[y].remoteSeq = ends'[x].localSeq
      BY <2>2, <2>3, <2>5, <3>1, BeginsAnswerable
    <3>2. ASSUME NEW k \in Threads, HandleAck(x, k) PROVE ends'[x].acks > 0
      BY <2>3, <3>2, AckAnswers
    <3>3. ASSUME ~BeginSend(x), \A k \in Threads : ~HandleAck(x, k)
          PROVE  \/ ends'[y].remoteSeq = ends'[x].localSeq \/ ends'[x].acks > 0
                 \/ In(inbox'[x], Ack(ends'[x].localSeq))
      <4>1. ends'[x].localSeq = ends[x].localSeq /\ ends'[x].acks = ends[x].acks /\ Sending(x)
        BY <2>1, <3>3, NumbersChange
      <4>2. \/ ends[y].remoteSeq = ends[x].localSeq \/ ends[x].acks > 0
            \/ In(inbox[x], Ack(ends[x].localSeq))
        BY <2>2, <2>3, <2>4, <2>5, <4>1 DEF Answerable
      <4> DEFINE a == Ack(ends[x].localSeq)
                 refused == Signal("refused")
      <4>3. a.kind = "ack"
        BY DEF Ack
      <4>4. ASSUME In(inbox[x], a) PROVE In(inbox'[x], a)
        <5>1. \/ inbox'[x] = inbox[x]
              \/ inbox'[x] = Append(inbox[x], refused)
              \/ inbox'[x] = Tail(inbox[x]) /\ inbox[x] # <<>> /\ First(x).kind # "ack"
          BY <2>1, <2>2, <3>3, WireStep
        <5>2. CASE inbox'[x] = inbox[x]
          BY <4>4, <5>2
        <5>3. CASE inbox'[x] = Append(inbox[x], refused)
          BY <2>6, <4>4, <5>3, InAppended
        <5>4. CASE inbox'[x] = Tail(inbox[x]) /\ inbox[x] # <<>> /\ First(x).kind # "ack"
          BY <2>6, <4>3, <4>4, <5>4, InTail DEF First
        <5> QED BY <5>1, <5>2, <5>3, <5>4
      <4> QED BY <2>5, <4>1, <4>2, <4>4
    <3> QED BY <3>1, <3>2, <3>3
  <2>8. Answerable(y)'
    <3> SUFFICES ASSUME Sending(y)', ~missed', ~ends'[y].closed, ~ends'[x].closed
                 PROVE  \/ ends'[x].remoteSeq = ends'[y].localSeq \/ ends'[y].acks > 0
                        \/ In(inbox'[y], Ack(ends'[y].localSeq))
      BY <2>2 DEF Answerable
    <3>1. ASSUME NEW k \in Threads, Count(x, k) PROVE In(inbox'[y], Ack(ends'[y].localSeq))
      BY <2>2, <2>3, <2>5, <3>1, CountAnswers
    <3>2. ASSUME \A k \in Threads : ~Count(x, k)
          PROVE  \/ ends'[x].remoteSeq = ends'[y].localSeq \/ ends'[y].acks > 0
                 \/ In(inbox'[y], Ack(ends'[y].localSeq))
      <4>1. ends'[x].remoteSeq = ends[x].remoteSeq /\ Sending(y)
        BY <2>1, <2>5, <3>2, NumbersChange DEF Sending
      <4>2. \/ ends[x].remoteSeq = ends[y].localSeq \/ ends[y].acks > 0
            \/ In(inbox[y], Ack(ends[y].localSeq))
        BY <2>2, <2>3, <2>4, <2>5, <4>1 DEF Answerable
      <4> DEFINE a == Ack(ends[y].localSeq)
      <4>3. ASSUME In(inbox[y], a) PROVE In(inbox'[y], a)
        <5>1. PICK m \in Messages : inbox'[y] \in {inbox[y], Append(inbox[y], m)}
          BY <2>1, <2>2, WireStep
        <5>2. In(Append(inbox[y], m), a)
          BY <2>6, <4>3, InAppended
        <5> QED BY <4>3, <5>1, <5>2
      <4> QED BY <2>5, <4>1, <4>2, <4>3
    <3> QED BY <3>1, <3>2
  <2> QED BY <2>2, <2>7, <2>8
<1> QED BY <1>1, <1>2

\* A call of Send is never left without an answer: it has one, or one is under way, or
\* the message it repeats is the one the other end waits for; until an acknowledgement,
\* which nobody repeats, was lost, or two threads of an end handle data messages at the
\* same time, copies of one message or not (Send, handleMessage).
THEOREM SendAlwaysCanReturn == Spec => []SendCanReturn
<1> DEFINE All == raced \/ \A e \in Ends : Answerable(e)
<1>1. Init => All
  <2> SUFFICES ASSUME Init, NEW e \in Ends PROVE ~Sending(e)
    BY DEF Answerable
  <2>1. threads[e]["send"] = NewThread("send")
    BY DEF Init, Threads
  <2> QED BY <2>1 DEF NewThread, Sending
<1>2. TypesOK /\ Inv /\ All /\ [Next]_vars => All'
  <2> SUFFICES ASSUME TypesOK, Inv, All, [Next]_vars PROVE All'
    OBVIOUS
  <2>1. CASE raced
    <3>1. UNCHANGED vars
      BY <2>1 DEF Next
    <3> QED BY <2>1, <3>1 DEF vars
  <2>2. CASE ~raced
    BY <2>2, AnswerableStep DEF Inv
  <2> QED BY <2>1, <2>2
<1>3. TypesOK /\ All => SendCanReturn
  <2> SUFFICES ASSUME TypesOK, NEW e \in Ends, Answerable(e), Sending(e), ~missed
               PROVE  \/ ends[e].acks > 0 \/ InInbox(e, Ack(ends[e].localSeq))
                      \/ Expected(Peer(e), ends[e].localSeq) = 0
                      \/ ends[e].closed \/ ends[Peer(e)].closed
    BY DEF SendCanReturn
  <2>1. ends[Peer(e)].remoteSeq \in 0..(SeqMod - 1) /\ ends[e].localSeq \in 0..(SeqMod - 1)
    BY DirectionTypes
  <2>2. ends[Peer(e)].remoteSeq = ends[e].localSeq => Expected(Peer(e), ends[e].localSeq) = 0
    BY <2>1, Differences DEF Expected
  <2> QED BY <2>2 DEF Answerable, InInbox, In
<1> HIDE DEF All
<1> QED BY <1>1, <1>2, <1>3, TypesInit, TypesStep, InvInit, InvStep, PTL DEF Spec
=============================================================================
