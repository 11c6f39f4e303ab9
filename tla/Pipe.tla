-------------------------------- MODULE Pipe --------------------------------
(***************************************************************************)
(* What one direction of a stream promises (backend/pkg/stream): messages  *)
(* 1, 2, ... are sent one after the other, each is delivered exactly once  *)
(* and in order, and a call of Send that succeeds says that the other end  *)
(* has the message.                                                        *)
(***************************************************************************)
EXTENDS Naturals, Sequences

VARIABLES
    sent,        \* messages given to Send so far
    confirmed,   \* calls of Send that succeeded
    queue,       \* messages at the other end that Recv has not returned
    delivered    \* messages Recv has returned

pipe == <<sent, confirmed, queue, delivered>>

Arrived == Len(delivered) + Len(queue)

Init == sent = 0 /\ confirmed = 0 /\ queue = <<>> /\ delivered = <<>>

Send ==
    /\ sent = confirmed
    /\ sent' = sent + 1
    /\ UNCHANGED <<confirmed, queue, delivered>>

Arrive ==
    /\ Arrived < sent
    /\ queue' = Append(queue, sent)
    /\ UNCHANGED <<sent, confirmed, delivered>>

Confirm ==
    /\ confirmed < sent /\ Arrived = sent
    /\ confirmed' = sent
    /\ UNCHANGED <<sent, queue, delivered>>

Deliver ==
    /\ queue # <<>>
    /\ delivered' = Append(delivered, Head(queue))
    /\ queue' = Tail(queue)
    /\ UNCHANGED <<sent, confirmed>>

Next == Send \/ Arrive \/ Confirm \/ Deliver

Spec == Init /\ [][Next]_pipe

\* Messages are delivered in order, each once; those confirmed have arrived.
InOrder ==
    /\ \A i \in 1..Len(delivered) : delivered[i] = i
    /\ \A i \in 1..Len(queue) : queue[i] = Len(delivered) + i
    /\ confirmed <= Arrived
=============================================================================
