---------------------------- MODULE StatusBoard ----------------------------
(***************************************************************************)
(* What the statuses of devices promise to whoever reads the inventory,    *)
(* without jobs, workers, queues and services: the inventory shows a       *)
(* status that was announced, together with its revision, and goes only    *)
(* forward until it forgets the device.                                    *)
(***************************************************************************)
EXTENDS Integers, Sequences

CONSTANTS Devices, Statuses

VARIABLES
    announced,  \* the status of each device by revision
    board       \* the revision and the status shown of each device

vars == <<announced, board>>

Blank == [revision |-> 0, status |-> "none"]

Init ==
    /\ announced = [d \in Devices |-> << >>]
    /\ board = [d \in Devices |-> Blank]

Announce(d, st) ==
    /\ announced' = [announced EXCEPT ![d] = Append(@, st)]
    /\ UNCHANGED board

Show(d, r) ==
    /\ board[d].revision < r
    /\ board' = [board EXCEPT ![d] = [revision |-> r, status |-> announced[d][r]]]
    /\ UNCHANGED announced

Forget(d) ==
    /\ board' = [board EXCEPT ![d] = Blank]
    /\ UNCHANGED announced

Next ==
    \E d \in Devices :
        \/ \E st \in Statuses : Announce(d, st)
        \/ \E r \in 1..Len(announced[d]) : Show(d, r)
        \/ Forget(d)

Spec == Init /\ [][Next]_vars
=============================================================================
