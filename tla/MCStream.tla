------------------------------ MODULE MCStream ------------------------------
(* Values for the constants of Stream.                                     *)
EXTENDS Stream, TLC

\* Messages both ways, so that the numbers begin again.
MCSends == [e \in Ends |-> IF e = "user" THEN 2 ELSE 1]

\* The streams that are explored any further: with all messages and no Close, or with
\* one message, no loss and every Close.
MCClosing == Closes # {} => sent["user"] <= 1 /\ sent["device"] = 0 /\ losses = 0
=============================================================================
