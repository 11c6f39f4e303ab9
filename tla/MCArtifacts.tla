---------------------------- MODULE MCArtifacts ----------------------------
(* Values for the constants of Artifacts.                                  *)
EXTENDS Artifacts, TLC

CONSTANTS t1, t2, w1, w2
=============================================================================
