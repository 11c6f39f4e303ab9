-------------------------- MODULE MCStatusPipeline --------------------------
(* Values for the constants of StatusPipeline.                             *)
EXTENDS StatusPipeline, TLC

CONSTANTS d1, w1, w2

\* Workers are interchangeable.
MCSymmetry == Permutations(Workers)
=============================================================================
