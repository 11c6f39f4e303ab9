---------------------------- MODULE MCDeviceAuth ----------------------------
(* Values for the constants of DeviceAuth.                                 *)
EXTENDS DeviceAuth, TLC

CONSTANTS i1, i2, k1, k2, w1, w2

\* Workers, identities and keys are interchangeable.
MCSymmetry == Permutations(Workers) \union Permutations(Identities) \union Permutations(Keys)
=============================================================================
