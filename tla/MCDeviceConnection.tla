------------------------- MODULE MCDeviceConnection -------------------------
(* Values for the constants of DeviceConnection.                           *)
EXTENDS DeviceConnection, TLC

CONSTANTS i1, i2
=============================================================================
