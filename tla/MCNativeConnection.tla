------------------------- MODULE MCNativeConnection -------------------------
(* Constants for the runs of NativeConnection.                             *)
EXTENDS NativeConnection
=============================================================================
