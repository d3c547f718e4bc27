---------------------------- MODULE MCMultiRelay ----------------------------
(* Constants for the runs of MultiRelay.                                   *)
EXTENDS MultiRelay
=============================================================================
