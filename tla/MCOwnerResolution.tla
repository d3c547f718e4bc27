------------------------- MODULE MCOwnerResolution -------------------------
(* Constants for the runs of OwnerResolution.                              *)
EXTENDS OwnerResolution
=============================================================================
