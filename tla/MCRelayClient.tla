--------------------------- MODULE MCRelayClient ---------------------------
(* Constants for the other runs of RelayClient.                            *)
EXTENDS RelayRefinement
=============================================================================
