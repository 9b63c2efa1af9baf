------------------------- MODULE MCGatewayProcess -------------------------
(* A small instance of GatewayProcess. *)
EXTENDS GatewayProcess, TLC

=============================================================================
