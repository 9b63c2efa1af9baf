-------------------------- MODULE MCGatewayConfig --------------------------
(* A small instance of GatewayConfig. *)
EXTENDS GatewayConfig, TLC

MCChars == Words \cup {"x", "y", ",", " "}
MCWritten == {<<>>, <<" ">>, <<" ", "x">>, <<"/", "y">>, <<",">>}
MCDurations == {-1, 0, 1}
MCAccepted == {<<"x">>, <<"default">>}

=============================================================================
