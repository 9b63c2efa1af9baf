--------------------------- MODULE MCGatewayHub ---------------------------
(* Small instances of GatewayHub. *)
EXTENDS GatewayHub, TLC

CONSTANTS c1, c2, u1, u2, s1, s2

MCSameUser == [c \in Conns |-> u1]
MCOneUserEach == [c \in Conns |-> IF c = c1 THEN u1 ELSE u2]
MCOneServer == [c \in Conns |-> s1]
MCTwoServers == [c \in Conns |-> IF c = c1 THEN s1 ELSE s2]
MCOneBucket == [u \in Users |-> 0]
MCTwoBuckets == [u \in Users |-> IF u = u1 THEN 0 ELSE 1]
MCNoSkew == [s \in Servers |-> 0]
MCSecondAhead == [s \in Servers |-> IF s = s1 THEN 0 ELSE 1]

=============================================================================
