--------------------------- MODULE MCClusterPush ---------------------------
(* A small instance of ClusterPush: two users of one app on two gateways, and a
   request for each channel.
   The last three requests are refused. *)
EXTENDS ClusterPush, TLC

CONSTANTS c1, c2, u1, u2, s1, s2

MCUserOf == [c \in Conns |-> IF c = c1 THEN u1 ELSE u2]
MCGroupOf == [c \in Conns |-> "app"]
MCServerOf == [c \in Conns |-> IF c = c1 THEN s1 ELSE s2]

Req(op, ids, group, method) == [op |-> op, ids |-> ids, group |-> group, method |-> method]

MCRequests ==
    {Req("CloseUsers", {u2, Blank}, Blank, Blank),
     Req("SendToGroup", {}, "app", "push"),
     Req("Broadcast", {}, Blank, "push"),
     Req("CloseUsers", {Blank}, Blank, Blank),
     Req("SendToGroup", {}, Blank, "push"),
     Req("Broadcast", {}, Blank, Blank)}

MCForeign == {Req("malformed", {}, Blank, Blank)}

=============================================================================
