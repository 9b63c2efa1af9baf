---------------------------- MODULE PushRequests ----------------------------
(***************************************************************************)
(* What the push and close calls of the gRPC service                       *)
(* (src/proto/kimgate/v1/gateway.proto, src/internal/rpc/service.go) ask   *)
(* for, and of which connections.  Both the specification of delivery and  *)
(* the model of the code are written with it.  Ids are trimmed: one that   *)
(* is all white space is Blank.  Lists of ids are sets: one named twice is *)
(* in the code's list twice, and so in the one call of signalg made for it.*)
(***************************************************************************)
EXTENDS Integers, Sequences

CONSTANTS
    Conns,     \* connection ids
    Users,     \* user ids
    Servers,   \* server ids
    UserOf,    \* the user of a connection
    GroupOf,   \* the group Hub.OnConnected puts a connection in
    ServerOf,  \* the gateway that holds a connection
    Blank,     \* an empty id, group or method
    Requests,  \* requests callers make
    Foreign    \* what other programs publish on the channels

Sends == {"SendToUsers", "SendToConnections", "SendToGroup", "Broadcast"}

Closes == {"CloseUsers", "CloseConnections"}

ByIds == {"SendToUsers", "SendToConnections", "CloseUsers", "CloseConnections"}

ASSUME ConnsAssumption ==
    /\ UserOf \in [Conns -> Users]
    /\ ServerOf \in [Conns -> Servers]
    /\ \A c \in Conns : GroupOf[c] # Blank
    /\ Blank \notin Users \cup Conns

ASSUME RequestsAssumption ==
    \A r \in Requests \cup Foreign :
        /\ DOMAIN r = {"op", "ids", "group", "method"}
        /\ r.ids \subseteq Users \cup Conns \cup {Blank}

ASSUME OperationsAssumption == \A r \in Requests : r.op \in Sends \cup Closes

\* The connections a request names.
Addressed(r, c) ==
    \/ r.op \in {"SendToUsers", "CloseUsers"} /\ UserOf[c] \in r.ids
    \/ r.op \in {"SendToConnections", "CloseConnections"} /\ c \in r.ids
    \/ r.op = "SendToGroup" /\ GroupOf[c] = r.group
    \/ r.op = "Broadcast"

\* A message without a method is for nobody.
Meant(r, c) == Addressed(r, c) /\ (r.op \in Sends => r.method # Blank)

=============================================================================
