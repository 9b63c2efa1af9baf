---------------------------- MODULE PushDelivery ----------------------------
(***************************************************************************)
(* What the gateways promise of push events: there is one log of them, and *)
(* each gateway reads it from the moment it attaches, in order, leaving    *)
(* nothing out, for the connections it holds when it reads the entry.  A   *)
(* gateway may detach; what is logged meanwhile it never sees.             *)
(***************************************************************************)
EXTENDS PushRequests

VARIABLES
    log,       \* requests, in the order they were published
    attached,  \* gateways reading the log
    cursor,    \* how many entries an attached gateway has passed
    conn,      \* "new", "open" or "closed"
    received   \* positions of the log handed to signalg for a connection

vars == <<log, attached, cursor, conn, received>>

Init ==
    /\ log = <<>>
    /\ attached = {}
    /\ cursor = [s \in Servers |-> 0]
    /\ conn = [c \in Conns |-> "new"]
    /\ received = [c \in Conns |-> <<>>]

Publish(r) ==
    /\ log' = Append(log, r)
    /\ UNCHANGED <<attached, cursor, conn, received>>

Attach(s) ==
    /\ s \notin attached
    /\ attached' = attached \cup {s}
    /\ cursor' = [cursor EXCEPT ![s] = Len(log)]
    /\ UNCHANGED <<log, conn, received>>

Detach(s) ==
    /\ s \in attached
    /\ attached' = attached \ {s}
    /\ cursor' = [cursor EXCEPT ![s] = 0]
    /\ UNCHANGED <<log, conn, received>>

Read(s) ==
    /\ s \in attached
    /\ cursor[s] < Len(log)
    /\ cursor' = [cursor EXCEPT ![s] = @ + 1]
    /\ LET r == log[cursor[s] + 1]
           hit == {c \in Conns : ServerOf[c] = s /\ conn[c] = "open" /\ Meant(r, c)}
       IN  IF r.op \in Closes
           THEN /\ conn' = [c \in Conns |-> IF c \in hit THEN "closed" ELSE conn[c]]
                /\ UNCHANGED received
           ELSE /\ received' = [c \in Conns |-> IF c \in hit
                                    THEN Append(received[c], cursor[s] + 1)
                                    ELSE received[c]]
                /\ UNCHANGED conn
    /\ UNCHANGED <<log, attached>>

Open(c) ==
    /\ conn[c] = "new"
    /\ conn' = [conn EXCEPT ![c] = "open"]
    /\ UNCHANGED <<log, attached, cursor, received>>

Leave(c) ==
    /\ conn[c] = "open"
    /\ conn' = [conn EXCEPT ![c] = "closed"]
    /\ UNCHANGED <<log, attached, cursor, received>>

Next ==
    \/ \E r \in Requests \cup Foreign : Publish(r)
    \/ \E s \in Servers : Attach(s) \/ Detach(s) \/ Read(s)
    \/ \E c \in Conns : Open(c) \/ Leave(c)

Spec == Init /\ [][Next]_vars

=============================================================================
