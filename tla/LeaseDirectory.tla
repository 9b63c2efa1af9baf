--------------------------- MODULE LeaseDirectory ---------------------------
(***************************************************************************)
(* What a directory of leased entries promises.  Each key has one owner,   *)
(* who lists it and renews it; nobody else cleans up.  An entry lives at   *)
(* most TTL from the step that wrote it last, and what an owner sent       *)
(* before it ended is written at most MaxDelay later.  The routes in Redis *)
(* and the endpoint in etcd are both such a directory.                     *)
(***************************************************************************)
EXTENDS Integers

CONSTANTS Keys, TTL, MaxDelay

VARIABLES
    now,    \* elapsed time
    until,  \* when a key's entry expires
    over,   \* keys whose owner has ended
    overAt  \* when it did

vars == <<now, until, over, overAt>>

Init ==
    /\ now = 0
    /\ until = [k \in Keys |-> 0]
    /\ over = {}
    /\ overAt = [k \in Keys |-> 0]

Advance ==
    /\ now' = now + 1
    /\ UNCHANGED <<until, over, overAt>>

Write(k) ==
    /\ k \in over => now <= overAt[k] + MaxDelay
    /\ \E t \in now .. now + TTL : until' = [until EXCEPT ![k] = t]
    /\ UNCHANGED <<now, over, overAt>>

Drop(k) ==
    /\ until' = [until EXCEPT ![k] = 0]
    /\ UNCHANGED <<now, over, overAt>>

\* The owners of several keys may end together: they were in one process.
End(ended) ==
    /\ ended \cap over = {}
    /\ over' = over \cup ended
    /\ overAt' = [k \in Keys |-> IF k \in ended THEN now ELSE overAt[k]]
    /\ UNCHANGED <<now, until>>

Next ==
    \/ Advance
    \/ \E k \in Keys : Write(k) \/ Drop(k)
    \/ \E ended \in SUBSET Keys : End(ended)

Spec == Init /\ [][Next]_vars

=============================================================================
