----------------------------- MODULE GatewayHub -----------------------------
(***************************************************************************)
(* The hub of a gateway (src/internal/gateway/gateway.go): what it does to *)
(* the route table when a websocket is accepted, answers a ping, or is     *)
(* closed.  signalg, the websocket library, calls the three callbacks of   *)
(* one connection one after the other (assumed: it is not in the source);  *)
(* the callbacks of different connections run concurrently.  A callback    *)
(* that writes routes is two actions: it sends its call, and later it      *)
(* returns, with Redis running the call in between or not.                 *)
(***************************************************************************)
EXTENDS UserRouteStore

CONSTANTS
    ValidUsers,   \* ids ParseAppGroup accepts
    PingTimeout,  \* signalg closes a connection silent for this long
    Horizon,      \* bound: last time at which a connection opens or pings
    MaxFaults     \* bound: calls that return an error

ASSUME HubAssumption ==
    /\ ValidUsers \subseteq Users
    /\ PingTimeout \in Nat \ {0}
    /\ {Horizon, MaxFaults} \subseteq Nat

VARIABLES
    up,        \* servers running
    phase,     \* where each connection is in its life
    lastSeen,  \* when the connection opened or last pinged
    closedAt,  \* when the connection was refused or closed
    answered,  \* connections waiting for a call that has run
    missed,    \* connections whose last call failed without having run
    faults     \* errors so far

hubVars == <<up, phase, lastSeen, closedAt, answered, missed, faults>>

Phases == {"new", "registering", "open", "pinging", "rejected", "removing", "gone"}

Serving(c) == phase[c] \in {"open", "pinging"}

Attached(c) == phase[c] = "registering" \/ Serving(c)

Over(c) == phase[c] \in {"rejected", "removing", "gone"}

HubTypeOK ==
    /\ StoreTypeOK
    /\ up \subseteq Servers
    /\ phase \in [Conns -> Phases]
    /\ lastSeen \in [Conns -> Nat]
    /\ closedAt \in [Conns -> Nat]
    /\ answered \subseteq Conns
    /\ missed \subseteq Conns
    /\ faults \in Nat

HubInit ==
    /\ up = Servers
    /\ phase = [c \in Conns |-> "new"]
    /\ lastSeen = [c \in Conns |-> 0]
    /\ closedAt = [c \in Conns |-> 0]
    /\ answered = {}
    /\ missed = {}
    /\ faults = 0

-----------------------------------------------------------------------------

Goto(c, p) == phase' = [phase EXCEPT ![c] = p]

\* The callback of c sends a call and waits for it.
Ask(op, c) ==
    /\ Send(op, c)
    /\ UNCHANGED <<now, userRoute, userExpire, answered>>

\* The call of c returns an error: time-out, connection lost, or an answer
\* that did not come back.  Whether Redis ran it is not known to the caller.
Fails(c) ==
    /\ faults < MaxFaults
    /\ faults' = faults + 1
    /\ missed' = IF c \in answered THEN missed \ {c} ELSE missed \cup {c}
    /\ answered' = answered \ {c}

\* Mutant: the hub does not wait for the answer.
SucceedsAtOnce(c) ==
    /\ answered' = answered \ {c}
    /\ missed' = missed \ {c}
    /\ UNCHANGED faults

Succeeds(c) ==
    /\ c \in answered
    /\ answered' = answered \ {c}
    /\ missed' = missed \ {c}
    /\ UNCHANGED faults

-----------------------------------------------------------------------------
\* OnConnected: an id ParseAppGroup refuses is turned away before any call.
OnConnected(c) ==
    /\ phase[c] = "new"
    /\ ServerOf[c] \in up
    /\ now < Horizon
    /\ UserOf[c] \in ValidUsers
    /\ Goto(c, "registering")
    /\ lastSeen' = [lastSeen EXCEPT ![c] = now]
    /\ Ask("refresh", c)
    /\ UNCHANGED <<up, closedAt, missed, faults>>

\* Mutant: the id is parsed after the route is registered.
ParseAfterRegister(c) ==
    /\ phase[c] = "new"
    /\ ServerOf[c] \in up
    /\ now < Horizon
    /\ UserOf[c] \notin ValidUsers
    /\ Goto(c, "rejected")
    /\ closedAt' = [closedAt EXCEPT ![c] = now]
    /\ Ask("refresh", c)
    /\ UNCHANGED <<up, lastSeen, missed, faults>>

OnConnectedInvalid(c) ==
    /\ phase[c] = "new"
    /\ ServerOf[c] \in up
    /\ now < Horizon
    /\ UserOf[c] \notin ValidUsers
    /\ Goto(c, "rejected")
    /\ closedAt' = [closedAt EXCEPT ![c] = now]
    /\ UNCHANGED <<storeVars, up, lastSeen, answered, missed, faults>>

\* RegisterConnection returns.  Its error is only logged; an error of
\* AddToGroup refuses the connection, whose route stays behind.
RegisterReturns(c) ==
    /\ phase[c] = "registering"
    /\ Succeeds(c) \/ Fails(c)
    /\ \/ Goto(c, "open") /\ UNCHANGED closedAt
       \/ Goto(c, "rejected") /\ closedAt' = [closedAt EXCEPT ![c] = now]
    /\ UNCHANGED <<storeVars, up, lastSeen>>

\* Mutant: a ping the hub handles after the connection is gone.
OnLatePing(c) ==
    /\ phase[c] \in {"open", "gone"}
    /\ lastSeen[c] < now
    /\ now < Horizon
    /\ phase[c] = "open" => Goto(c, "pinging")
    /\ phase[c] = "gone" => UNCHANGED phase
    /\ lastSeen' = [lastSeen EXCEPT ![c] = now]
    /\ Ask("refresh", c)
    /\ UNCHANGED <<up, closedAt, missed, faults>>

\* OnPing: at most one ping in a time unit.
OnPing(c) ==
    /\ phase[c] = "open"
    /\ lastSeen[c] < now
    /\ now < Horizon
    /\ Goto(c, "pinging")
    /\ lastSeen' = [lastSeen EXCEPT ![c] = now]
    /\ Ask("refresh", c)
    /\ UNCHANGED <<up, closedAt, missed, faults>>

PingReturns(c) ==
    /\ phase[c] = "pinging"
    /\ Succeeds(c) \/ Fails(c)
    /\ Goto(c, "open")
    /\ UNCHANGED <<storeVars, up, lastSeen, closedAt>>

\* OnDisconnected: for any reason and at any time, and whether or not
\* OnConnected had accepted the connection.
OnDisconnected(c) ==
    /\ phase[c] \in {"open", "rejected"}
    /\ Goto(c, "removing")
    /\ closedAt' = IF phase[c] = "open" THEN [closedAt EXCEPT ![c] = now] ELSE closedAt
    /\ Ask("remove", c)
    /\ UNCHANGED <<up, lastSeen, missed, faults>>

RemoveReturns(c) ==
    /\ phase[c] = "removing"
    /\ Succeeds(c) \/ Fails(c)
    /\ Goto(c, "gone")
    /\ UNCHANGED <<storeVars, up, lastSeen, closedAt>>

\* The process of s dies with its connections.  What it sent may still run.
Crash(s) ==
    /\ s \in up
    /\ up' = up \ {s}
    /\ phase' = [c \in Conns |->
            IF ServerOf[c] = s /\ phase[c] # "new" THEN "gone" ELSE phase[c]]
    /\ closedAt' = [c \in Conns |->
            IF ServerOf[c] = s /\ phase[c] # "new" /\ ~Over(c) THEN now ELSE closedAt[c]]
    /\ answered' = {c \in answered : ServerOf[c] # s}
    /\ UNCHANGED <<storeVars, lastSeen, missed, faults>>

-----------------------------------------------------------------------------
\* Redis.

\* k is the call its connection's callback is waiting for.
Awaited(k) ==
    /\ k.conn \notin answered
    /\ IF k.op = "refresh"
       THEN phase[k.conn] \in {"registering", "pinging"} /\ k.at = lastSeen[k.conn]
       ELSE phase[k.conn] = "removing"

Answers(k) ==
    /\ answered' = IF Awaited(k) THEN answered \cup {k.conn} ELSE answered
    /\ UNCHANGED <<up, phase, lastSeen, closedAt, missed, faults>>

\* Mutant: the script of a ping sets the TTL of a field that is there.
RedisOnlyExtends(k) ==
    /\ \/ (phase[k.conn] # "pinging" \/ Live(k.conn)) /\ RefreshRuns(k)
       \/ phase[k.conn] = "pinging" /\ ~Live(k.conn) /\ k \in inflight /\ Ran(k)
             /\ UNCHANGED <<now, userRoute, userExpire>>
       \/ RemoveRuns(k)
    /\ Answers(k)

RedisRuns(k) == (RefreshRuns(k) \/ RemoveRuns(k)) /\ Answers(k)

RedisDrops(k) == ~Awaited(k) /\ LoseCall(k) /\ UNCHANGED hubVars

\* Time advances: not past the moment by which a call in flight must have
\* run or been dropped, nor past the silence signalg allows a connection, nor
\* past as long in OnConnected (go-redis gives up on a call much sooner).
Tick ==
    /\ now < MaxTime
    /\ \A k \in inflight : now < k.at + MaxDelay
    /\ \A c \in Conns : Attached(c) => now < lastSeen[c] + PingTimeout
    /\ now' = now + 1
    /\ UNCHANGED <<userRoute, userExpire, inflight, hubVars>>

HubNext ==
    \/ Tick
    \/ \E c \in Conns :
         \/ OnConnected(c) \/ OnConnectedInvalid(c) \/ RegisterReturns(c)
         \/ OnPing(c) \/ PingReturns(c)
         \/ OnDisconnected(c) \/ RemoveReturns(c)
    \/ \E s \in Servers : Crash(s)
    \/ \E k \in inflight : RedisRuns(k) \/ RedisDrops(k)

\* The hubs alone, in gateways that do not run a poller.
HubStart == StoreInit /\ HubInit

HubSpec == HubStart /\ [][HubNext]_<<storeVars, hubVars>>

-----------------------------------------------------------------------------

\* A connection that is over is listed for a bounded time only: no callback,
\* refresh in flight, retry, failed removal or crash keeps its route for
\* longer than the delay of one call and the TTL of one field.
StaleRoutesExpire ==
    \A c \in Conns : Over(c) => userRoute[c] <= closedAt[c] + MaxDelay + FieldTTL

\* The route table is a directory of leases, of which a connection owns one:
\* every step that any actor takes writes routes, drops one, ends their owners
\* or lets time pass, within what such a directory allows.
Routes == INSTANCE LeaseDirectory WITH
    Keys <- Conns,
    TTL <- FieldTTL,
    until <- userRoute,
    over <- {c \in Conns : Over(c)},
    overAt <- closedAt

RoutesAreLeased == Routes!Spec

\* Once the calls in flight when a connection ended have had time to run, its
\* route only dies: no step of any actor brings it back.
NoResurrection ==
    [][\A c \in Conns :
          Over(c) /\ now > closedAt[c] + MaxDelay => userRoute'[c] <= userRoute[c]
      ]_<<storeVars, hubVars>>

\* When the route of a served connection is due at the earliest: a TTL after the
\* last ping, or, while the call of that ping is on its way, one silent period
\* before that.
DueAt(c) ==
    IF phase[c] = "pinging" /\ c \notin answered
    THEN lastSeen[c] + FieldTTL - PingTimeout
    ELSE lastSeen[c] + FieldTTL

\* A connection being served is listed, with its server, until a TTL after its
\* last ping, and as long after the ping before it while the refresh of the last
\* is under way: whatever late and repeated calls, removals of the user's other
\* connections and time do.  A refresh that failed, which the hub only logs, is
\* made good by the next.
HealthyConnectionsListed ==
    \A c \in Conns :
        Serving(c) /\ c \notin missed /\ now < DueAt(c) =>
            /\ c \in ListUserConnections(UserOf[c])
            /\ ServerOf[c] \in ListUserServerIDs(UserOf[c])

\* An id ParseAppGroup refuses never reaches the route table: no route, no
\* index entry, no refresh in flight, though OnDisconnected may still send a
\* removal for it.
RefusedLeaveNoTrace ==
    \A c \in Conns :
        UserOf[c] \notin ValidUsers =>
            /\ userRoute[c] = 0
            /\ ~Indexed(UserOf[c])
            /\ \A k \in inflight : k.conn = c => k.op = "remove"

\* The store asks that the TTL be positive (user_route.go:106-108), so that a
\* connection whose refresh has just run is listed.
RefreshedListed ==
    \A c \in Conns :
        phase[c] = "open" /\ lastSeen[c] = now /\ c \notin missed => Live(c)

=============================================================================
