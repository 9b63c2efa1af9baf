---------------------------- MODULE ClusterPush ----------------------------
(***************************************************************************)
(* Push and close calls from the gRPC service of one gateway to the        *)
(* websockets of all of them: the handlers (src/internal/rpc/service.go),  *)
(* the publisher, the Redis channels and the subscriber of every gateway   *)
(* (src/internal/cluster/push.go).                                         *)
(*                                                                         *)
(* Redis keeps nothing for a subscriber that is not there.  A subscription *)
(* is one TCP connection for all channels, and its messages arrive in the  *)
(* order in which Redis published them.                                    *)
(***************************************************************************)
EXTENDS PushRequests

CONSTANTS
    Callers,           \* clients of the gRPC service
    UsersChannel,      \* config.RedisPushUsersChannel
    GroupChannel,      \* config.RedisPushGroupChannel
    BroadcastChannel,  \* config.RedisPushBroadcastChannel
    MaxLog,            \* bound: events published
    MaxFaults          \* bound: errors, retries and lost subscriptions

ASSUME BoundsAssumption == MaxLog \in Nat /\ MaxFaults \in Nat

VARIABLES
    calls,     \* PUBLISH calls that may still run
    log,       \* what Redis published, as it was asked for
    sub,       \* state of each gateway's subscriber; "failed": Start returned
               \* an error that App.Start's goroutine reports on done
    inbox,     \* messages on their way to its subscriber
    stopping,  \* gateways whose background context is cancelled
    conn,      \* "new", "open" or "closed"
    received,  \* positions of the log handed to signalg for a connection
    faults     \* errors so far

vars == <<calls, log, sub, inbox, stopping, conn, received, faults>>

localVars == <<conn, received>>

subVars == <<sub, inbox, stopping>>

TypeOK ==
    /\ \A k \in calls : /\ k.caller \in Callers /\ k.request \in Requests
                        /\ {k.ran, k.waiting} \subseteq BOOLEAN
    /\ \A k \in DOMAIN log : log[k] \in Requests \cup Foreign
    /\ sub \in [Servers -> {"connecting", "subscribed", "failed", "stopped"}]
    /\ \A s \in Servers : sub[s] # "subscribed" => inbox[s] = <<>>
    /\ stopping \subseteq Servers
    /\ conn \in [Conns -> {"new", "open", "closed"}]
    /\ \A c \in Conns : \A i \in DOMAIN received[c] : received[c][i] \in DOMAIN log
    /\ faults \in 0 .. MaxFaults

Init ==
    /\ calls = {}
    /\ log = <<>>
    /\ sub = [s \in Servers |-> "connecting"]
    /\ inbox = [s \in Servers |-> <<>>]
    /\ stopping = {}
    /\ conn = [c \in Conns |-> "new"]
    /\ received = [c \in Conns |-> <<>>]
    /\ faults = 0

Fault == faults < MaxFaults /\ faults' = faults + 1

-----------------------------------------------------------------------------
\* The service and the publisher.

\* compactStrings: blank ids are dropped.
Compact(ids) == ids \ {Blank}

\* Mutant: the ids are counted before blank ones are dropped.
CountsBlankIds(r) ==
    /\ r.op \in Sends => r.method # Blank
    /\ r.op \in ByIds => r.ids # {}
    /\ r.op = "SendToGroup" => r.group # Blank

\* The handlers' validation.
Accepts(r) ==
    /\ r.op \in Sends => r.method # Blank
    /\ r.op \in ByIds => Compact(r.ids) # {}
    /\ r.op = "SendToGroup" => r.group # Blank

EventOf(r) == [r EXCEPT !.ids = Compact(@)]

ChannelForTarget(op) ==
    IF op \in ByIds THEN UsersChannel
    ELSE IF op = "SendToGroup" THEN GroupChannel
    ELSE BroadcastChannel

\* Mutant: the broadcast channel is not among them.
SubscribesToTwo == {UsersChannel, GroupChannel}

Channels == {UsersChannel, GroupChannel, BroadcastChannel}

\* PUBLISH of an event, for every subscription there is at this moment.
RedisPublishes(r, event, channel) ==
    /\ Len(log) < MaxLog
    /\ log' = Append(log, r)
    /\ inbox' = [s \in Servers |->
            IF sub[s] = "subscribed" /\ channel \in Channels
            THEN Append(inbox[s], [event |-> event, at |-> Len(log) + 1])
            ELSE inbox[s]]
    /\ UNCHANGED <<sub, stopping, localVars>>

\* A handler that accepts its request publishes the event and waits.
Call(p, r) ==
    /\ \A k \in calls : k.caller = p => ~k.waiting
    /\ Accepts(r)
    /\ calls' = calls \cup {[caller |-> p, request |-> r, ran |-> FALSE, waiting |-> TRUE]}
    /\ UNCHANGED <<log, subVars, localVars, faults>>

\* The call runs in Redis, again if its first answer was lost.
CallRuns(k) ==
    /\ RedisPublishes(k.request, EventOf(k.request), ChannelForTarget(k.request.op))
    /\ IF k.ran THEN Fault ELSE UNCHANGED faults
    /\ calls' = (calls \ {k}) \cup (IF k.waiting THEN {[k EXCEPT !.ran = TRUE]} ELSE {})

CallReturns(k) ==
    /\ k.waiting /\ k.ran
    /\ calls' = calls \ {k}
    /\ UNCHANGED <<log, subVars, localVars, faults>>

\* The handler answers Internal; the call may run yet.
CallFails(k) ==
    /\ k.waiting /\ Fault
    /\ calls' = (calls \ {k}) \cup (IF k.ran THEN {} ELSE {[k EXCEPT !.waiting = FALSE]})
    /\ UNCHANGED <<log, subVars, localVars>>

CallIsLost(k) ==
    /\ ~k.waiting
    /\ calls' = calls \ {k}
    /\ UNCHANGED <<log, subVars, localVars, faults>>

\* Another program publishes on one of the channels.
ForeignPublishes(r, channel) ==
    /\ RedisPublishes(r, r, channel)
    /\ UNCHANGED <<calls, faults>>

-----------------------------------------------------------------------------
\* The subscriber.

\* go-redis subscribes, at first and after it lost its connection.
Subscribes(s) ==
    /\ sub[s] = "connecting" /\ s \notin stopping
    /\ sub' = [sub EXCEPT ![s] = "subscribed"]
    /\ UNCHANGED <<calls, log, inbox, stopping, localVars, faults>>

\* ReceiveMessage fails on a connection it has: no read has a deadline, so the
\* error is none of those that end the loop.
ReceiveFails(s) ==
    /\ sub[s] = "subscribed" /\ Fault
    /\ sub' = [sub EXCEPT ![s] = "connecting"]
    /\ inbox' = [inbox EXCEPT ![s] = <<>>]
    /\ UNCHANGED <<calls, log, stopping, localVars>>

\* Mutant: the goroutine of App.Start reports no time-out, as if it were the
\* cancellation.
EndsSilently(s) ==
    /\ sub[s] = "connecting"
    /\ sub' = [sub EXCEPT ![s] = "stopped"]
    /\ UNCHANGED <<calls, log, inbox, stopping, localVars, faults>>

\* Dialling Redis times out, which satisfies context.DeadlineExceeded: Start
\* returns, and its error is reported.  (Any other failure to connect is
\* retried, and changes nothing.)
DialTimesOut(s) ==
    /\ sub[s] = "connecting"
    /\ sub' = [sub EXCEPT ![s] = "failed"]
    /\ UNCHANGED <<calls, log, inbox, stopping, localVars, faults>>

\* dispatch returns no error.
Dispatches(e) ==
    /\ e.op \in Sends \cup Closes
    /\ e.op \in Sends => e.method # Blank
    /\ e.op \in ByIds => Compact(e.ids) # {}
    /\ e.op = "SendToGroup" => e.group # Blank

\* What the connections of s see of an event: messages are sent to those that
\* are open now, or they are closed.
Deliver(s, e, at) ==
    LET hit == {c \in Conns : /\ ServerOf[c] = s /\ conn[c] = "open"
                              /\ Dispatches(e) /\ Addressed(e, c)}
    IN  IF e.op \in Closes
        THEN /\ conn' = [c \in Conns |-> IF c \in hit THEN "closed" ELSE conn[c]]
             /\ UNCHANGED received
        ELSE /\ received' = [c \in Conns |->
                    IF c \in hit THEN Append(received[c], at) ELSE received[c]]
             /\ UNCHANGED conn

\* Mutant: a goroutine for each message.
ReceivesInParallel(s) ==
    /\ \E i \in DOMAIN inbox[s] :
         /\ Deliver(s, inbox[s][i].event, inbox[s][i].at)
         /\ inbox' = [inbox EXCEPT ![s] = SubSeq(@, 1, i - 1) \o SubSeq(@, i + 1, Len(@))]
    /\ UNCHANGED <<calls, log, sub, stopping, faults>>

\* Mutant: an event that is not dispatched ends the loop.
ReceiveEnds(s) ==
    /\ inbox[s] # <<>>
    /\ LET m == Head(inbox[s]) IN
         /\ Deliver(s, m.event, m.at)
         /\ IF Dispatches(m.event)
            THEN inbox' = [inbox EXCEPT ![s] = Tail(@)] /\ UNCHANGED sub
            ELSE /\ sub' = [sub EXCEPT ![s] = "stopped"]
                 /\ inbox' = [inbox EXCEPT ![s] = <<>>]
    /\ UNCHANGED <<calls, log, stopping, faults>>

\* One message; one that is malformed or not dispatched is logged and left.
Receive(s) ==
    /\ inbox[s] # <<>>
    /\ LET m == Head(inbox[s]) IN
         /\ Deliver(s, m.event, m.at)
         /\ inbox' = [inbox EXCEPT ![s] = Tail(@)]
    /\ UNCHANGED <<calls, log, sub, stopping, faults>>

\* Shutdown cancels the context; the receive under way, or the next, returns.
Cancel(s) ==
    /\ s \notin stopping
    /\ stopping' = stopping \cup {s}
    /\ UNCHANGED <<calls, log, sub, inbox, localVars, faults>>

\* main reads the report and shuts the gateway down.
ReadsReport(s) == sub[s] = "failed" /\ Cancel(s)

\* Mutant: the subscription is not closed.
StopsReceiving(s) ==
    /\ s \in stopping /\ sub[s] \in {"connecting", "subscribed"}
    /\ sub' = [sub EXCEPT ![s] = "stopped"]
    /\ UNCHANGED <<calls, log, inbox, stopping, localVars, faults>>

Stops(s) ==
    /\ s \in stopping /\ sub[s] \in {"connecting", "subscribed"}
    /\ sub' = [sub EXCEPT ![s] = "stopped"]
    /\ inbox' = [inbox EXCEPT ![s] = <<>>]
    /\ UNCHANGED <<calls, log, stopping, localVars, faults>>

-----------------------------------------------------------------------------
\* The connections a gateway holds.

Opens(c) ==
    /\ conn[c] = "new"
    /\ conn' = [conn EXCEPT ![c] = "open"]
    /\ UNCHANGED <<calls, log, subVars, received, faults>>

Leaves(c) ==
    /\ conn[c] = "open"
    /\ conn' = [conn EXCEPT ![c] = "closed"]
    /\ UNCHANGED <<calls, log, subVars, received, faults>>

Next ==
    \/ \E p \in Callers, r \in Requests : Call(p, r)
    \/ \E k \in calls : CallRuns(k) \/ CallReturns(k) \/ CallFails(k) \/ CallIsLost(k)
    \/ \E r \in Foreign, channel \in Channels : ForeignPublishes(r, channel)
    \/ \E s \in Servers :
         \/ Subscribes(s) \/ ReceiveFails(s) \/ DialTimesOut(s) \/ Receive(s)
         \/ Cancel(s) \/ Stops(s)
    \/ \E c \in Conns : Opens(c) \/ Leaves(c)

Spec == Init /\ [][Next]_vars

\* While its loop runs, a subscriber tries to connect again at once, and Redis
\* answers in the end; what arrived is received; and main waits in a select
\* for the report of one that ended.
Fairness ==
    \A s \in Servers :
        WF_vars(Subscribes(s)) /\ WF_vars(Receive(s)) /\ WF_vars(ReadsReport(s))

FairSpec == Spec /\ Fairness

-----------------------------------------------------------------------------

\* A connection is handed events in the order in which Redis published them,
\* and each publication in one call of signalg's sender, whichever of the
\* channels they came by: a caller that awaits each answer is never overtaken
\* by itself.  (An id that one request names twice stays in that one call
\* twice; what comes of it is signalg's.)
InOrder ==
    \A c \in Conns : \A i, j \in DOMAIN received[c] :
        i < j => received[c][i] < received[c][j]

\* What a handler accepted, no subscriber drops as invalid: the service and the
\* subscriber each have checks of their own, and only Redis between them.
\* (Another program may publish what the service would have refused.)
AcceptedIsDispatched ==
    \A k \in DOMAIN log : log[k] \in Foreign \/ Dispatches(EventOf(log[k]))

\* The gateways together are the delivery PushDelivery specifies: the inbox of
\* a gateway is the rest of the log.
Delivery == INSTANCE PushDelivery WITH
    attached <- {s \in Servers : sub[s] = "subscribed"},
    cursor <- [s \in Servers |->
                  IF sub[s] = "subscribed" THEN Len(log) - Len(inbox[s]) ELSE 0]

Delivered == Delivery!Spec

\* No gateway goes on serving while deaf to push events: again and again it is
\* subscribed with nothing left to receive, whatever was published and however
\* often its connection to Redis was lost, or else it was told to stop, and a
\* subscriber that a time-out has ended brings that about.
CatchesUp ==
    \A s \in Servers :
        []<>(s \in stopping \/ (sub[s] = "subscribed" /\ inbox[s] = <<>>))

=============================================================================
