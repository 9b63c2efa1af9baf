---------------------------- MODULE GatewayRoutes ----------------------------
(***************************************************************************)
(* The gateways, their pollers and the route table they share.             *)
(***************************************************************************)
EXTENDS GatewayHub, RoutePoller

vars == <<storeVars, hubVars, pollVars>>

Init == StoreInit /\ HubInit /\ PollInit

PollStep(s) ==
    \/ s \in up /\ (SendPoll(s) \/ PollReturns(s) \/ PollFails(s) \/ TickerFires(s))
    \/ ScriptRuns(s)      \* also of a call a dead server left behind

Next ==
    \/ HubNext /\ UNCHANGED pollVars
    \/ \E s \in Pollers : PollStep(s) /\ UNCHANGED hubVars

Spec == Init /\ [][Next]_vars

\* Fairness.  Time passes; Redis answers, and go-redis retries a bounded
\* number of times, so a call does not stay in flight; a callback returns once
\* its call has; signalg closes a silent connection; the poller of a running
\* server is never stuck.  Clients, crashes and errors are not fair.
CallEnds ==
    \E k \in inflight :
        (RedisRuns(k) \/ RedisDrops(k)) /\ k \notin inflight' /\ UNCHANGED pollVars

SilenceEnds(c) == now >= lastSeen[c] + PingTimeout /\ OnDisconnected(c)

Fairness ==
    /\ WF_vars(Tick /\ UNCHANGED pollVars)
    /\ WF_vars(CallEnds)
    /\ \A c \in Conns :
         WF_vars((RegisterReturns(c) \/ PingReturns(c) \/ SilenceEnds(c)) /\ UNCHANGED pollVars)
    /\ \A s \in Pollers : WF_vars(s \in up /\ PollStep(s) /\ UNCHANGED hubVars)

FairSpec == Spec /\ Fairness

-----------------------------------------------------------------------------

TypeOK == HubTypeOK /\ PollTypeOK

\* The index never forgets a user who still has a route, and never holds a
\* score that is behind it, by more than one call's delay and the difference
\* between two servers' clocks: although the script writes the two with two
\* clocks, several servers refresh a user, and late or repeated calls may put
\* an old score over a new one.
LiveRoutesIndexed ==
    \A c \in Conns :
        LET u == UserOf[c] IN
        userRoute[c] > now + MaxDelay + MaxSkew =>
            Indexed(u) /\ userRoute[c] <= userExpire[u] + MaxDelay

\* No user is reported expired while a connection of theirs that a server is
\* serving has just been refreshed: a poll takes only users whose routes die
\* within the same slack.
PolledUsersExpire ==
    [][\A c \in Conns :
          Indexed(UserOf[c]) /\ ~Indexed(UserOf[c])' =>
              userRoute[c] <= now + MaxDelay + MaxSkew]_vars

\* A user none of whose connections is left is taken out of the index by some
\* poller, whatever the limit of a batch, lost answers and servers that die,
\* as long as one server is running.
Departed(u) == \A c \in Conns : UserOf[c] = u => Over(c) \/ phase[c] = "new"

DepartedUsersPolled ==
    [](up \cap Pollers # {}) =>
        \A u \in Users :
            (Departed(u) /\ Indexed(u)) ~> (~Departed(u) \/ ~Indexed(u))

=============================================================================
