# kim-gate: a TLA+ model of the gateway

kim-gate is a websocket gateway. Many gateway processes run side by side; a
client holds a websocket to one of them. The gateways share a Redis, which holds
the *route table* (which connections a user has, and on which server) and carries
*push events* between gateways. Back ends reach a gateway by gRPC, and find one
through etcd. This directory models the parts of it that are concurrent or that
count with time, checks them with TLC on small instances, and proves the main
results with TLAPS for all instances.

## 1. Inventory

| Component | Source | State | Operations | Model |
|---|---|---|---|---|
| Route table | `internal/data/user_route.go` | in Redis: per user a hash *connection -> server* whose fields have a TTL each; per bucket a sorted set of users scored with the time they are due | `RegisterConnection`, `RefreshConnection`, `RemoveConnection`, `ListUserConnections`, `ListUserServerIDs`, `PollExpiredUsers` | `UserRouteStore` |
| Hub | `internal/gateway/gateway.go` | none of its own; the life of each connection | `OnConnected`, `OnPing`, `OnDisconnected` | `GatewayHub` |
| Route poller | `internal/app/app.go:110-163` | the bucket of the loop, a ticker | `runUserRoutePoller`, `pollExpiredUserRoutesOnce` | `RoutePoller` |
| Token auth | `internal/auth/*.go`, `internal/gateway/app_group.go` | none; the tokens that exist, the sessions opened with them | `GenerateToken`, `ResolveToken`, `GetUserID`, `ParseAppGroup` | `TokenAuth` |
| gRPC service | `internal/rpc/service.go` | none | `GetToken`, `GetUserConnections`, six calls that publish, `GetOnline` | `GetToken` in `TokenAuth`, `GetUserConnections` in `UserRouteStore`, the calls that publish in `ClusterPush` |
| Cluster push | `internal/cluster/push.go` | a subscription per gateway | `Publish`, `Start`, `dispatch` | `PushRequests`, `PushDelivery`, `ClusterPush` |
| App lifecycle | `internal/app/app.go`, `main.go` | `done` channel, `once`, background context | `main`, `Start`, `Done`, `Shutdown` | `GatewayProcess` |
| gRPC server | `internal/rpc/server.go` | `done` channel, the registration in the background | `Start`, `Shutdown` | `GatewayProcess` |
| Service registry | `internal/discovery/etcd/registry.go` | `registered`, lease, mutex; in etcd the endpoint | `Register`, `Deregister`, `Close` | `EtcdRegistry` |
| Configuration | `internal/config/config.go` | none | `Load`, `normalize`, `Validate` | `GatewayConfig` |
| Redis connection | `internal/data/data.go` | the client | `New`, `Close` | when it fails and when it closes, in `GatewayProcess`; what it asks of the configuration, in `GatewayConfig` |
| Wiring | `wire.go`, `wire_gen.go` | - | `Initialize` | one step of `GatewayProcess`; its constructors' demands in `GatewayConfig` |
| Protocol code | `proto/` | - | - | generated by protoc, not modelled |

**How they interact.** signalg, the websocket library, asks `GetUserID` who a
client is, then calls the hub's callbacks. `OnConnected` and `OnPing` write the
connection's route with a script, `OnDisconnected` deletes it, and if a process
dies nobody does: the route's TTL is the only cleaner. The poller of every gateway
pops the users who are due from the index of each bucket. gRPC calls that push
publish an event, which the subscriber of every gateway delivers to its own
connections; `GetUserConnections` reads the route table; `GetToken` signs the
tokens that `ResolveToken` checks. `main` starts everything, waits for a signal or
the first report on the done channel, and shuts everything down with a deadline.

**What is hard.** Routes are soft state: several gateways write one user's entry,
with their own clocks in the scores and Redis' clock in the TTLs, and a call may be
late, lost, or (go-redis retries) run twice. Errors of the store are logged and
otherwise ignored. A poll removes users before anyone hears of them. Token times
are cut to seconds while the lifetime is not. Registration races with shutdown.
The full list, with lines, is in `PROJECT.json` under "hazards".

**What makes each part correct.**

* Route table, hub: a route outlives its connection by a bounded time and is not
  revived; a healthy connection is listed until a TTL after its last ping.
* Index and poller: no live user is reported expired beyond a stated slack; every
  departed user is eventually polled.
* Token auth: an issued token works until the time the client was told, never
  longer than the lifetime; one id stands for one user of one app.
* Cluster push: an event reaches exactly the matching connections of every gateway
  subscribed when it is published, at most once and in order.
* Lifecycle, registry: shutdown ends, in a bounded time, and blocks nobody; a
  registered gateway is listed until it deregisters; after a clean shutdown no endpoint
  stays; a crashed server's endpoint goes with its lease.
* Configuration: no address that `Load` accepts panics `Initialize` for its form; a push
  channel that is not set is derived from the base in use.

## 2. Modules

    UserRouteStore ---- GatewayHub --------+
          |        (implements LeaseDirectory)
          |                                +-- GatewayRoutes -- GatewayRoutesProofs
          +------------ RoutePoller -------+
    Texts ------------- TokenAuth ------------------ TokenAuthProofs
      |  +------------- GatewayConfig -------------- GatewayConfigProofs
      +---------------- TextsProofs  (used by both)
    PushRequests ------ PushDelivery
          +------------ ClusterPush (implements PushDelivery) -- ClusterPushProofs
    EtcdRegistry ------ GatewayProcess (implements LeaseDirectory)
                              +---------- GatewayProcessProofs

`MCGatewayHub`, `MCGatewayRoutes`, `MCTokenAuth`, `MCClusterPush`, `MCGatewayProcess` and
`MCGatewayConfig` give the constants values for TLC. Operators named as mutants in their
comments are wrong variants of a definition, kept to show that a property notices
them; nothing uses them.

### LeaseDirectory

What a directory of leased entries promises, whoever implements it: a key has one
owner, an entry is written to end at most `TTL` from now, may be dropped at any time,
and is not written more than `MaxDelay` after its owner has ended. The routes in
Redis (`RoutesAreLeased`: a key is a connection, its owner ends when the connection is
over) and the endpoint in etcd (`EndpointIsLeased`: the owner is the process) are both
shown to implement it: the two soft-state tables of the system rest on one argument.

### UserRouteStore

Variables: `now`; `userRoute[c]`, when the field of connection `c` expires (0:
no field); `userExpire[u]`, the score of user `u` (0: not in the index);
`inflight`, the calls that may still run in Redis. A connection belongs to one
user and one server for life, so the hash of a user is the set of its connections
with a live field. `RefreshRuns` is `registerConnectionScript`: the field's expiry
is `now + FieldTTL`, with the TTL cut to seconds, and the score is the *sender's*
clock at the time of the *call* plus the uncut TTL. `RemoveRuns` is `HDEL`, which
leaves the index alone. `Batches`/`PollRuns` is `pollExpiredUsersScript`.

`Ran(k)` may leave a call in flight, which is a repeated call; `LoseCall` drops one.
A call is gone `MaxDelay` after it was sent: that is the assumption behind every
bound below. It stands for go-redis' dial, read and write time-outs and its bounded
number of retries; the source sets no deadline of its own
(`context.Background()`, `gateway.go:124,164`). `Skew[s]` is how far the clock
of server `s` is ahead of the slowest one.

A field whose TTL is 0 seconds is modelled as expired at once. Whether Redis does
that or refuses the command, no field can be read afterwards.

### GatewayHub

A callback that writes routes is two actions, because the process waits in between:
`OnConnected`/`RegisterReturns`, `OnPing`/`PingReturns`, `OnDisconnected`/
`RemoveReturns`. The second may succeed only when Redis ran the call, and may fail
at any time, whether it ran or not. An error of a route call changes nothing else,
as in the code; an error of `AddToGroup` refuses the connection and leaves the
route. `Crash(s)` ends every connection of a server, its calls stay in flight.
`missed` remembers connections whose last call failed without having run;
`lastSeen` and `closedAt` are the times the properties speak of.

Assumed of signalg, which is not in the repository: it runs the callbacks of one
connection one after the other; it closes a connection that was silent for
`PingTimeout`; it may call `OnDisconnected` for a connection that was refused.
`PingTimeout` is positive here, though the configuration also accepts 0.

### RoutePoller, GatewayRoutes

`SendPoll` reads the server's clock, `ScriptRuns` pops the batch (its answer may be
lost, and then the call is made again), `PollReturns`/`PollFails` go on to the next
bucket whatever happened, `TickerFires` starts the next round as Go's ticker does: a
tick is held while a round is under way, further ones are dropped. `GatewayRoutes`
composes hubs, pollers and Redis. A poll call that timed out and runs later is not
modelled beyond a call that a dead server left behind.

### Texts, TokenAuth

`Texts` has what ids and settings share: sequences of characters (`Chars`, of which `Blank` is
white space) and `strings.TrimSpace`. In `TokenAuth` colon and blank matter, because the
properties are about joining and splitting ids. `TrimSpace` and `ParseAppGroup` are
non-recursive, so that they can be proved about; operators that may refuse return a
set with at most one element. `NumericDate` is the cut to seconds of
golang-jwt. `Foreign` are tokens another program signed, with or without the
same secret. The time a token is used is any time after it was issued. A session,
once opened, is not closed when its token expires, as in the code.

### PushRequests, PushDelivery, ClusterPush

`PushRequests` is the vocabulary: a request is its operation, its ids, its group and
its method; `Addressed(r, c)` says which connections it names. `PushDelivery` is the
promise, in terms of one log (lists of ids are sets: an id that a request names twice is
in the one call of signalg twice, and what comes of that is signalg's): a gateway attaches at the end of it, reads entry after
entry for the connections it holds at that moment, and misses what is logged while it
is detached.

`ClusterPush` is the code. `Call` is a handler with its validation, and
`CallRuns`/`CallReturns`/`CallFails`/`CallIsLost` the PUBLISH it waits for, which may
run twice (go-redis retries), or after the handler answered with an error. A
subscription is connecting, subscribed, failed or stopped; `RedisPublishes` appends to the
inbox of the subscribed ones only, `ReceiveFails` loses the subscription with its
inbox, `Subscribes` makes it again. `Receive` is one turn of the loop in
`Subscriber.Start`: what `dispatch` refuses, or cannot be read, is dropped. The loop
ends on cancellation, on a closed client, and on `context.DeadlineExceeded`, which the
time-out of Go's dialler satisfies: `DialTimesOut` takes a subscriber that is connecting
to `failed`. An error of a connection it has is not one of them, because go-redis reads
messages without a deadline. `App.Start` reports the error of a failed subscriber, and
`main` then shuts the gateway down (`ReadsReport`; the shutdown itself is in
`GatewayProcess`).
`Cancel` is `stopBackground`; the loop may take further messages before `Stops`.
`ForeignPublishes` is any other program on the channels. `received[c]` holds the
positions in the log of the messages handed to signalg for `c`; that signalg may drop
one, when a client reads too slowly, is outside. `Opens` is the end of `OnConnected`,
so a connection is known under its id, its user and its group from one moment on.

The refinement maps the gateways that are subscribed to those attached, and the
cursor of a gateway to the length of the log less that of its inbox. It holds only
if the inbox is at all times the rest of the log, for any interleaving of publishers,
subscribers and lost subscriptions.

### EtcdRegistry

One process registers once and deregisters once, so a call to etcd is known by its
operation: `call["grant"]`, `call["add"]`, `call["revoke"]` and `call["delete"]` are each
unsent, in flight, run or lost. `Register` and `Deregister` are programs whose counters
are `registering` and `leaving`: they wait for the mutex (`locking`; the wait has no
deadline, as in the code), then for one call after the other, by their deadline.
`MutexFree` is read off the counters. `EtcdRuns(k)` runs a call, also after its method has
given up on it (`GrantErrs`, `AddErrs`, ... may be taken before or after etcd ran it), until
`drainBy`; one `drainBy` serves for all of them. `closed` is the client closed by `Close`:
calls fail, and the keep-alive loop ends. `KeepAliveEnds` is an outage as long as the
lease; nothing in the code registers again after it. `lapsed` and `missed` remember such an
outage, and a `Deregister` that came before `Register` had begun or after its own
deadline; only the properties read them.

`TTL` is any number, since nothing validates it: one that is not positive is replaced by the
default, and what is left is cut to whole seconds (`LeaseTTL`), to none if it is below one.
A `Register` that failed is `returned`, or `abandoned` if it left its lease without a `Revoke`
that etcd answered.

Assumed: what a method does between two calls takes no time; etcd grants the seconds it is
asked for, or `MinLease` if that is longer; an error of
`NewManager`, which sends nothing, counts as one of `Grant`. `ResolverBuilder`, which only
clients use, is left out.

### GatewayProcess

`main` is one sequential program, whose counter is the variable `main`: `init`, `serving`,
then through `Shutdown` (`http`, `deregister`, `graceful`, `forced` or `close`, `data`,
`exit`) to `exited`, with its exit code, or at any moment `killed`. `part` are the three
goroutines that report on `done`, a channel with room for three, of which `main` reads at
most one; a part may end by itself while the process serves, or because of the shutdown, and
whether it reports differs by part, as in the code. `handler` is one gRPC call in progress:
`GracefulStops` and `ForcedStops` wait for it, since grpc's `GracefulStop`, which
`Shutdown` waits for on both paths, returns after the last handler, even if `Stop` was
called meanwhile. `Register` runs in the background from `Start` on; the exit of the process ends
it wherever it is.

`HTTPStops` and `ClosesData` may fail at any time, which makes the exit code 1.

Assumed: `http.Shutdown` returns by its deadline; a handler runs `HandlerTime` at most
(nothing in the source bounds it); one handler stands for all, as the last of them decides.
A websocket is not closed by `http.Shutdown`; what becomes of its route is in `GatewayHub`
(`Crash`, `OnDisconnected` with an error).

### GatewayConfig

`settings` is what flags, environment and file say; `Load` takes the first of them that has
a value (an empty variable of the environment has none, an empty flag or entry has: viper's
rule), else the default, normalizes and validates. A key stands for every key treated alike
(`dsn` for `redis.dsn` and `http.addr`, which no constructor parses); `Written` are the texts somebody may
write, sequences of words in which blanks, slashes and commas are words of their own, and
`Words` are those of the source. `Construct` is `Initialize`: the constructors in their order,
each with what it asks of the configuration (a DSN redis parses, a positive TTL, channels that
are not blank, an etcd endpoint, an address to listen on) and of the machine (`Found`: Redis
answers, signalg takes its options, the address can be bound, there is an internal address).
`URLs` and `HostPorts` are the texts two library parsers accept, any sets of texts in the proofs.
Any of them may refuse what `Load` accepted. `etcdInternalAddr` does not refuse but panics, and it
parses an address that is listened on already: `AddressNeverPanics` says that it never does so
for the form of the address. The two parsers disagree on the empty address alone, which `Validate`
keeps away after the trimming. The spelling of flags, parsing of durations and of the file, and
the JWT and etcd TTL keys, which `Validate` accepts whatever they are, are left out.

## 3. Runs

| Run | Instance | Shows |
|---|---|---|
| `hub` | two connections on two servers, one of them refused by `ParseAppGroup`, one clock ahead, TTL 5 half seconds, delay 1, ping timeout 2, two failing calls | `StaleRoutesExpire`, `NoResurrection`, `RefusedLeaveNoTrace`, `RefreshedListed`, `HealthyConnectionsListed` after failed calls, `RoutesAreLeased` (the refinement), types |
| `routes` | one user, two connections on two servers, with the poller of the server that is ahead, TTL 3, ping timeout 2, delay 1 | `LiveRoutesIndexed`, `PolledUsersExpire`, `HealthyConnectionsListed`, types |
| `polling` | two users in the last of two buckets, batches of one, one failing or lost poll, a server that may die | `DepartedUsersPolled` under fairness |
| `tokens` | lifetime 2 s, half-second clock, plain and blank ids; tokens of another program with blanks and colons in their ids | `IssuedTokenAdmits`, `IssuedTokenDies`, `OneUserPerId`, types |
| `push` | two users of one group on two gateways, one caller, a message to the group, one to all, a close of a user, three requests that are refused, a malformed event; two publications, one fault, dials that may time out | `Delivered` (the refinement), `InOrder`, `AcceptedIsDispatched`, `CatchesUp` under fairness, types |
| `lifecycle` | half-second clock, etcd TTL half a second (asks for 0, is granted the minimum 2), `Register` 2, shutdown 1, handlers 1, delay 1, one fault, signals and ends of parts up to time 3 | `RegisteredIsListed`, `DeregisteredStaysGone`, `FailedRegistrationLeavesNothing`, `CleanStop`, `NoReportBlocks`, `RedisOutlivesHandlers`, `ShutdownInTime`, `EndpointIsLeased` (the refinement), `ShutdownEnds` under fairness, types |
| `configured` | three settings among five texts, of which one is well formed, and three durations; any machine | `AddressNeverPanics`, `BlankChannelIsDerived`, types |
| `sub_second_ttl` | TTL of half a second | violation of `RefreshedListed` |
| `unlimited_tokens` | lifetime 0 | violation of `IssuedTokenAdmits` |
| `colon_ids` | an id with a colon | violation of `ResolvedIdParses` |
| `fractional_lifetime` | lifetime 1.5 s | violation of `IssuedTokenAdmits` |
| `unset_channels` | two settings | violation of `UnsetChannelIsDerived` |

**Bounds.** `MaxTime` ends time, `Horizon` the opening of connections and pings,
`MaxFaults` and `MaxPollFaults` the errors, `Pollers` limits which pollers take
steps (in the code all do; the polling properties are about any set of them).
They are chosen so that a whole cycle fits: open, miss a ping, time out, crash,
late call, expiry of the last field, poll. Two connections of one user on two
servers is the smallest instance in which servers overwrite each other's score;
no definition relates more than two connections or two clocks. In `routes` and
`polling` some of the hub's freedom is bounded harder (no failing route calls;
`MaxDelay = 0` in `polling`) since `hub` covers it. In `polling` tickers go on
when `MaxTime` is reached, so that liveness does not fail for lack of time.
In `push`, `MaxLog` ends the publications and `MaxFaults` the errors, retries and lost
subscriptions together. Two publications are enough to overtake, repeat or skip
one. Of the six operations three are made here, one per channel, and one that closes;
with a fourth the run takes too long. `SendToUsers`, `SendToConnections` and
`CloseConnections` share every step but the case of `Addressed`; that they are
delivered too is shown by the theorem `GatewaysDeliver`, for any requests.
In `lifecycle` the shutdown deadline is shorter than that of `Register`, so that a shutdown may
wait for the mutex past its deadline; a lease ends, and a late call runs, well before
`MaxTime`. One fault and one timeout together reach every error path; whole-second TTLs and
more faults are left to the proofs. In `configured` three
settings are enough for a channel, the base and a third key, or one key in all three sources.
Deadlock is not checked: at the bounds the model stops, and the properties do not
depend on it.

**Premises.** `HealthyConnectionsListed` asks nothing of the settings. It says until when a
served connection is listed: a TTL after its last ping, and while the refresh of that ping is
under way, a TTL after the ping before it, which was at most `PingTimeout` earlier. In `routes`
the TTL is the ping timeout and one delay, so that this moment is reached while the refresh may
still be on its way. With the defaults (route TTL and ping timeout both 60 s, ping interval
30 s) a connection that is silent for long is served and, for a moment, not listed: nothing in
the source relates the two settings, so this is a fact about deployments rather than a finding.
Of `IssuedTokenAdmits` the instance is the
premise: positive whole-second lifetime, ids without a colon; each of the three
violation runs of `TokenAuth` drops one of them. `CleanStop` has `~missed` in its premise, and
needs it: a signal that comes before the goroutine of `Register` has the mutex makes `Deregister`
return with nothing to do, and `Register` may then put the endpoint, which stays until its lease
ends. `FailedRegistrationLeavesNothing` excepts a `Register` that ended without its lease being
revoked (`abandoned`): `Revoke` is given the context of `Register`, so if `AddEndpoint` failed
because that was over, it is not sent, and the lease is kept alive for as long as the process
serves. What is excepted is decided when `Register` returns, not later. Neither contradicts a
statement of the repository.

**Fairness.** In `push`: a subscriber that is connecting gets its subscription, one that
has a message takes it, and `main` reads the report of one that failed, each under weak
fairness. While its loop runs, the subscriber receives again at once after an error, and
go-redis then dials and subscribes again; a dial may time out instead, which ends the loop and
the fairness of connecting with it. `main` reads the report because it waits for nothing else
but a signal, which shuts the gateway down as well. `CatchesUp` is therefore a choice: again and
again the gateway is subscribed with nothing left to receive, or it is told to stop. Callers,
faults, time-outs and shutdowns nobody asked for are not fair, nor is `Stops`. In `lifecycle`: `main` in its shutdown, the
methods of the registry and the handlers go on when they can, and time passes; calls that nobody
waits for do not stay in flight, and the client renews its lease. That etcd runs a call is not
asked, and neither are signals, ends of parts and faults: `ShutdownEnds` must hold without them. In `polling`: time passes; a call in
flight ends (go-redis gives up); a callback returns once its call has; a silent
connection is closed (signalg's ping timeout); the poller of a running server is
never stuck, since each of its calls returns or fails and its ticker fires. Clients,
crashes and errors are not fair. Weak fairness is enough: each of these stays
enabled until it is taken.

## 4. Findings

1. A route TTL under one second passes validation and lists nobody
   (`user_route.go:268`).
2. With a JWT lifetime of 0, "unlimited" in the design, `GetToken` returns expired
   tokens (`jwt.go:43`).
3. `GetToken` signs ids with a colon, which `ParseAppGroup` refuses (`jwt.go:88`).
4. With a lifetime that is not a whole number of seconds, some of the service's own
   tokens exceed the limit after both times were cut (`jwt.go:79`).
5. A push channel that is not set is not derived from the configured base, because its own
   default is never empty (`config.go:169`).

The theorems `RefreshShows` and `TokensAdmit` show that outside the first four cases the
properties hold; `configured` shows that a channel set to a blank is derived as the plan says.

## 5. Proofs

`GatewayRoutesProofs` proves, for all sets of connections, users and servers, all
TTLs, delays and skews, and from the named assumptions of the modules only:
`TypeCorrect`, `StaleRoutes`, `NoResurrection` as `RoutesStayDead`, `HealthyListed`,
`RoutesIndexed`, `PollsExpired`, `RefusedIds`, `RefreshShows` (the last for a TTL of
a second at least) and the refinement `RouteTableRefinement`, pollers included.

None of these is inductive: each depends on what is still in flight. `IInv` adds

* `CallsInTime`: a call in flight was sent in the past, at most `MaxDelay` ago;
* `RoutesInTime`, `OverInTime`: a field expires at most `FieldTTL` from now, and that of
  a closed connection at most `MaxDelay + FieldTTL` from its end, with a refresh in
  flight sent before it closed;
* `IndexInTime`: a field dies no later than the user's score, give or take the delay;
* `Waiting`, `RefreshesInTime`: what a callback waits for, and how recent the field of a
  served connection is when its last refresh was not missed, or the one under way has run;
* `OnlyValid`: refused ids have nothing.

The proof has one lemma per action. Where a step does not touch a part, a frame lemma
says so once (`PollStepFrame`, `CallFrame`). The safety properties follow from `IInv`
by arithmetic; the two action properties and the refinement from `IInv` and the step: that a
late refresh is still a write its owner may make is `OverInTime` with `CallsInTime`.

These are theorems about `Spec`, for every set `Pollers`; with `Pollers = {}` only the hubs
take steps, which is `HubSpec`, the specification of the runs of `MCGatewayHub`. `HubTypes`
states the types of `HubSpec` itself.

`TextsProofs` has what the other two need of texts, for texts of any length: a nonempty set of
positions has a least and a greatest element, so `TrimSpace` cuts at the first and the last ink
(`TrimSpaceCuts`); what it returns is empty or has ink at both ends (`TrimSpaceTrims`), is left
alone by a second call (`TrimSpaceTwice`), and does not depend on blanks cut off the ends
before (`TrimSpaceOfPart`). No induction is needed, because nothing here is recursive.

`TokenAuthProofs` proves what joining and splitting do: two colon-free trimmed texts, joined,
parse to the first (`PlainIdParses`); *any* two texts, joined, trimmed and accepted by
`ParseAppGroup`, parse to themselves, trimmed (`AcceptedIdNamesPair`: one colon is left, it is
the one between them, and trimming the whole cuts off only blanks that trimming the parts
would); and cutting to seconds commutes with adding whole seconds (`NumericDateShifts`). The
invariant records what `GetToken` put in each answer, that a session was opened before its
token's expiry, and that its id and group are those of its token (`SessionsAdmitted`). From it:
`TokenTypes`, `TokensAdmit` (positive whole-second lifetime, ids without separators),
`TokensDie` (any lifetime), and `OneUser`: no two users share an id, whoever signed the tokens.

`ClusterPushProofs` proves `PushTypes`, `HandedInOrder`, `AcceptedAreDispatched` and the
refinement `GatewaysDeliver`, for all requests, gateways, connections, faults and bounds. The
heart is `InboxIsRest`: the inbox of a gateway that is subscribed is the log from the position
it has reached to the end. It is inductive only together with

* `Places`, `InboxOfReader`: the types of the log and its readers, and that a gateway that is
  not subscribed has nothing in its inbox;
* `ReceivedIsPassed`, `Ordered`: what a connection was handed lies behind the position of its
  gateway, each message after the one before; so a gateway that loses its subscription goes on
  further on, never back;
* `Checked`: a call that is under way passed the validation of its handler, wherever its
  PUBLISH is and however often it will run.

`DispatchedAreMeant` is the other half of the refinement: handler and subscriber each trim, drop
or refuse ids on their own, and together they choose exactly the connections the request names.
`AcceptedIsDispatched` is stated of every message of the log that this service published.

`GatewayConfigProofs` proves `ConfigTypes`, `AddressParses` and `BlankChannels`, for any texts,
any parsers and any number of settings. The invariant says that what `Load` accepted is still what
`normalize` makes of the settings, and passed `Validate`. The work is in `NormalizedAreTrimmed`:
whatever was written, path and channels are trimmed and never empty, and a text of the source
put before or behind a trimmed one leaves it trimmed (`WordBefore`, `WordBehind`). `Validate` is
needed for the DSN and the address alone: `AddressParses` needs that the address is not empty, and
that what `net.Listen` takes beside the empty one is what `net.SplitHostPort` splits.

`GatewayProcessProofs` proves the nine safety results of `lifecycle`, for every TTL, time-out,
delay and number of faults, from `RegistryAssumption` and `ProcessAssumption`: `TypeCorrect`,
`ListedWhileServing`, `DeletedForGood`, `FailedRegister`, `ExitsClean`, `RoomForEveryReport`,
`RedisOpenForHandlers`, `ShutdownBounded` and the refinement `LeaseRefinement`. `Steps` sorts
the steps by what they disturb; the invariant is a conjunction of parts, each proved by cases
over those sorts:

* `Types`, with numbers apart from truth values, since the provers are;
* `Course`: where the methods of the registry are, given where `main` is, and what is open then;
* `Order`: which calls have been sent and run at each point of `Register` and `Deregister`; it
  makes `DeletedForGood` inductive (the endpoint is deleted only after it was put);
* `OneReportEach`: the channel holds no more reports than parts have ended;
* `Listing`: from the moment etcd puts the endpoint, not only from when `Register` hears of it,
  the lease is alive and kept;
* `Punctual`: by when each stop of `Shutdown` is left, through the deadline or `registerBy`;
* `Revoking`, `Remembered`, `Undone`: what a method that has returned has left in etcd: after a
  `Register` that was not abandoned and did not succeed, no lease that a call could still fill;
* `Bounded`: a lease ends at most `LeaseTTL` from now, a call nobody waits for runs by `drainBy`,
  which the end of the process fixes.

Only model-checked: liveness under fairness (`DepartedUsersPolled`, `CatchesUp`, `ShutdownEnds`),
which is out of the prover's reach. Every invariant and action property and every refinement
of a passing run is stated by a theorem. The five runs that expect a violation have no theorem,
but `RefreshShows`, `TokensAdmit` and `BlankChannels` prove what holds beside four of them, and
`PlainIdParses` beside the fifth: ids without separators do parse.

## 6. Not modelled, and what is left

Not modelled: the generated protocol code; the HTTP health page, logging and headers; the spelling of
flags and the parsing of files and DSNs; `GetOnline`, which asks signalg only; `ResolverBuilder`,
which only clients of a gateway use; what signalg and go-redis do inside.

Left, in this order:

1. Theorems about `HubSpec` itself for the properties of the run `hub`, beside those about the
   composition.
2. The publisher and the subscriber of one process joined to `GatewayProcess`: today the end of a
   subscription is `Stops` or `DialTimesOut` in the one and `PartEnds("push")` in the other.
3. The websocket callbacks of a gateway that shuts down, joined to `GatewayProcess`: today a
   callback that finds Redis closed is a failed call of `GatewayHub`.
