--------------------------- MODULE GatewayProcess ---------------------------
(***************************************************************************)
(* The life of one gateway process: main (src/main.go), App.Start and      *)
(* App.Shutdown (src/internal/app/app.go), the gRPC server's Start and     *)
(* Shutdown (src/internal/rpc/server.go), and its registration in etcd.    *)
(*                                                                         *)
(* The parts that run on their own (the push subscriber, the HTTP server   *)
(* and the gRPC server) report their end on a channel of which main reads  *)
(* at most one report.  main is one sequential program: its counter is the *)
(* next thing it does or waits for.                                        *)
(***************************************************************************)
EXTENDS EtcdRegistry, Sequences

CONSTANTS
    ShutdownTimeout,  \* config.ShutdownTimeout
    HandlerTime,      \* longest a gRPC handler runs
    Horizon,          \* bound: last time at which a signal comes or a part ends
    MaxTime           \* bound: time stops here

ASSUME ProcessAssumption ==
    /\ {ShutdownTimeout, HandlerTime} \subseteq Nat \ {0}
    /\ {Horizon, MaxTime} \subseteq Nat

Parts == {"push", "http", "grpc"}

VARIABLES
    main,      \* what main does next
    part,      \* the goroutines that report on done
    done,      \* App.done; a report is whether it is an error
    deadline,  \* of the context given to Shutdown
    failed,    \* main read an error, or Shutdown has one to return
    handler,   \* by when the gRPC call being handled ends; 0: none
    redis,     \* the Redis client is open
    exitCode,
    endedAt    \* when the process ended

processVars == <<main, part, done, deadline, failed, handler, redis, exitCode, endedAt>>

vars == <<registryVars, processVars>>

Stopping == {"http", "deregister", "graceful", "forced", "close", "data", "exit"}

Ended == main \in {"exited", "killed"}

TypeOK ==
    /\ RegistryTypeOK
    /\ main \in Stopping \cup {"init", "serving", "exited", "killed"}
    /\ part \in [Parts -> {"off", "running", "ended"}]
    /\ done \in Seq(BOOLEAN)
    /\ {deadline, handler, endedAt} \subseteq Nat
    /\ {failed, redis} \subseteq BOOLEAN
    /\ exitCode \in {0, 1}

Init ==
    /\ RegistryInit
    /\ main = "init"
    /\ part = [p \in Parts |-> "off"]
    /\ done = <<>>
    /\ deadline = 0
    /\ failed = FALSE
    /\ handler = 0
    /\ redis = FALSE
    /\ exitCode = 0 /\ endedAt = 0

\* The process ends, and nothing is left of it but its exit code.
Vanishes(how, code) ==
    /\ main' = how /\ exitCode' = code /\ endedAt' = now
    /\ part' = [p \in Parts |-> "off"]
    /\ done' = <<>> /\ deadline' = 0 /\ failed' = FALSE
    /\ handler' = 0 /\ redis' = FALSE
    /\ Dies

-----------------------------------------------------------------------------
\* main, until it is told to stop.

\* Initialize pings Redis, makes the etcd client and listens; any of it fails.
InitializeFails ==
    /\ main = "init"
    /\ Vanishes("exited", 1)

\* Initialize, and App.Start, which starts the parts and the registration.
Start ==
    /\ main = "init"
    /\ main' = "serving" /\ redis' = TRUE
    /\ part' = [p \in Parts |-> "running"]
    /\ Register
    /\ UNCHANGED <<now, etcdVars, call, drainBy, registered, kept, lapsed, leaving,
                   leaveBy, missed, closed, faults, done, deadline, failed,
                   handler, exitCode, endedAt>>

\* Shutdown cancels the background context, which a subscriber that is waiting
\* for a message does not notice, and calls http.Shutdown.
BeginShutdown ==
    /\ main = "serving"
    /\ main' = "http"
    /\ deadline' = now + ShutdownTimeout
    /\ UNCHANGED <<registryVars, part, handler, redis, exitCode, endedAt>>

SignalArrives ==
    /\ now < Horizon
    /\ BeginShutdown
    /\ UNCHANGED <<done, failed>>

ReadsReport ==
    /\ done # <<>>
    /\ BeginShutdown
    /\ failed' = Head(done) /\ done' = Tail(done)

-----------------------------------------------------------------------------
\* The goroutines that report.

\* Mutant: the channel has room for two.
TwoReports == 2

DoneCapacity == 3

\* The goroutine of a part sends its report, and waits while done is full.
Reports(isError) == Len(done) < DoneCapacity /\ done' = Append(done, isError)

\* A part ends by itself.  The HTTP server reports whatever it ended with, the
\* others report errors, and have no other end.
PartEnds(p) ==
    /\ part[p] = "running" /\ main = "serving" /\ now < Horizon
    /\ part' = [part EXCEPT ![p] = "ended"]
    /\ \E isError \in BOOLEAN : (p = "http" \/ isError) /\ Reports(isError)
    /\ UNCHANGED <<registryVars, main, deadline, failed, handler, redis, exitCode, endedAt>>

\* A part ends because of Shutdown: the HTTP server reports, the gRPC server
\* does not, and the subscriber does if it finds the Redis client closed
\* before it notices that its context is cancelled.
PartStops(p) ==
    /\ part[p] = "running"
    /\ part' = [part EXCEPT ![p] = "ended"]
    /\ \/ p = "http" /\ main \in Stopping \ {"http"} /\ \E e \in BOOLEAN : Reports(e)
       \/ p = "grpc" /\ main \in {"close", "data", "exit"} /\ UNCHANGED done
       \/ p = "push" /\ main \in Stopping /\ UNCHANGED done
       \/ p = "push" /\ main \in Stopping /\ ~redis /\ Reports(TRUE)
    /\ UNCHANGED <<registryVars, main, deadline, failed, handler, redis, exitCode, endedAt>>

-----------------------------------------------------------------------------
\* gRPC calls, of which the model handles one at a time.

HandlerStarts ==
    /\ handler = 0 /\ part["grpc"] = "running"
    /\ main \in {"serving", "http", "deregister"}
    /\ now < Horizon
    /\ handler' = now + HandlerTime
    /\ UNCHANGED <<registryVars, main, part, done, deadline, failed, redis,
                   exitCode, endedAt>>

HandlerEnds ==
    /\ handler # 0 /\ ~Ended
    /\ handler' = 0
    /\ UNCHANGED <<registryVars, main, part, done, deadline, failed, redis,
                   exitCode, endedAt>>

-----------------------------------------------------------------------------
\* main, in Shutdown.

\* http.Shutdown returns: every connection is closed, or the deadline passed, or
\* something else failed, as when the server has ended by itself.  App.Shutdown
\* goes on to the gRPC server, which deregisters first.
HTTPStops ==
    /\ main = "http"
    /\ main' = "deregister"
    /\ UNCHANGED failed \/ failed' = TRUE
    /\ Deregister(deadline)
    /\ UNCHANGED <<now, etcdVars, call, drainBy, registered, kept, lapsed, registering,
                   registerBy, missed, closed, faults, part, done, deadline,
                   handler, redis, exitCode, endedAt>>

\* Deregister has returned, and GracefulStop is started: no call is accepted
\* any more.
StopsAccepting ==
    /\ main = "deregister" /\ leaving = "returned"
    /\ main' = "graceful"
    /\ UNCHANGED <<registryVars, part, done, deadline, failed, handler, redis,
                   exitCode, endedAt>>

GracefulStops ==
    /\ main = "graceful" /\ handler = 0
    /\ main' = "close"
    /\ UNCHANGED <<registryVars, part, done, deadline, failed, handler, redis,
                   exitCode, endedAt>>

\* The deadline passes first: Stop cancels the calls, and GracefulStop is still
\* waited for.
Stop ==
    /\ main = "graceful" /\ now >= deadline
    /\ main' = "forced" /\ failed' = TRUE
    /\ UNCHANGED <<registryVars, part, done, deadline, handler, redis,
                   exitCode, endedAt>>

\* Mutant: Shutdown returns as soon as it has called Stop.
StopsAtOnce ==
    /\ main = "forced"
    /\ main' = "data"
    /\ UNCHANGED <<registryVars, part, done, deadline, failed, handler, redis,
                   exitCode, endedAt>>

\* The registry is not closed on this path.
ForcedStops ==
    /\ main = "forced" /\ handler = 0
    /\ main' = "data"
    /\ UNCHANGED <<registryVars, part, done, deadline, failed, handler, redis,
                   exitCode, endedAt>>

ClosesRegistry ==
    /\ main = "close"
    /\ main' = "data"
    /\ Close
    /\ UNCHANGED <<part, done, deadline, failed, handler, redis, exitCode,
                   endedAt>>

\* Closing the Redis client may return an error.
ClosesData ==
    /\ main = "data"
    /\ main' = "exit" /\ redis' = FALSE
    /\ UNCHANGED failed \/ failed' = TRUE
    /\ UNCHANGED <<registryVars, part, done, deadline, handler, exitCode, endedAt>>

Exits ==
    /\ main = "exit"
    /\ Vanishes("exited", IF failed THEN 1 ELSE 0)

Killed == ~Ended /\ Vanishes("killed", 0)

\* main, from its call of Shutdown on.
ShutdownStep ==
    \/ HTTPStops \/ StopsAccepting \/ GracefulStops \/ Stop \/ ForcedStops
    \/ ClosesRegistry \/ ClosesData \/ Exits

-----------------------------------------------------------------------------

\* Time passes while main, the methods of the registry and the handlers all
\* wait for something that may still take time.
Tick ==
    /\ now < MaxTime
    /\ TimeMayPass
    /\ main \in {"serving", "http", "deregister", "graceful", "forced", "exited", "killed"}
    /\ main = "serving" => done = <<>>
    /\ main = "deregister" => leaving # "returned"
    /\ main \in {"http", "graceful"} => now < deadline
    /\ main = "forced" => handler # 0
    /\ handler # 0 => now < handler
    /\ now' = now + 1
    /\ UNCHANGED <<etcdVars, call, drainBy, registered, kept, lapsed, registering,
                   registerBy, leaving, leaveBy, missed, closed, faults, processVars>>

RegistryStep ==
    /\ \/ RegisterStep \/ DeregisterStep
       \/ \E k \in Calls : EtcdRuns(k) \/ EtcdDrops(k)
       \/ EtcdRenews \/ KeepAliveEnds
    /\ UNCHANGED processVars

Next ==
    \/ InitializeFails \/ Start \/ SignalArrives \/ ReadsReport
    \/ \E p \in Parts : PartEnds(p) \/ PartStops(p)
    \/ HandlerStarts \/ HandlerEnds
    \/ ShutdownStep
    \/ Killed
    \/ RegistryStep
    \/ Tick

\* The Go scheduler runs main, the goroutine in Register and the handlers,
\* and time passes.  Nothing is asked of etcd but that calls nobody waits for
\* do not stay in flight, nor of the client but that it renews its lease.
Fairness ==
    /\ WF_vars(ShutdownStep)
    /\ WF_vars((RegisterStep \/ DeregisterStep) /\ UNCHANGED processVars)
    /\ WF_vars((EtcdRenews \/ \E k \in Calls : EtcdDrops(k)) /\ UNCHANGED processVars)
    /\ WF_vars(HandlerEnds)
    /\ WF_vars(Tick)

Spec == Init /\ [][Next]_vars /\ Fairness

-----------------------------------------------------------------------------

\* A lease is no longer than what is asked for, or the shortest etcd grants.
LongestLease == IF AskedTTL < MinLease THEN MinLease ELSE AskedTTL

\* The endpoint is an entry in a directory of leases: whatever happened to the
\* process, its registration, its shutdown and their calls, the endpoint is
\* gone a lease after the last call that could run.
Endpoint == INSTANCE LeaseDirectory WITH
    Keys <- {"endpoint"},
    TTL <- LongestLease,
    until <- [k \in {"endpoint"} |-> IF endpoint THEN lease ELSE 0],
    over <- IF Ended THEN {"endpoint"} ELSE {},
    overAt <- [k \in {"endpoint"} |-> endedAt]

EndpointIsLeased == Endpoint!Spec

\* What Deregister has deleted stays deleted: no Register that runs late, no
\* call that runs late puts the endpoint back.
DeregisteredStaysGone == call["delete"] = "ran" => ~endpoint

\* From the return of Register to the call of Deregister the endpoint is
\* listed at every moment, for as long as etcd can be reached.
RegisteredIsListed ==
    registered /\ leaving \in {"idle", "locking"} /\ ~lapsed => Listed

\* A Register that failed leaves nothing listed, though its AddEndpoint may run
\* after it has given up on it, before Revoke or after: the one exception is a
\* Revoke that was not sent, because the time of Register was over, or failed.
FailedRegistrationLeavesNothing ==
    registering = "returned" /\ ~registered /\ leaving \in {"idle", "locking"} => ~Listed

\* A process that exits with 0, with no call failed, is not listed afterwards:
\* except that Deregister may have come before Register had begun, or after
\* the HTTP server had used up the deadline.
CleanStop ==
    main = "exited" /\ exitCode = 0 /\ faults = 0 /\ ~missed => ~Listed

\* A goroutine that comes to report its end finds room: none waits for ever,
\* although main reads one report at most.
NoReportBlocks ==
    \A p \in Parts : part[p] = "running" => Len(done) < DoneCapacity

\* The Redis client is open while a gRPC call is being handled, even if the
\* deadline of the shutdown has passed.
RedisOutlivesHandlers == handler # 0 => redis

\* Shutdown ends by its deadline, but for two delays: Register may have the
\* mutex for longer, if its time is, and handlers go on after Stop.
ShutdownInTime ==
    main \in Stopping =>
        LET begun == deadline - ShutdownTimeout
        IN  \/ now <= begun + ShutdownTimeout + HandlerTime
            \/ now <= begun + RegisterTimeout + HandlerTime

\* A shutdown that has begun ends.
ShutdownEnds == main \in Stopping ~> Ended

=============================================================================
