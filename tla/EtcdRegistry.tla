---------------------------- MODULE EtcdRegistry ----------------------------
(***************************************************************************)
(* The registration of one gateway in etcd (src/internal/discovery/etcd/   *)
(* registry.go): Register, Deregister and Close, the lease they hang the   *)
(* endpoint on, and the client that keeps the lease alive.  One process    *)
(* calls each of them once, so a call to etcd is known by its operation.   *)
(*                                                                         *)
(* A method sends a call to etcd and waits for it with the mutex held.     *)
(* etcd may run the call and the answer be lost, and a call its method no  *)
(* longer waits for may still run.  What a method does between two calls   *)
(* takes no time.                                                          *)
(***************************************************************************)
EXTENDS Integers

CONSTANTS
    Second,           \* units of time in a second
    TTL,              \* config.ETCDTTL, which nothing validates
    DefaultTTL,       \* the TTL used when it is not positive
    MinLease,         \* the shortest lease etcd grants
    RegisterTimeout,  \* how long Register may take (rpc/server.go)
    MaxDelay,         \* longest a call runs after its method gave up on it
    MaxFaults         \* bound: errors before a deadline, and outages

ASSUME RegistryAssumption ==
    /\ TTL \in Int
    /\ {Second, DefaultTTL, MinLease, RegisterTimeout} \subseteq Nat \ {0}
    /\ {MaxDelay, MaxFaults} \subseteq Nat

Calls == {"grant", "add", "revoke", "delete"}

VARIABLES
    now,          \* elapsed time
    lease,        \* when the lease in etcd ends; 0: no lease
    endpoint,     \* the endpoint was put, under the lease
    call,         \* what became of each call
    drainBy,      \* calls nobody waits for have run or are lost by then
    registered,   \* Registry.registered
    kept,         \* the client keeps the lease alive
    lapsed,       \* it could not, for the length of a TTL
    registering,  \* where Register is; "abandoned": it returned an error, and did
                  \* not get its lease revoked
    registerBy,   \* its deadline
    leaving,      \* where Deregister is
    leaveBy,      \* its deadline
    missed,       \* Deregister came before Register, or after its deadline
    closed,       \* Close was called
    faults        \* calls that returned an error, and outages

etcdVars == <<lease, endpoint>>

registryVars == <<now, etcdVars, call, drainBy, registered, kept, lapsed, registering,
                  registerBy, leaving, leaveBy, missed, closed, faults>>

RegistryTypeOK ==
    /\ {now, lease, drainBy, registerBy, leaveBy, faults} \subseteq Nat
    /\ {endpoint, registered, kept, lapsed, missed, closed} \subseteq BOOLEAN
    /\ call \in [Calls -> {"unsent", "inflight", "ran", "lost"}]
    /\ registering \in {"idle", "locking", "grant", "add", "revoke", "returned",
                        "abandoned", "dead"}
    /\ leaving \in {"idle", "locking", "delete", "returned", "dead"}
    /\ call["add"] # "unsent" => call["grant"] = "ran"
    /\ call["delete"] # "unsent" => call["add"] = "ran"

RegistryInit ==
    /\ now = 0
    /\ lease = 0 /\ endpoint = FALSE
    /\ call = [k \in Calls |-> "unsent"] /\ drainBy = 0
    /\ registered = FALSE
    /\ kept = FALSE /\ lapsed = FALSE
    /\ registering = "idle" /\ registerBy = 0
    /\ leaving = "idle" /\ leaveBy = 0
    /\ missed = FALSE
    /\ closed = FALSE
    /\ faults = 0

Awaited(k) == k \in {registering, leaving}

-----------------------------------------------------------------------------
\* etcd.

\* Mutant: room is added for the time registration may take.
LongerTTL == TTL + RegisterTimeout

\* The time to live asked for.
AskedTTL == IF TTL <= 0 THEN DefaultTTL ELSE TTL

\* It is sent to etcd in seconds, without the fraction, which may leave nothing;
\* etcd grants no lease shorter than its minimum.
LeaseTTL ==
    LET whole == Second * (AskedTTL \div Second)
    IN  IF whole < MinLease THEN MinLease ELSE whole

LeaseLives == now < lease

Listed == endpoint /\ LeaseLives

EtcdRuns(k) ==
    /\ call[k] = "inflight"
    /\ k = "add" => LeaseLives
    /\ call' = [call EXCEPT ![k] = "ran"]
    /\ lease' = CASE k = "grant" -> now + LeaseTTL
                  [] k = "revoke" -> 0
                  [] OTHER -> lease
    /\ endpoint' = CASE k = "add" -> TRUE
                     [] k = "grant" -> endpoint
                     [] OTHER -> FALSE
    /\ UNCHANGED <<now, drainBy, registered, kept, lapsed, registering, registerBy,
                   leaving, leaveBy, missed, closed, faults>>

EtcdDrops(k) ==
    /\ call[k] = "inflight" /\ ~Awaited(k)
    /\ call' = [call EXCEPT ![k] = "lost"]
    /\ UNCHANGED <<now, etcdVars, drainBy, registered, kept, lapsed, registering,
                   registerBy, leaving, leaveBy, missed, closed, faults>>

\* The keep-alive loop of the client, or the last message it sent.
EtcdRenews ==
    /\ LeaseLives
    /\ kept \/ (call["grant"] = "ran" /\ now <= drainBy)
    /\ lease' = now + LeaseTTL
    /\ UNCHANGED <<now, endpoint, call, drainBy, registered, kept, lapsed, registering,
                   registerBy, leaving, leaveBy, missed, closed, faults>>

\* etcd is out of reach for so long that the client takes the lease for
\* expired; its keep-alive channel closes, and the goroutine that reads it ends.
KeepAliveEnds ==
    /\ kept /\ faults < MaxFaults
    /\ kept' = FALSE /\ lapsed' = TRUE
    /\ drainBy' = now + MaxDelay
    /\ faults' = faults + 1
    /\ UNCHANGED <<now, etcdVars, call, registered, registering, registerBy, leaving,
                   leaveBy, missed, closed>>

-----------------------------------------------------------------------------
\* A method and its calls.

MutexFree == registering \notin Calls /\ leaving \notin Calls

\* A call whose context has ended, or whose client is closed, is not sent.
CanCall(by) == now < by /\ ~closed

Send(k) == call' = [call EXCEPT ![k] = "inflight"]

\* The call that a method waits for by a deadline returns an error: etcd does
\* not know the lease, the client is closed, the deadline has passed, or
\* something else failed.  etcd may have run it, and may yet.
Errs(k, by) ==
    /\ closed \/ now >= by \/ (k = "add" /\ ~LeaseLives) \/ faults < MaxFaults
    /\ faults' = faults + 1
    /\ drainBy' = now + MaxDelay

-----------------------------------------------------------------------------
\* Register.  server.Start calls it in a goroutine, with a deadline.

\* Mutant: twice the time.
RegisterLonger ==
    /\ registering' = "locking"
    /\ registerBy' = now + 2 * RegisterTimeout

Register ==
    /\ registering' = "locking"
    /\ registerBy' = now + RegisterTimeout

RegisterLocks ==
    /\ registering = "locking" /\ MutexFree
    /\ IF CanCall(registerBy)
       THEN registering' = "grant" /\ Send("grant")
       ELSE registering' = "returned" /\ UNCHANGED call
    /\ UNCHANGED <<now, etcdVars, drainBy, registered, kept, lapsed, registerBy,
                   leaving, leaveBy, missed, closed, faults>>

\* KeepAlive starts a loop that lives until Close, and AddEndpoint is called; if
\* that is too late, so is Revoke.
GrantReturns ==
    /\ registering = "grant" /\ call["grant"] = "ran"
    /\ kept' = ~closed
    /\ IF CanCall(registerBy)
       THEN registering' = "add" /\ Send("add")
       ELSE registering' = "abandoned" /\ UNCHANGED call
    /\ UNCHANGED <<now, etcdVars, drainBy, registered, lapsed, registerBy, leaving,
                   leaveBy, missed, closed, faults>>

\* Mutant: an error does not end Register.
GrantErrsGoesOn ==
    /\ registering = "grant" /\ Errs("grant", registerBy)
    /\ registering' = "add" /\ Send("add")
    /\ UNCHANGED <<now, etcdVars, registered, kept, lapsed, registerBy, leaving,
                   leaveBy, missed, closed>>

\* Mutant: Grant is called without the deadline.
GrantErrsLater ==
    /\ registering = "grant" /\ now < registerBy /\ Errs("grant", registerBy)
    /\ registering' = "returned"
    /\ UNCHANGED <<now, etcdVars, call, registered, kept, lapsed, registerBy, leaving,
                   leaveBy, missed, closed>>

GrantErrs ==
    /\ registering = "grant" /\ Errs("grant", registerBy)
    /\ registering' = "returned"
    /\ UNCHANGED <<now, etcdVars, call, registered, kept, lapsed, registerBy, leaving,
                   leaveBy, missed, closed>>

\* Mutant: the registration is not remembered.
AddReturnsForgets ==
    /\ registering = "add" /\ call["add"] = "ran"
    /\ registering' = "returned"
    /\ UNCHANGED <<now, etcdVars, call, drainBy, registered, kept, lapsed, registerBy,
                   leaving, leaveBy, missed, closed, faults>>

\* Mutant: the lease is kept alive on the context of Register, which ends.
AddReturnsAndCancels ==
    /\ registering = "add" /\ call["add"] = "ran"
    /\ registering' = "returned" /\ registered' = TRUE
    /\ kept' = FALSE
    /\ UNCHANGED <<now, etcdVars, call, drainBy, lapsed, registerBy, leaving, leaveBy,
                   missed, closed, faults>>

AddReturns ==
    /\ registering = "add" /\ call["add"] = "ran"
    /\ registering' = "returned" /\ registered' = TRUE
    /\ UNCHANGED <<now, etcdVars, call, drainBy, kept, lapsed, registerBy, leaving,
                   leaveBy, missed, closed, faults>>

\* Mutant: the lease is left to the endpoint that may or may not be there.
AddErrsOnly ==
    /\ registering = "add" /\ Errs("add", registerBy)
    /\ registering' = "returned"
    /\ UNCHANGED <<now, etcdVars, call, registered, kept, lapsed, registerBy, leaving,
                   leaveBy, missed, closed>>

\* Revoke has the context of Register: after the deadline it is not sent.
AddErrs ==
    /\ registering = "add" /\ Errs("add", registerBy)
    /\ IF CanCall(registerBy)
       THEN registering' = "revoke" /\ Send("revoke")
       ELSE registering' = "abandoned" /\ UNCHANGED call
    /\ UNCHANGED <<now, etcdVars, registered, kept, lapsed, registerBy, leaving,
                   leaveBy, missed, closed>>

RevokeReturns ==
    /\ registering = "revoke"
    /\ \/ /\ call["revoke"] = "ran" /\ UNCHANGED <<drainBy, faults>>
          /\ registering' = "returned"
       \/ Errs("revoke", registerBy) /\ registering' = "abandoned"
    /\ UNCHANGED <<now, etcdVars, call, registered, kept, lapsed, registerBy, leaving,
                   leaveBy, missed, closed>>

RegisterStep ==
    \/ RegisterLocks \/ GrantReturns \/ GrantErrs \/ AddReturns \/ AddErrs
    \/ RevokeReturns

-----------------------------------------------------------------------------
\* Deregister and Close.  The wait for the mutex has no deadline.

Deregister(by) == leaving' = "locking" /\ leaveBy' = by

\* Mutant: it is not asked whether there is a registration.
DeregistersAnyway ==
    /\ leaving = "locking" /\ MutexFree
    /\ leaving' = "delete" /\ Send("delete")
    /\ UNCHANGED <<now, etcdVars, drainBy, registered, kept, lapsed, registering,
                   registerBy, leaveBy, missed, closed, faults>>

DeregisterLocks ==
    /\ leaving = "locking" /\ MutexFree
    /\ missed' = (registering = "locking" \/ ~CanCall(leaveBy))
    /\ IF registered /\ CanCall(leaveBy)
       THEN leaving' = "delete" /\ Send("delete") /\ UNCHANGED registered
       ELSE leaving' = "returned" /\ registered' = FALSE /\ UNCHANGED call
    /\ UNCHANGED <<now, etcdVars, drainBy, kept, lapsed, registering, registerBy,
                   leaveBy, closed, faults>>

\* The error of DeleteEndpoint is ignored, and the lease is not revoked.
DeleteReturns ==
    /\ leaving = "delete"
    /\ \/ call["delete"] = "ran" /\ UNCHANGED <<drainBy, faults>>
       \/ Errs("delete", leaveBy)
    /\ leaving' = "returned" /\ registered' = FALSE
    /\ UNCHANGED <<now, etcdVars, call, kept, lapsed, registering, registerBy, leaveBy,
                   missed, closed>>

DeregisterStep == DeregisterLocks \/ DeleteReturns

Close ==
    /\ closed' = TRUE
    /\ kept' = FALSE
    /\ drainBy' = now + MaxDelay
    /\ UNCHANGED <<now, etcdVars, call, registered, lapsed, registering, registerBy,
                   leaving, leaveBy, missed, faults>>

\* The process ends, and with it both methods and the keep-alive loop.
Dies ==
    /\ registering' = "dead" /\ registerBy' = 0
    /\ leaving' = "dead" /\ leaveBy' = 0
    /\ registered' = FALSE /\ kept' = FALSE /\ lapsed' = FALSE
    /\ drainBy' = now + MaxDelay
    /\ UNCHANGED <<now, etcdVars, call, missed, closed, faults>>

-----------------------------------------------------------------------------
\* Methods do not dawdle between calls nor wait for an answer past their
\* deadline; calls nobody waits for do not wander about for ever; and a
\* client that can reach etcd renews its lease in time.
TimeMayPass ==
    /\ "locking" \in {registering, leaving} => ~MutexFree
    /\ registering \in Calls => now < registerBy
    /\ leaving \in Calls => now < leaveBy
    /\ \A k \in Calls : call[k] = "inflight" /\ ~Awaited(k) => now < drainBy
    /\ kept /\ LeaseLives => now + 1 < lease

=============================================================================
