------------------------ MODULE GatewayProcessProofs ------------------------
(***************************************************************************)
(* Proofs about GatewayProcess, for every TTL, time-out and delay and any  *)
(* number of faults.  Numbers are proved apart from truth values, and main *)
(* apart from the registry: each kind of step disturbs few of them.        *)
(***************************************************************************)
EXTENDS GatewayProcess, TLAPS

\* A time cut to whole seconds is not lengthened.
LEMMA WholeSeconds ==
  ASSUME NEW d \in Nat
  PROVE  Second * (d \div Second) \in Nat /\ Second * (d \div Second) <= d
BY RegistryAssumption

\* etcd grants a lease, whatever TTL is configured, and none that is longer than
\* the TTL asked for or its own minimum.
LEMMA LeaseTTLBounds == LeaseTTL \in Nat \ {0} /\ LongestLease \in Nat /\ LeaseTTL <= LongestLease
<1> DEFINE whole == Second * (AskedTTL \div Second)
<1>1. AskedTTL \in Nat /\ MinLease \in Nat \ {0}
  BY RegistryAssumption DEF AskedTTL
<1>2. whole \in Nat /\ whole <= AskedTTL  BY <1>1, WholeSeconds
<1>3. LeaseTTL = IF whole < MinLease THEN MinLease ELSE whole  BY DEF LeaseTTL
<1> HIDE DEF whole
<1> QED  BY <1>1, <1>2, <1>3 DEF LongestLease

LEMMA LeaseTTLPositive == LeaseTTL \in Nat \ {0}
  BY LeaseTTLBounds

-----------------------------------------------------------------------------
\* Steps.

\* A step that leaves the registry alone.
MainStep ==
    /\ \/ SignalArrives \/ ReadsReport
       \/ \E p \in Parts : PartEnds(p) \/ PartStops(p)
       \/ HandlerStarts \/ HandlerEnds
       \/ StopsAccepting \/ GracefulStops \/ Stop \/ ForcedStops \/ ClosesData
    /\ UNCHANGED registryVars

\* The process ends: it fails to start, exits, or is killed.
EndStep(how, code) ==
    /\ ~Ended
    /\ how = "exited" /\ code = 0 => main = "exit" /\ ~failed
    /\ Vanishes(how, code)

EtcdStep ==
    \/ \E k \in Calls : EtcdRuns(k) \/ EtcdDrops(k)
    \/ EtcdRenews \/ KeepAliveEnds

LEMMA Steps ==
  ASSUME [Next]_vars
  PROVE  \/ UNCHANGED vars
         \/ MainStep
         \/ \E how \in {"exited", "killed"}, code \in {0, 1} : EndStep(how, code)
         \/ Start \/ HTTPStops \/ ClosesRegistry \/ Tick
         \/ (RegisterStep \/ DeregisterStep \/ EtcdStep) /\ UNCHANGED processVars
<1>1. InitializeFails \/ Exits \/ Killed =>
          \E how \in {"exited", "killed"}, code \in {0, 1} : EndStep(how, code)
  BY DEF InitializeFails, Exits, Killed, Ended, EndStep
<1>2. ASSUME SignalArrives \/ ReadsReport \/ (\E p \in Parts : PartEnds(p) \/ PartStops(p))
             \/ HandlerStarts \/ HandlerEnds \/ StopsAccepting \/ GracefulStops \/ Stop
             \/ ForcedStops \/ ClosesData
      PROVE  MainStep
  BY <1>2 DEF MainStep, SignalArrives, ReadsReport, BeginShutdown, PartEnds, PartStops,
              HandlerStarts, HandlerEnds, StopsAccepting, GracefulStops, Stop, ForcedStops,
              ClosesData
<1>3. RegistryStep => (RegisterStep \/ DeregisterStep \/ EtcdStep) /\ UNCHANGED processVars
  BY DEF RegistryStep, EtcdStep
<1> QED
  BY <1>1, <1>2, <1>3 DEF Next, ShutdownStep

-----------------------------------------------------------------------------
\* Types.

Numbers ==
    /\ now \in Nat /\ lease \in Nat /\ drainBy \in Nat /\ registerBy \in Nat
    /\ leaveBy \in Nat /\ faults \in Nat
    /\ deadline \in Nat /\ handler \in Nat /\ endedAt \in Nat
    /\ exitCode \in {0, 1}

Switches ==
    /\ endpoint \in BOOLEAN /\ registered \in BOOLEAN /\ kept \in BOOLEAN
    /\ lapsed \in BOOLEAN /\ missed \in BOOLEAN /\ closed \in BOOLEAN
    /\ redis \in BOOLEAN

Places ==
    /\ call \in [Calls -> {"unsent", "inflight", "ran", "lost"}]
    /\ registering \in {"idle", "locking", "grant", "add", "revoke", "returned",
                        "abandoned", "dead"}
    /\ leaving \in {"idle", "locking", "delete", "returned", "dead"}
    /\ main \in Stopping \cup {"init", "serving", "exited", "killed"}
    /\ part \in [Parts -> {"off", "running", "ended"}]

Errors == done \in Seq(BOOLEAN) /\ failed \in BOOLEAN

Types == Numbers /\ Switches /\ Places /\ Errors

LEMMA TypesInit == Init => Types
<1>1. Init => Numbers  BY DEF Init, RegistryInit, Numbers
<1>2. Init => Switches  BY DEF Init, RegistryInit, Switches
<1>3. Init => Places  BY DEF Init, RegistryInit, Places, Parts
<1>4. Init => done \in Seq(BOOLEAN)  BY DEF Init
<1>5. Init => failed \in BOOLEAN  BY DEF Init
<1> QED  BY <1>1, <1>2, <1>3, <1>4, <1>5 DEF Types, Errors

\* What each call does when etcd runs it.
LEMMA RunEffects ==
  ASSUME NEW k \in Calls, EtcdRuns(k)
  PROVE  /\ call[k] = "inflight" /\ call' = [call EXCEPT ![k] = "ran"]
         /\ UNCHANGED <<now, drainBy, registered, kept, lapsed, registering, registerBy,
                        leaving, leaveBy, missed, closed, faults>>
         /\ k = "grant" => lease' = now + LeaseTTL /\ endpoint' = endpoint
         /\ k = "add" => lease' = lease /\ endpoint' = TRUE /\ LeaseLives
         /\ k = "revoke" => lease' = 0 /\ endpoint' = FALSE
         /\ k = "delete" => lease' = lease /\ endpoint' = FALSE
  BY DEF EtcdRuns, Calls

LEMMA NumbersStep == Numbers /\ [Next]_vars => Numbers'
<1> SUFFICES ASSUME Numbers, [Next]_vars PROVE Numbers'
  OBVIOUS
<1> USE RegistryAssumption, ProcessAssumption, LeaseTTLPositive DEF Numbers
<1>1. CASE UNCHANGED vars
  BY <1>1 DEF vars, registryVars, etcdVars, processVars
<1>2. CASE MainStep
  <2>1. CASE SignalArrives \/ ReadsReport
    <3>1. deadline' = now + ShutdownTimeout
      BY <2>1 DEF SignalArrives, ReadsReport, BeginShutdown
    <3>2. UNCHANGED <<now, lease, drainBy, registerBy, leaveBy, faults, handler, endedAt,
                      exitCode>>
      BY <2>1 DEF SignalArrives, ReadsReport, BeginShutdown, registryVars, etcdVars
    <3> QED  BY <3>1, <3>2
  <2>2. CASE \E p \in Parts : PartEnds(p) \/ PartStops(p)
    BY <2>2 DEF PartEnds, PartStops, registryVars, etcdVars
  <2>3. CASE HandlerStarts \/ HandlerEnds
    BY <2>3 DEF HandlerStarts, HandlerEnds, registryVars, etcdVars
  <2>4. CASE StopsAccepting \/ GracefulStops \/ Stop \/ ForcedStops \/ ClosesData
    BY <2>4 DEF StopsAccepting, GracefulStops, Stop, ForcedStops, ClosesData, registryVars,
                etcdVars
  <2> QED  BY <1>2, <2>1, <2>2, <2>3, <2>4 DEF MainStep
<1>3. ASSUME NEW how \in {"exited", "killed"}, NEW code \in {0, 1}, EndStep(how, code)
      PROVE  Numbers'
  BY <1>3 DEF EndStep, Vanishes, Dies, etcdVars
<1>4. CASE Start \/ HTTPStops
  BY <1>4 DEF Start, Register, HTTPStops, Deregister, etcdVars
<1>5. CASE ClosesRegistry
  BY <1>5 DEF ClosesRegistry, Close, etcdVars
<1>6. CASE Tick
  BY <1>6 DEF Tick, etcdVars, processVars
<1>7. CASE RegisterStep /\ UNCHANGED processVars
  <2>1. CASE RegisterLocks \/ GrantReturns \/ AddReturns
    BY <1>7, <2>1 DEF RegisterLocks, GrantReturns, AddReturns, etcdVars, processVars
  <2>2. CASE GrantErrs \/ AddErrs \/ RevokeReturns
    BY <1>7, <2>2 DEF GrantErrs, AddErrs, RevokeReturns, Errs, etcdVars, processVars
  <2> QED
    BY <1>7, <2>1, <2>2 DEF RegisterStep
<1>8. CASE DeregisterStep /\ UNCHANGED processVars
  BY <1>8 DEF DeregisterStep, DeregisterLocks, DeleteReturns, Errs, etcdVars, processVars
<1>9. CASE EtcdStep /\ UNCHANGED processVars
  <2>1. ASSUME NEW k \in Calls, EtcdRuns(k)  PROVE Numbers'
    <3>1. lease' \in {now + LeaseTTL, 0, lease}
      BY <2>1, RunEffects DEF Calls
    <3>2. UNCHANGED <<now, drainBy, registerBy, leaveBy, faults>>
      BY <2>1, RunEffects
    <3> QED  BY <1>9, <3>1, <3>2 DEF processVars
  <2>2. ASSUME NEW k \in Calls, EtcdDrops(k)  PROVE Numbers'
    BY <1>9, <2>2 DEF EtcdDrops, etcdVars, processVars
  <2>3. CASE EtcdRenews \/ KeepAliveEnds
    BY <1>9, <2>3 DEF EtcdRenews, KeepAliveEnds, etcdVars, processVars
  <2> QED  BY <1>9, <2>1, <2>2, <2>3 DEF EtcdStep
<1> QED
  BY Steps, <1>1, <1>2, <1>3, <1>4, <1>5, <1>6, <1>7, <1>8, <1>9

LEMMA SwitchesStep == Switches /\ [Next]_vars => Switches'
<1> SUFFICES ASSUME Switches, [Next]_vars PROVE Switches'
  OBVIOUS
<1> USE DEF Switches
<1>1. CASE UNCHANGED vars
  BY <1>1 DEF vars, registryVars, etcdVars, processVars
<1>2. CASE MainStep
  <2>1. CASE SignalArrives \/ ReadsReport
    BY <2>1 DEF SignalArrives, ReadsReport, BeginShutdown, registryVars, etcdVars
  <2>2. CASE \E p \in Parts : PartEnds(p) \/ PartStops(p)
    BY <2>2 DEF PartEnds, PartStops, registryVars, etcdVars
  <2>3. CASE HandlerStarts \/ HandlerEnds
    BY <2>3 DEF HandlerStarts, HandlerEnds, registryVars, etcdVars
  <2>4. CASE StopsAccepting \/ GracefulStops
    BY <2>4 DEF StopsAccepting, GracefulStops, registryVars, etcdVars
  <2>5. CASE Stop \/ ForcedStops
    BY <2>5 DEF Stop, ForcedStops, registryVars, etcdVars
  <2>6. CASE ClosesData
    BY <2>6 DEF ClosesData, registryVars, etcdVars
  <2> QED  BY <1>2, <2>1, <2>2, <2>3, <2>4, <2>5, <2>6 DEF MainStep
<1>3. ASSUME NEW how \in {"exited", "killed"}, NEW code \in {0, 1}, EndStep(how, code)
      PROVE  Switches'
  BY <1>3 DEF EndStep, Vanishes, Dies, etcdVars
<1>4. CASE Start \/ HTTPStops
  BY <1>4 DEF Start, Register, HTTPStops, Deregister, etcdVars
<1>5. CASE ClosesRegistry
  BY <1>5 DEF ClosesRegistry, Close, etcdVars
<1>6. CASE Tick
  BY <1>6 DEF Tick, etcdVars, processVars
<1>7. CASE RegisterStep /\ UNCHANGED processVars
  BY <1>7 DEF RegisterStep, RegisterLocks, GrantReturns, AddReturns, GrantErrs, AddErrs,
              RevokeReturns, etcdVars, processVars
<1>8. CASE DeregisterStep /\ UNCHANGED processVars
  BY <1>8 DEF DeregisterStep, DeregisterLocks, DeleteReturns, etcdVars, processVars
<1>9. CASE EtcdStep /\ UNCHANGED processVars
  <2>1. ASSUME NEW k \in Calls, EtcdRuns(k)  PROVE Switches'
    BY <1>9, <2>1, RunEffects DEF Calls, processVars
  <2>2. CASE (\E k \in Calls : EtcdDrops(k)) \/ EtcdRenews \/ KeepAliveEnds
    BY <1>9, <2>2 DEF EtcdDrops, EtcdRenews, KeepAliveEnds, etcdVars, processVars
  <2> QED  BY <1>9, <2>1, <2>2 DEF EtcdStep
<1> QED
  BY Steps, <1>1, <1>2, <1>3, <1>4, <1>5, <1>6, <1>7, <1>8, <1>9

LEMMA PlacesStep == Places /\ [Next]_vars => Places'
<1> SUFFICES ASSUME Places, [Next]_vars PROVE Places'
  OBVIOUS
<1> USE DEF Places, Stopping, Calls
<1>1. CASE UNCHANGED vars
  BY <1>1 DEF vars, registryVars, etcdVars, processVars
<1>2. CASE MainStep
  <2>1. CASE SignalArrives \/ ReadsReport
    BY <2>1 DEF SignalArrives, ReadsReport, BeginShutdown, registryVars, etcdVars
  <2>2. CASE \E p \in Parts : PartEnds(p) \/ PartStops(p)
    <3> PICK p \in Parts : PartEnds(p) \/ PartStops(p)
      BY <2>2
    <3>1. part' = [part EXCEPT ![p] = "ended"]
      BY DEF PartEnds, PartStops
    <3>2. UNCHANGED <<call, registering, leaving, main>>
      BY DEF PartEnds, PartStops, registryVars
    <3> QED  BY <3>1, <3>2
  <2>3. CASE HandlerStarts \/ HandlerEnds
    BY <2>3 DEF HandlerStarts, HandlerEnds, registryVars, etcdVars
  <2>4. CASE StopsAccepting \/ GracefulStops \/ Stop \/ ForcedStops \/ ClosesData
    <3>1. UNCHANGED <<call, registering, leaving, part>>
      BY <2>4 DEF StopsAccepting, GracefulStops, Stop, ForcedStops, ClosesData, registryVars
    <3>2. main' \in Stopping
      BY <2>4 DEF StopsAccepting, GracefulStops, Stop, ForcedStops, ClosesData
    <3> QED  BY <3>1, <3>2
  <2> QED  BY <1>2, <2>1, <2>2, <2>3, <2>4 DEF MainStep
<1>3. ASSUME NEW how \in {"exited", "killed"}, NEW code \in {0, 1}, EndStep(how, code)
      PROVE  Places'
  BY <1>3 DEF EndStep, Vanishes, Dies, etcdVars
<1>4. CASE Start \/ HTTPStops
  BY <1>4 DEF Start, Register, HTTPStops, Deregister, etcdVars
<1>5. CASE ClosesRegistry
  BY <1>5 DEF ClosesRegistry, Close, etcdVars
<1>6. CASE Tick
  BY <1>6 DEF Tick, etcdVars, processVars
<1>7. CASE RegisterStep /\ UNCHANGED processVars
  <2>1. CASE RegisterLocks \/ GrantReturns \/ AddReturns
    BY <1>7, <2>1 DEF RegisterLocks, GrantReturns, AddReturns, Send, etcdVars, processVars
  <2>2. CASE GrantErrs \/ AddErrs \/ RevokeReturns
    BY <1>7, <2>2 DEF GrantErrs, AddErrs, RevokeReturns, Send, etcdVars, processVars
  <2> QED
    BY <1>7, <2>1, <2>2 DEF RegisterStep
<1>8. CASE DeregisterStep /\ UNCHANGED processVars
  BY <1>8 DEF DeregisterStep, DeregisterLocks, DeleteReturns, Send, etcdVars, processVars
<1>9. CASE EtcdStep /\ UNCHANGED processVars
  <2>1. ASSUME NEW k \in Calls, EtcdRuns(k)  PROVE Places'
    <3>1. call' = [call EXCEPT ![k] = "ran"] /\ UNCHANGED <<registering, leaving>>
      BY <2>1, RunEffects
    <3>2. UNCHANGED <<main, part>>
      BY <1>9 DEF processVars
    <3> QED  BY <3>1, <3>2
  <2>2. ASSUME NEW k \in Calls, EtcdDrops(k)  PROVE Places'
    BY <1>9, <2>2 DEF EtcdDrops, processVars
  <2>3. CASE EtcdRenews \/ KeepAliveEnds
    BY <1>9, <2>3 DEF EtcdRenews, KeepAliveEnds, processVars
  <2> QED  BY <1>9, <2>1, <2>2, <2>3 DEF EtcdStep
<1> QED
  BY Steps, <1>1, <1>2, <1>3, <1>4, <1>5, <1>6, <1>7, <1>8, <1>9

\* A report at the end of the channel, or one taken from its front.
LEMMA Reporting ==
  ASSUME done \in Seq(BOOLEAN)
  PROVE  /\ \A e \in BOOLEAN : Append(done, e) \in Seq(BOOLEAN)
         /\ done # <<>> => Head(done) \in BOOLEAN /\ Tail(done) \in Seq(BOOLEAN)
  OBVIOUS

LEMMA ErrorsStep == Errors /\ [Next]_vars => Errors'
<1> SUFFICES ASSUME Errors, [Next]_vars PROVE Errors'
  OBVIOUS
<1>a. done \in Seq(BOOLEAN)  BY DEF Errors
<1> USE DEF Errors
<1>1. CASE UNCHANGED vars
  BY <1>1 DEF vars, processVars
<1>2. CASE MainStep
  <2>1. CASE SignalArrives \/ ReadsReport
    BY <1>a, <2>1, Reporting DEF SignalArrives, ReadsReport
  <2>2. CASE \E p \in Parts : PartEnds(p) \/ PartStops(p)
    <3>1. UNCHANGED failed
      BY <2>2 DEF PartEnds, PartStops
    <3>2. done' = done \/ \E e \in BOOLEAN : done' = Append(done, e)
      BY <2>2 DEF PartEnds, PartStops, Reports
    <3> QED  BY <1>a, <3>1, <3>2, Reporting
  <2>3. CASE HandlerStarts \/ HandlerEnds
    BY <2>3 DEF HandlerStarts, HandlerEnds
  <2>4. CASE StopsAccepting \/ GracefulStops \/ Stop \/ ForcedStops \/ ClosesData
    BY <2>4 DEF StopsAccepting, GracefulStops, Stop, ForcedStops, ClosesData
  <2> QED  BY <1>2, <2>1, <2>2, <2>3, <2>4 DEF MainStep
<1>3. ASSUME NEW how \in {"exited", "killed"}, NEW code \in {0, 1}, EndStep(how, code)
      PROVE  Errors'
  <2>1. <<>> \in Seq(BOOLEAN)  OBVIOUS
  <2> QED  BY <1>3, <2>1 DEF EndStep, Vanishes
<1>4. CASE Start \/ HTTPStops
  BY <1>4 DEF Start, HTTPStops
<1>5. CASE ClosesRegistry
  BY <1>5 DEF ClosesRegistry
<1>6. CASE Tick
  BY <1>6 DEF Tick, processVars
<1>7. CASE UNCHANGED processVars
  BY <1>7 DEF processVars
<1> QED
  BY Steps, <1>1, <1>2, <1>3, <1>4, <1>5, <1>6, <1>7

LEMMA TypesStep == Types /\ [Next]_vars => Types'
  BY NumbersStep, SwitchesStep, PlacesStep, ErrorsStep DEF Types

-----------------------------------------------------------------------------
\* The course of main.

\* How far the methods of the registry are, given where main is, and what is
\* open then.
Course ==
    /\ main = "init" <=> registering = "idle"
    /\ Ended <=> registering = "dead"
    /\ Ended <=> leaving = "dead"
    /\ main \in {"init", "serving", "http"} <=> leaving = "idle"
    /\ leaving \in {"locking", "delete"} => main = "deregister"
    /\ closed => main \in {"data", "exit", "exited", "killed"}
    /\ main \in {"serving", "http", "deregister", "graceful", "forced"} => redis
    /\ main \in {"init", "close", "data", "exit", "exited", "killed"} => handler = 0
    /\ Ended => ~kept

LEMMA CourseInit == Init => Course
  BY DEF Init, RegistryInit, Course, Ended

LEMMA CourseStep == Types /\ Course /\ [Next]_vars => Course'
<1> SUFFICES ASSUME Places, Course, [Next]_vars PROVE Course'
  BY DEF Types
<1> USE DEF Places, Course, Ended, Stopping
<1>1. CASE UNCHANGED vars
  BY <1>1 DEF vars, registryVars, etcdVars, processVars
<1>2. CASE MainStep
  <2> USE <1>2 DEF MainStep, registryVars, etcdVars
  <2>1. CASE SignalArrives \/ ReadsReport
    BY <2>1 DEF SignalArrives, ReadsReport, BeginShutdown
  <2>2. CASE \E p \in Parts : PartEnds(p) \/ PartStops(p)
    <3>1. UNCHANGED <<main, handler, redis>>
      BY <2>2 DEF PartEnds, PartStops
    <3> QED  BY <3>1
  <2>3. CASE HandlerStarts \/ HandlerEnds
    BY <2>3 DEF HandlerStarts, HandlerEnds
  <2>4. CASE StopsAccepting \/ GracefulStops \/ Stop \/ ForcedStops \/ ClosesData
    BY <2>4 DEF StopsAccepting, GracefulStops, Stop, ForcedStops, ClosesData
  <2> QED  BY <1>2, <2>1, <2>2, <2>3, <2>4
<1>3. ASSUME NEW how \in {"exited", "killed"}, NEW code \in {0, 1}, EndStep(how, code)
      PROVE  Course'
  BY <1>3 DEF EndStep, Vanishes, Dies
<1>4. CASE Start \/ HTTPStops
  BY <1>4 DEF Start, Register, HTTPStops, Deregister
<1>5. CASE ClosesRegistry
  BY <1>5 DEF ClosesRegistry, Close
<1>6. CASE Tick
  BY <1>6 DEF Tick, processVars
<1>7. CASE RegisterStep /\ UNCHANGED processVars
  <2> USE <1>7 DEF processVars
  <2>1. CASE RegisterLocks \/ GrantErrs \/ AddReturns \/ AddErrs \/ RevokeReturns
    BY <2>1 DEF RegisterLocks, GrantErrs, AddReturns, AddErrs, RevokeReturns
  <2>2. CASE GrantReturns
    BY <2>2 DEF GrantReturns
  <2> QED  BY <1>7, <2>1, <2>2 DEF RegisterStep
<1>8. CASE DeregisterStep /\ UNCHANGED processVars
  BY <1>8 DEF DeregisterStep, DeregisterLocks, DeleteReturns, processVars
<1>9. CASE EtcdStep /\ UNCHANGED processVars
  <2>1. ASSUME NEW k \in Calls, EtcdRuns(k)  PROVE Course'
    BY <1>9, <2>1, RunEffects DEF processVars
  <2>2. CASE (\E k \in Calls : EtcdDrops(k)) \/ EtcdRenews \/ KeepAliveEnds
    BY <1>9, <2>2 DEF EtcdDrops, EtcdRenews, KeepAliveEnds, processVars
  <2> QED  BY <1>9, <2>1, <2>2 DEF EtcdStep
<1> QED
  BY Steps, <1>1, <1>2, <1>3, <1>4, <1>5, <1>6, <1>7, <1>8, <1>9

-----------------------------------------------------------------------------
\* The order of the calls to etcd.

\* What has been sent, and what is known, at each point of Register and
\* Deregister.
Order ==
    /\ registering \in {"idle", "locking"} => call["grant"] = "unsent"
    /\ registering \in {"idle", "locking", "grant"} => call["add"] = "unsent"
    /\ registering = "add" => call["add"] # "unsent"
    /\ registering \in {"idle", "locking", "grant", "add"} => call["revoke"] = "unsent"
    /\ registered => registering = "returned" /\ call["add"] = "ran"
                     /\ call["revoke"] = "unsent"
    /\ call["add"] # "unsent" => call["grant"] = "ran"
    /\ call["revoke"] # "unsent" => call["grant"] = "ran"
    /\ leaving \in {"idle", "locking"} => call["delete"] = "unsent"
    /\ call["delete"] # "unsent" => call["add"] = "ran"
    /\ endpoint => call["add"] = "ran"
    /\ call["delete"] = "ran" => ~endpoint

LEMMA OrderInit == Init => Order
  BY DEF Init, RegistryInit, Order, Calls

LEMMA OrderStep == Types /\ Course /\ Order /\ [Next]_vars => Order'
<1> SUFFICES ASSUME Places, Course, Order, [Next]_vars PROVE Order'
  BY DEF Types
<1> USE DEF Places, Order, Calls
<1>1. CASE UNCHANGED vars \/ MainStep
  BY <1>1 DEF vars, MainStep, registryVars, etcdVars
<1>2. ASSUME NEW how \in {"exited", "killed"}, NEW code \in {0, 1}, EndStep(how, code)
      PROVE  Order'
  BY <1>2 DEF EndStep, Vanishes, Dies, etcdVars
<1>3. CASE Start \/ HTTPStops
  BY <1>3 DEF Course, Start, Register, HTTPStops, Deregister, etcdVars
<1>4. CASE ClosesRegistry
  BY <1>4 DEF ClosesRegistry, Close, etcdVars
<1>5. CASE Tick
  BY <1>5 DEF Tick, etcdVars
<1>6. CASE RegisterStep
  <2>1. CASE RegisterLocks
    BY <2>1 DEF RegisterLocks, Send, etcdVars
  <2>2. CASE GrantReturns
    BY <2>2 DEF GrantReturns, Send, etcdVars
  <2>3. CASE GrantErrs \/ RevokeReturns
    BY <2>3 DEF GrantErrs, RevokeReturns, etcdVars
  <2>4. CASE AddReturns
    BY <2>4 DEF AddReturns, etcdVars
  <2>5. CASE AddErrs
    BY <2>5 DEF AddErrs, Send, etcdVars
  <2> QED  BY <1>6, <2>1, <2>2, <2>3, <2>4, <2>5 DEF RegisterStep
<1>7. CASE DeregisterStep
  <2>1. CASE DeregisterLocks
    BY <2>1 DEF DeregisterLocks, Send, etcdVars
  <2>2. CASE DeleteReturns
    BY <2>2 DEF DeleteReturns, etcdVars
  <2> QED  BY <1>7, <2>1, <2>2 DEF DeregisterStep
<1>8. CASE EtcdStep
  <2>1. ASSUME NEW k \in Calls, EtcdRuns(k)  PROVE Order'
    BY <2>1, RunEffects
  <2>2. ASSUME NEW k \in Calls, EtcdDrops(k)  PROVE Order'
    BY <2>2 DEF EtcdDrops, etcdVars
  <2>3. CASE EtcdRenews \/ KeepAliveEnds
    BY <2>3 DEF EtcdRenews, KeepAliveEnds, etcdVars
  <2> QED  BY <1>8, <2>1, <2>2, <2>3 DEF EtcdStep
<1> QED
  BY Steps, <1>1, <1>2, <1>3, <1>4, <1>5, <1>6, <1>7, <1>8

LEMMA TypesSuffice == Types /\ Order => TypeOK
  BY DEF Types, Numbers, Switches, Places, Errors, Order, TypeOK, RegistryTypeOK

-----------------------------------------------------------------------------
\* Reports.

\* A part has ended for every report in the channel.
HasEnded(p) == IF part[p] = "ended" THEN 1 ELSE 0

OneReportEach ==
    /\ main = "init" => done = <<>>
    /\ Len(done) <= HasEnded("push") + HasEnded("http") + HasEnded("grpc")

LEMMA OneReportEachInit == Init => OneReportEach
<1> SUFFICES ASSUME Init PROVE OneReportEach
  OBVIOUS
<1>1. done = <<>> /\ Len(<<>>) = 0 /\ \A p \in Parts : HasEnded(p) = 0
  BY DEF Init, HasEnded
<1> QED  BY <1>1 DEF OneReportEach, Parts

LEMMA OneReportEachStep == Types /\ Course /\ OneReportEach /\ [Next]_vars => OneReportEach'
<1> SUFFICES ASSUME Places, Errors, Course, OneReportEach, [Next]_vars PROVE OneReportEach'
  BY DEF Types
<1>a. done \in Seq(BOOLEAN) /\ Len(done) \in Nat  BY DEF Errors
<1> USE DEF OneReportEach, HasEnded
<1>1. CASE UNCHANGED <<done, part>> /\ (main' = "init" => main = "init")
  BY <1>1
<1>2. CASE UNCHANGED vars \/ HTTPStops \/ ClosesRegistry \/ Tick \/ UNCHANGED processVars
  BY <1>1, <1>2 DEF vars, processVars, HTTPStops, ClosesRegistry, Tick
<1>3. CASE SignalArrives
  BY <1>1, <1>3 DEF SignalArrives, BeginShutdown
<1>4. CASE ReadsReport
  <2>1. Len(done') = Len(done) - 1 /\ UNCHANGED part /\ main' = "http"
    BY <1>4, <1>a DEF ReadsReport, BeginShutdown
  <2> QED  BY <2>1, <1>a
<1>5. ASSUME NEW p \in Parts, PartEnds(p) \/ PartStops(p)
      PROVE  OneReportEach'
  <2>0. main # "init" /\ UNCHANGED main
    BY <1>5 DEF PartEnds, PartStops, Stopping
  <2>1. part[p] = "running" /\ part' = [part EXCEPT ![p] = "ended"]
    BY <1>5 DEF PartEnds, PartStops
  <2>2. done' = done \/ \E e \in BOOLEAN : done' = Append(done, e)
    BY <1>5 DEF PartEnds, PartStops, Reports
  <2>3. Len(done') <= Len(done) + 1 /\ Len(done') \in Nat
    BY <2>2, <1>a
  <2> QED  BY <2>0, <2>1, <2>3, <1>a DEF Places, Parts
<1>6. CASE HandlerStarts \/ HandlerEnds \/ StopsAccepting \/ GracefulStops \/ Stop
           \/ ForcedStops \/ ClosesData
  BY <1>1, <1>6 DEF HandlerStarts, HandlerEnds, StopsAccepting, GracefulStops, Stop,
                    ForcedStops, ClosesData
<1>7. CASE Start
  <2>1. main' = "serving" /\ done' = <<>> /\ Len(<<>>) = 0 /\ \A p \in Parts : HasEnded(p)' = 0
    BY <1>7 DEF Start
  <2> QED  BY <2>1 DEF Parts
<1>8. ASSUME NEW how \in {"exited", "killed"}, NEW code \in {0, 1}, EndStep(how, code)
      PROVE  OneReportEach'
  <2>1. done' = <<>> /\ Len(<<>>) = 0 /\ \A p \in Parts : HasEnded(p)' = 0
    BY <1>8 DEF EndStep, Vanishes
  <2> QED  BY <2>1 DEF Parts
<1> QED
  BY Steps, <1>1, <1>2, <1>3, <1>4, <1>5, <1>6, <1>7, <1>8 DEF MainStep

-----------------------------------------------------------------------------
\* The endpoint that Register has put.

\* Once etcd has put the endpoint for a Register that has not given up, and
\* until Deregister has the mutex, the lease is alive and is kept alive.
Listing ==
    /\ registering = "add" /\ ~lapsed /\ ~closed => kept
    /\ /\ registered \/ (registering = "add" /\ call["add"] = "ran")
       /\ leaving \in {"idle", "locking"}
       /\ ~lapsed
       => endpoint /\ now < lease /\ kept

LEMMA ListingInit == Init => Listing
  BY DEF Init, RegistryInit, Listing

LEMMA ListingStep == Types /\ Course /\ Order /\ Listing /\ [Next]_vars => Listing'
<1> SUFFICES ASSUME Numbers, Places, Course, Order, Listing, [Next]_vars PROVE Listing'
  BY DEF Types
<1>a. now \in Nat /\ lease \in Nat  BY DEF Numbers
<1>b. leaving \in {"idle", "locking"} => ~closed  BY DEF Course
<1> USE DEF Listing
<1>1. CASE UNCHANGED vars \/ MainStep
  BY <1>1 DEF vars, MainStep, registryVars, etcdVars
<1>2. ASSUME NEW how \in {"exited", "killed"}, NEW code \in {0, 1}, EndStep(how, code)
      PROVE  Listing'
  BY <1>2 DEF EndStep, Vanishes, Dies
<1>3. CASE Start
  BY <1>3 DEF Course, Order, Start, Register, etcdVars
<1>4. CASE HTTPStops
  BY <1>4 DEF Course, HTTPStops, Deregister, etcdVars
<1>5. CASE ClosesRegistry
  BY <1>5 DEF Course, ClosesRegistry, Close, etcdVars
<1>6. CASE Tick
  BY <1>6, <1>a DEF Tick, TimeMayPass, LeaseLives, etcdVars
<1>7. CASE RegisterStep
  <2>1. CASE RegisterLocks
    BY <2>1 DEF Order, RegisterLocks, etcdVars
  <2>2. CASE GrantReturns
    <3>1. ~closed => kept'  BY <2>2 DEF GrantReturns
    <3>2. ~registered' /\ call'["add"] # "ran" /\ UNCHANGED closed
      BY <2>2 DEF Order, Places, Calls, GrantReturns, Send
    <3> QED  BY <3>1, <3>2
  <2>3. CASE GrantErrs \/ RevokeReturns
    BY <2>3 DEF Order, GrantErrs, RevokeReturns, etcdVars
  <2>4. CASE AddReturns
    BY <2>4 DEF AddReturns, etcdVars
  <2>5. CASE AddErrs
    BY <2>5 DEF Order, AddErrs, etcdVars
  <2> QED  BY <1>7, <2>1, <2>2, <2>3, <2>4, <2>5 DEF RegisterStep
<1>8. CASE DeregisterStep
  BY <1>8 DEF DeregisterStep, DeregisterLocks, DeleteReturns, MutexFree, Calls, etcdVars
<1>9. CASE EtcdStep
  <2>1. ASSUME NEW k \in Calls, EtcdRuns(k)  PROVE Listing'
    <3>1. CASE k = "add"
      BY <1>b, <2>1, <3>1, RunEffects DEF Order, LeaseLives, Places
    <3>2. CASE k # "add"
      <4>1. call'["add"] = call["add"]
            /\ UNCHANGED <<now, registered, kept, lapsed, registering, leaving, closed>>
        BY <2>1, <3>2, RunEffects DEF Places, Calls
      <4>2. ASSUME registered \/ (registering = "add" /\ call["add"] = "ran"),
                   leaving \in {"idle", "locking"}
            PROVE  FALSE
        BY <2>1, <3>2, <4>2, RunEffects DEF Order, Calls
      <4> QED  BY <4>1, <4>2
    <3> QED  BY <3>1, <3>2
  <2>2. ASSUME NEW k \in Calls, EtcdDrops(k)  PROVE Listing'
    BY <2>2 DEF EtcdDrops, Places, etcdVars
  <2>3. CASE EtcdRenews
    BY <1>a, <2>3, LeaseTTLPositive DEF EtcdRenews
  <2>4. CASE KeepAliveEnds
    BY <2>4 DEF KeepAliveEnds, etcdVars
  <2> QED  BY <1>9, <2>1, <2>2, <2>3, <2>4 DEF EtcdStep
<1> QED
  BY Steps, <1>1, <1>2, <1>3, <1>4, <1>5, <1>6, <1>7, <1>8, <1>9

-----------------------------------------------------------------------------
\* The time a shutdown takes.

\* At every stop of Shutdown, by when it is left at the latest.
Punctual ==
    /\ main = "serving" => /\ registerBy <= now + RegisterTimeout
                           /\ handler <= now + HandlerTime
    /\ main \in Stopping =>
           /\ registerBy <= deadline - ShutdownTimeout + RegisterTimeout
           /\ handler <= deadline + HandlerTime \/ handler <= registerBy + HandlerTime
           /\ now <= deadline + HandlerTime \/ now <= registerBy + HandlerTime
    /\ main = "http" => now <= deadline
    /\ main = "deregister" => leaveBy = deadline
    /\ main \in {"deregister", "graceful"} => now <= deadline \/ now <= registerBy

LEMMA PunctualInit == Init => Punctual
  BY DEF Init, Punctual, Stopping

LEMMA PunctualStep == Types /\ Course /\ Punctual /\ [Next]_vars => Punctual'
<1> SUFFICES ASSUME Numbers, Places, Course, Punctual, [Next]_vars PROVE Punctual'
  BY DEF Types
<1> USE RegistryAssumption, ProcessAssumption DEF Numbers, Punctual, Stopping
<1>1. CASE UNCHANGED <<now, registerBy, main, deadline, handler, leaveBy>>
  BY <1>1
<1>2. CASE UNCHANGED vars \/ ClosesData
  BY <1>1, <1>2 DEF vars, registryVars, processVars, ClosesData
<1>3. CASE MainStep
  <2> USE <1>3 DEF MainStep, registryVars
  <2>1. CASE SignalArrives \/ ReadsReport
    <3>1. main = "serving" /\ main' = "http" /\ deadline' = now + ShutdownTimeout
      BY <2>1 DEF SignalArrives, ReadsReport, BeginShutdown
    <3>2. UNCHANGED handler
      BY <2>1 DEF SignalArrives, ReadsReport, BeginShutdown
    <3> QED  BY <3>1, <3>2
  <2>2. CASE \E p \in Parts : PartEnds(p) \/ PartStops(p)
    <3>1. UNCHANGED <<main, deadline, handler>>
      BY <2>2 DEF PartEnds, PartStops
    <3> QED  BY <1>1, <3>1
  <2>3. CASE HandlerStarts
    BY <2>3 DEF HandlerStarts
  <2>4. CASE HandlerEnds
    BY <2>4 DEF HandlerEnds
  <2>5. CASE StopsAccepting \/ GracefulStops \/ Stop \/ ForcedStops \/ ClosesData
    BY <2>5 DEF StopsAccepting, GracefulStops, Stop, ForcedStops, ClosesData
  <2> QED  BY <1>3, <2>1, <2>2, <2>3, <2>4, <2>5
<1>4. ASSUME NEW how \in {"exited", "killed"}, NEW code \in {0, 1}, EndStep(how, code)
      PROVE  Punctual'
  BY <1>4 DEF EndStep, Vanishes
<1>5. CASE Start
  BY <1>5 DEF Course, Start, Register
<1>6. CASE HTTPStops
  BY <1>6 DEF HTTPStops, Deregister
<1>7. CASE ClosesRegistry
  BY <1>7 DEF ClosesRegistry, Close
<1>8. CASE Tick
  <2>a. now' = now + 1 /\ UNCHANGED <<registerBy, main, deadline, handler, leaveBy>>
    BY <1>8 DEF Tick, processVars
  <2>b. handler # 0 => now < handler
    BY <1>8 DEF Tick
  <2>1. CASE main = "deregister"
    <3>1. leaving = "locking" => registering \in Calls
      BY <1>8 DEF Tick, TimeMayPass, MutexFree, Calls
    <3>2. leaving \in {"locking", "delete"}
      BY <1>8, <2>1 DEF Tick, Course, Places, Ended
    <3>3. now < registerBy \/ now < leaveBy
      BY <1>8, <3>1, <3>2 DEF Tick, TimeMayPass, Calls
    <3> QED  BY <2>a, <2>b, <2>1, <3>3
  <2>2. CASE main \in {"serving", "exited", "killed"}
    BY <2>a, <2>b, <2>2
  <2>3. CASE main \in {"http", "graceful"}
    <3>1. now < deadline
      BY <1>8, <2>3 DEF Tick
    <3> QED  BY <2>a, <2>b, <2>3, <3>1
  <2>4. CASE main = "forced"
    <3>1. handler # 0
      BY <1>8, <2>4 DEF Tick
    <3> QED  BY <2>a, <2>b, <2>4, <3>1
  <2>5. main \in {"serving", "exited", "killed", "deregister", "http", "graceful", "forced"}
    BY <1>8 DEF Tick
  <2> QED  BY <2>1, <2>2, <2>3, <2>4, <2>5
<1>9. CASE (RegisterStep \/ DeregisterStep \/ EtcdStep) /\ UNCHANGED processVars
  <2>1. UNCHANGED <<now, registerBy, leaveBy>>
    <3>1. ASSUME NEW k \in Calls, EtcdRuns(k)  PROVE UNCHANGED <<now, registerBy, leaveBy>>
      BY <3>1, RunEffects
    <3> QED
      BY <1>9, <3>1 DEF RegisterStep, RegisterLocks, GrantReturns, GrantErrs, AddReturns,
          AddErrs, RevokeReturns, DeregisterStep, DeregisterLocks, DeleteReturns, EtcdStep,
          EtcdDrops, EtcdRenews, KeepAliveEnds
  <2> QED  BY <1>1, <1>9, <2>1 DEF processVars
<1> QED
  BY Steps, <1>2, <1>3, <1>4, <1>5, <1>6, <1>7, <1>8, <1>9

LEMMA PunctualSuffices == Types /\ Punctual => ShutdownInTime
  BY RegistryAssumption, ProcessAssumption DEF Types, Numbers, Punctual, ShutdownInTime

-----------------------------------------------------------------------------
\* What failures leave behind.

\* A revoked lease is gone, and Revoke is called after a failure.
Revoking ==
    /\ call["revoke"] = "ran" => lease = 0
    /\ registering = "revoke" => faults >= 1

\* A Register that has returned was remembered, or put nothing, or failed; and
\* if it failed and its lease is not abandoned, it put nothing or revoked it.
Remembered ==
    /\ /\ registering \in {"returned", "abandoned"}
       /\ leaving \in {"idle", "locking", "delete"} /\ faults = 0
       => registered \/ call["add"] = "unsent"
    /\ registering = "returned" /\ ~registered /\ leaving \in {"idle", "locking"}
       => call["add"] = "unsent" \/ call["revoke"] = "ran"

\* A Deregister that has returned, in time and with no failure, has deleted
\* what was put; and it had to for an exit with 0.
Undone ==
    faults = 0 /\ ~missed =>
        /\ leaving = "returned" => \/ /\ registering \in {"returned", "abandoned"}
                                      /\ call["add"] = "unsent"
                                   \/ call["delete"] = "ran"
        /\ main = "exited" /\ exitCode = 0 => call["add"] = "unsent" \/ call["delete"] = "ran"

LEMMA FailuresInit == Init => Revoking /\ Remembered /\ Undone
  BY DEF Init, RegistryInit, Revoking, Remembered, Undone, Calls

LEMMA RevokingStep == Types /\ Order /\ Revoking /\ [Next]_vars => Revoking'
<1> SUFFICES ASSUME Numbers, Places, Order, Revoking, [Next]_vars PROVE Revoking'
  BY DEF Types
<1>a. now \in Nat /\ lease \in Nat /\ faults \in Nat  BY DEF Numbers
<1> USE DEF Revoking
<1>1. CASE UNCHANGED vars \/ MainStep
  BY <1>1 DEF vars, MainStep, registryVars, etcdVars
<1>2. ASSUME NEW how \in {"exited", "killed"}, NEW code \in {0, 1}, EndStep(how, code)
      PROVE  Revoking'
  BY <1>2 DEF EndStep, Vanishes, Dies, etcdVars
<1>3. CASE Start \/ HTTPStops \/ ClosesRegistry \/ Tick
  BY <1>3 DEF Start, Register, HTTPStops, Deregister, ClosesRegistry, Close, Tick, etcdVars
<1>4. CASE RegisterStep
  <2>1. CASE RegisterLocks \/ GrantReturns
    BY <2>1 DEF Places, Calls, RegisterLocks, GrantReturns, Send, etcdVars
  <2>2. CASE GrantErrs \/ AddReturns
    BY <1>a, <2>2 DEF GrantErrs, AddReturns, Errs, etcdVars
  <2>3. CASE AddErrs
    <3>1. faults' >= 1 /\ UNCHANGED lease
      BY <1>a, <2>3 DEF AddErrs, Errs, etcdVars
    <3>2. call'["revoke"] # "ran"
      BY <2>3 DEF Order, Places, Calls, AddErrs, Send
    <3> QED  BY <3>1, <3>2
  <2>4. CASE RevokeReturns
    BY <2>4 DEF RevokeReturns, etcdVars
  <2> QED  BY <1>4, <2>1, <2>2, <2>3, <2>4 DEF RegisterStep
<1>5. CASE DeregisterStep
  <2>1. call'["revoke"] = call["revoke"] /\ UNCHANGED <<lease, registering>>
    BY <1>5 DEF DeregisterStep, DeregisterLocks, DeleteReturns, Send, Places, Calls, etcdVars
  <2>2. faults' >= faults
    BY <1>5, <1>a DEF DeregisterStep, DeregisterLocks, DeleteReturns, Errs
  <2>3. faults' \in Nat
    BY <1>5, <1>a DEF DeregisterStep, DeregisterLocks, DeleteReturns, Errs
  <2> QED  BY <2>1, <2>2, <2>3, <1>a
<1>6. CASE EtcdStep
  <2>1. ASSUME NEW k \in Calls, EtcdRuns(k)  PROVE Revoking'
    <3>1. UNCHANGED <<registering, faults>>  BY <2>1, RunEffects
    <3>2. call'["revoke"] = "ran" => lease' = 0
      BY <2>1, RunEffects DEF Order, Places, Calls
    <3> QED  BY <3>1, <3>2
  <2>2. ASSUME NEW k \in Calls, EtcdDrops(k)  PROVE Revoking'
    BY <2>2 DEF EtcdDrops, Places, etcdVars
  <2>3. CASE EtcdRenews
    BY <1>a, <2>3 DEF EtcdRenews, LeaseLives
  <2>4. CASE KeepAliveEnds
    BY <1>a, <2>4 DEF KeepAliveEnds, etcdVars
  <2> QED  BY <1>6, <2>1, <2>2, <2>3, <2>4 DEF EtcdStep
<1> QED
  BY Steps, <1>1, <1>2, <1>3, <1>4, <1>5, <1>6

LEMMA RememberedStep ==
  Types /\ Course /\ Order /\ Revoking /\ Remembered /\ [Next]_vars => Remembered'
<1> SUFFICES ASSUME Numbers, Places, Course, Order, Revoking, Remembered, [Next]_vars
             PROVE Remembered'
  BY DEF Types
<1>a. now \in Nat /\ registerBy \in Nat /\ faults \in Nat  BY DEF Numbers
<1> USE DEF Remembered
<1>1. CASE UNCHANGED vars \/ MainStep
  BY <1>1 DEF vars, MainStep, registryVars, etcdVars
<1>2. ASSUME NEW how \in {"exited", "killed"}, NEW code \in {0, 1}, EndStep(how, code)
      PROVE  Remembered'
  BY <1>2 DEF EndStep, Vanishes, Dies
<1>3. CASE Start
  BY <1>3 DEF Start, Register
<1>4. CASE HTTPStops
  BY <1>4 DEF Course, HTTPStops, Deregister
<1>5. CASE ClosesRegistry
  BY <1>5 DEF ClosesRegistry, Close
<1>6. CASE Tick
  BY <1>6, <1>a DEF Tick
<1>7. CASE RegisterStep
  <2>1. CASE RegisterLocks
    BY <2>1 DEF Order, RegisterLocks
  <2>2. CASE GrantReturns
    BY <2>2 DEF Order, GrantReturns
  <2>3. CASE GrantErrs
    BY <2>3 DEF Order, GrantErrs
  <2>4. CASE AddReturns
    BY <2>4 DEF AddReturns
  <2>5. CASE AddErrs
    <3>1. faults' # 0
      BY <1>a, <2>5 DEF AddErrs, Errs
    <3>2. registering' \in {"revoke", "abandoned"}
      BY <2>5 DEF AddErrs
    <3> QED  BY <3>1, <3>2
  <2>6. CASE RevokeReturns
    <3>1. faults' # 0 /\ UNCHANGED call
      BY <1>a, <2>6 DEF Revoking, RevokeReturns, Errs
    <3>2. registering' = "returned" => call["revoke"] = "ran"
      BY <2>6 DEF RevokeReturns
    <3> QED  BY <3>1, <3>2
  <2> QED  BY <1>7, <2>1, <2>2, <2>3, <2>4, <2>5, <2>6 DEF RegisterStep
<1>8. CASE DeregisterStep
  <2>1. CASE DeregisterLocks
    BY <2>1 DEF DeregisterLocks
  <2>2. CASE DeleteReturns
    BY <2>2 DEF DeleteReturns
  <2> QED  BY <1>8, <2>1, <2>2 DEF DeregisterStep
<1>9. CASE EtcdStep
  <2>1. ASSUME NEW k \in Calls, EtcdRuns(k) \/ EtcdDrops(k)  PROVE Remembered'
    <3>1. UNCHANGED <<registering, leaving, registered, faults, now, registerBy>>
      BY <2>1, RunEffects DEF EtcdDrops
    <3>2. /\ call["add"] = "unsent" => call'["add"] = "unsent"
          /\ call["revoke"] = "ran" => call'["revoke"] = "ran"
      BY <2>1, RunEffects DEF EtcdDrops, Places, Calls
    <3> QED  BY <3>1, <3>2
  <2>2. CASE EtcdRenews
    BY <2>2 DEF EtcdRenews
  <2>3. CASE KeepAliveEnds
    BY <1>a, <2>3 DEF KeepAliveEnds
  <2> QED  BY <1>9, <2>1, <2>2, <2>3 DEF EtcdStep
<1> QED
  BY Steps, <1>1, <1>2, <1>3, <1>4, <1>5, <1>6, <1>7, <1>8, <1>9

LEMMA UndoneStep ==
  Types /\ Course /\ Order /\ Remembered /\ Undone /\ [Next]_vars => Undone'
<1> SUFFICES ASSUME Numbers, Places, Course, Order, Remembered, Undone, [Next]_vars
             PROVE Undone'
  BY DEF Types
<1>a. faults \in Nat  BY DEF Numbers
<1> USE DEF Undone
<1>1. CASE UNCHANGED vars
  BY <1>1 DEF vars, registryVars, processVars
<1>2. CASE MainStep
  <2> USE <1>2 DEF MainStep, registryVars
  <2>1. CASE SignalArrives \/ ReadsReport
    BY <2>1 DEF SignalArrives, ReadsReport, BeginShutdown
  <2>2. CASE \E p \in Parts : PartEnds(p) \/ PartStops(p)
    <3>1. UNCHANGED <<main, exitCode>>
      BY <2>2 DEF PartEnds, PartStops
    <3> QED  BY <3>1
  <2>3. CASE HandlerStarts \/ HandlerEnds
    BY <2>3 DEF HandlerStarts, HandlerEnds
  <2>4. CASE StopsAccepting \/ GracefulStops \/ Stop \/ ForcedStops \/ ClosesData
    BY <2>4 DEF StopsAccepting, GracefulStops, Stop, ForcedStops, ClosesData
  <2> QED  BY <2>1, <2>2, <2>3, <2>4
<1>3. ASSUME NEW how \in {"exited", "killed"}, NEW code \in {0, 1}, EndStep(how, code)
      PROVE  Undone'
  <2>1. main' = how /\ exitCode' = code /\ leaving' = "dead"
        /\ UNCHANGED <<faults, missed, call>>
    BY <1>3 DEF EndStep, Vanishes, Dies
  <2>2. how = "exited" /\ code = 0 => leaving = "returned"
    BY <1>3 DEF EndStep, Course, Places, Ended
  <2> QED  BY <2>1, <2>2
<1>4. CASE Start
  BY <1>4 DEF Start, Register, Course
<1>5. CASE HTTPStops
  BY <1>5 DEF HTTPStops, Deregister
<1>6. CASE ClosesRegistry
  BY <1>6 DEF ClosesRegistry, Close
<1>7. CASE Tick
  BY <1>7 DEF Tick, processVars
<1>8. CASE RegisterStep /\ UNCHANGED processVars
  <2>1. UNCHANGED <<main, exitCode, leaving, missed>> /\ ~Ended
        /\ registering \notin {"returned", "abandoned"}
    BY <1>8 DEF Course, RegisterStep, RegisterLocks, GrantReturns, GrantErrs, AddReturns,
                AddErrs, RevokeReturns, processVars
  <2>2. call'["delete"] = call["delete"]
    BY <1>8 DEF Places, Calls, RegisterStep, RegisterLocks, GrantReturns, GrantErrs,
                AddReturns, AddErrs, RevokeReturns, Send
  <2>3. faults' = 0 => faults = 0
    BY <1>8, <1>a DEF RegisterStep, RegisterLocks, GrantReturns, GrantErrs, AddReturns,
                      AddErrs, RevokeReturns, Errs
  <2> QED  BY <2>1, <2>2, <2>3 DEF Ended
<1>9. CASE DeregisterStep /\ UNCHANGED processVars
  <2>1. main' = "deregister"
    BY <1>9 DEF DeregisterStep, DeregisterLocks, DeleteReturns, Course, processVars
  <2>2. CASE DeregisterLocks
    <3>1. ASSUME leaving' = "returned", ~missed', faults' = 0
          PROVE  /\ registering \in {"returned", "abandoned"} /\ call["add"] = "unsent"
                 /\ UNCHANGED <<registering, call>>
      <4>1. ~(registering = "locking" \/ ~CanCall(leaveBy))
        BY <2>2, <3>1 DEF DeregisterLocks
      <4>2. ~registered /\ UNCHANGED <<registering, call, faults>>
        BY <2>2, <3>1, <4>1 DEF DeregisterLocks
      <4>3. registering \in {"returned", "abandoned"}
        BY <2>2, <4>1 DEF DeregisterLocks, MutexFree, Calls, Places, Course, Ended
      <4>4. leaving = "locking"
        BY <2>2 DEF DeregisterLocks
      <4> QED  BY <3>1, <4>2, <4>3, <4>4 DEF Remembered
    <3> QED  BY <2>1, <3>1
  <2>3. CASE DeleteReturns
    <3>1. faults' = 0 => call'["delete"] = "ran"
      BY <2>3, <1>a DEF DeleteReturns, Errs
    <3> QED  BY <2>1, <3>1
  <2> QED  BY <1>9, <2>2, <2>3 DEF DeregisterStep
<1>10. CASE EtcdStep /\ UNCHANGED processVars
  <2>1. ASSUME NEW k \in Calls, EtcdRuns(k) \/ EtcdDrops(k)  PROVE Undone'
    <3>1. UNCHANGED <<main, exitCode, registering, leaving, missed, faults>>
      BY <1>10, <2>1, RunEffects DEF EtcdDrops, processVars
    <3>2. /\ call["add"] = "unsent" => call'["add"] = "unsent"
          /\ call["delete"] = "ran" => call'["delete"] = "ran"
      BY <2>1, RunEffects DEF EtcdDrops, Places, Calls
    <3> QED  BY <3>1, <3>2
  <2>2. CASE EtcdRenews
    BY <1>10, <2>2 DEF EtcdRenews, processVars
  <2>3. CASE KeepAliveEnds
    BY <1>a, <1>10, <2>3 DEF KeepAliveEnds, processVars
  <2> QED  BY <1>10, <2>1, <2>2, <2>3 DEF EtcdStep
<1> QED
  BY Steps, <1>1, <1>2, <1>3, <1>4, <1>5, <1>6, <1>7, <1>8, <1>9, <1>10

-----------------------------------------------------------------------------
\* The endpoint as an entry of a directory of leases.

\* Nothing is written that would outlive a lease, nor after the last call that
\* can run.
Bounded ==
    /\ lease <= now + LeaseTTL
    /\ drainBy <= now + MaxDelay
    /\ \A k \in Calls : call[k] = "inflight" /\ ~Awaited(k) => now <= drainBy
    /\ Ended => drainBy = endedAt + MaxDelay

LEMMA BoundedInit == Init => Bounded
<1> SUFFICES ASSUME Init PROVE Bounded
  OBVIOUS
<1>1. now = 0 /\ lease = 0 /\ drainBy = 0 /\ ~Ended
  BY DEF Init, RegistryInit, Ended
<1>2. \A k \in Calls : call[k] # "inflight"
  BY DEF Init, RegistryInit
<1> QED  BY <1>1, <1>2, LeaseTTLPositive, RegistryAssumption DEF Bounded

\* A call that is in flight after a step of a method was in flight and is waited
\* for, or it is waited for now, or its method gave up on it in this step.
LEMMA MethodsDrain ==
  ASSUME Numbers, Places, Course, Bounded, RegisterStep \/ DeregisterStep
  PROVE  /\ UNCHANGED <<now, lease>>
         /\ drainBy' = drainBy \/ drainBy' = now + MaxDelay
         /\ \A k \in Calls : call'[k] = "inflight" /\ ~Awaited(k)' => now <= drainBy'
         /\ ~Ended
<1>a. now \in Nat /\ MaxDelay \in Nat  BY RegistryAssumption DEF Numbers
<1>b. now <= now + MaxDelay  BY <1>a
<1> USE DEF Places, Calls, Awaited
<1>c. \A k \in Calls : call[k] = "inflight" /\ ~Awaited(k) => now <= drainBy
  BY DEF Bounded
<1>1. UNCHANGED <<now, lease>> /\ (drainBy' = drainBy \/ drainBy' = now + MaxDelay)
  BY DEF RegisterStep, RegisterLocks, GrantReturns, GrantErrs, AddReturns, AddErrs,
         RevokeReturns, DeregisterStep, DeregisterLocks, DeleteReturns, Errs, etcdVars
<1>2. ~Ended
  BY DEF Course, RegisterStep, RegisterLocks, GrantReturns, GrantErrs, AddReturns, AddErrs,
         RevokeReturns, DeregisterStep, DeregisterLocks, DeleteReturns
<1>3. CASE drainBy' = now + MaxDelay
  BY <1>1, <1>2, <1>3, <1>b
<1>4. CASE RegisterLocks
  BY <1>1, <1>2, <1>4, <1>c DEF RegisterLocks, Send
<1>5. CASE GrantReturns
  BY <1>1, <1>2, <1>5, <1>c DEF GrantReturns, Send
<1>6. CASE AddReturns
  BY <1>1, <1>2, <1>6, <1>c DEF AddReturns
<1>7. CASE RevokeReturns /\ call["revoke"] = "ran" /\ UNCHANGED drainBy
  BY <1>1, <1>2, <1>7, <1>c DEF RevokeReturns
<1>8. CASE DeregisterLocks
  BY <1>1, <1>2, <1>8, <1>c DEF DeregisterLocks, Send
<1>9. CASE DeleteReturns /\ call["delete"] = "ran" /\ UNCHANGED drainBy
  BY <1>1, <1>2, <1>9, <1>c DEF DeleteReturns
<1> QED
  BY <1>3, <1>4, <1>5, <1>6, <1>7, <1>8, <1>9
  DEF RegisterStep, GrantErrs, AddErrs, RevokeReturns, DeregisterStep, DeleteReturns, Errs

LEMMA BoundedStep == Types /\ Course /\ Bounded /\ [Next]_vars => Bounded'
<1> SUFFICES ASSUME Numbers, Places, Course, Bounded, [Next]_vars PROVE Bounded'
  BY DEF Types
<1>a. /\ now \in Nat /\ lease \in Nat /\ drainBy \in Nat /\ endedAt \in Nat
      /\ MaxDelay \in Nat /\ LeaseTTL \in Nat
  BY RegistryAssumption, LeaseTTLPositive DEF Numbers
<1>b. \A k \in Calls : call[k] = "inflight" /\ ~Awaited(k) => now <= drainBy
  BY DEF Bounded
<1>1. CASE UNCHANGED <<now, lease, drainBy, call, registering, leaving, endedAt>>
           /\ (Ended' => Ended)
  BY <1>1 DEF Bounded, Awaited
<1>2. CASE UNCHANGED vars
  BY <1>1, <1>2 DEF vars, registryVars, etcdVars, processVars, Ended
<1>3. CASE MainStep
  <2>1. UNCHANGED endedAt /\ (Ended' => Ended)
    <3>1. CASE \E p \in Parts : PartEnds(p) \/ PartStops(p)
      BY <3>1 DEF PartEnds, PartStops, Ended
    <3>2. CASE SignalArrives \/ ReadsReport
      BY <3>2 DEF SignalArrives, ReadsReport, BeginShutdown, Ended
    <3>3. CASE HandlerStarts \/ HandlerEnds \/ StopsAccepting \/ GracefulStops \/ Stop
               \/ ForcedStops \/ ClosesData
      BY <3>3 DEF HandlerStarts, HandlerEnds, StopsAccepting, GracefulStops, Stop,
                  ForcedStops, ClosesData, Ended
    <3> QED  BY <1>3, <3>1, <3>2, <3>3 DEF MainStep
  <2> QED  BY <1>1, <1>3, <2>1 DEF MainStep, registryVars, etcdVars
<1>4. ASSUME NEW how \in {"exited", "killed"}, NEW code \in {0, 1}, EndStep(how, code)
      PROVE  Bounded'
  <2>1. UNCHANGED <<now, lease>> /\ drainBy' = now + MaxDelay /\ endedAt' = now
    BY <1>4 DEF EndStep, Vanishes, Dies, etcdVars
  <2>2. now <= now + MaxDelay  BY <1>a
  <2> QED  BY <1>a, <2>1, <2>2 DEF Bounded
<1>5. CASE Start
  <2>1. UNCHANGED <<now, lease, drainBy, call, leaving, endedAt>> /\ ~Ended'
    BY <1>5 DEF Start, etcdVars, Ended
  <2>2. registering = "idle"
    BY <1>5 DEF Start, Course
  <2> QED  BY <2>1, <2>2 DEF Bounded, Awaited, Calls
<1>6. CASE HTTPStops
  <2>1. UNCHANGED <<now, lease, drainBy, call, registering, endedAt>> /\ ~Ended'
    BY <1>6 DEF HTTPStops, etcdVars, Ended
  <2>2. leaving = "idle"
    BY <1>6 DEF HTTPStops, Course
  <2> QED  BY <2>1, <2>2 DEF Bounded, Awaited, Calls
<1>7. CASE ClosesRegistry
  <2>1. UNCHANGED <<now, lease>> /\ drainBy' = now + MaxDelay /\ ~Ended'
    BY <1>7 DEF ClosesRegistry, Close, etcdVars, Ended
  <2>2. now <= now + MaxDelay  BY <1>a
  <2> QED  BY <1>a, <2>1, <2>2 DEF Bounded
<1>8. CASE Tick
  <2>1. /\ now' = now + 1
        /\ UNCHANGED <<lease, drainBy, call, registering, leaving, endedAt, main>>
    BY <1>8 DEF Tick, etcdVars, processVars
  <2>2. \A k \in Calls : call[k] = "inflight" /\ ~Awaited(k) => now < drainBy
    BY <1>8 DEF Tick, TimeMayPass
  <2>3. \A k \in Calls : call'[k] = "inflight" /\ ~Awaited(k)' => now' <= drainBy'
    BY <1>a, <2>1, <2>2 DEF Awaited
  <2> QED  BY <1>a, <2>1, <2>3 DEF Bounded, Ended
<1>9. CASE (RegisterStep \/ DeregisterStep) /\ UNCHANGED processVars
  <2>1. ~Ended'  BY <1>9, MethodsDrain DEF processVars, Ended
  <2>2. UNCHANGED <<now, lease>> /\ (drainBy' = drainBy \/ drainBy' = now + MaxDelay)
    BY <1>9, MethodsDrain
  <2>3. \A k \in Calls : call'[k] = "inflight" /\ ~Awaited(k)' => now' <= drainBy'
    BY <1>9, <2>2, MethodsDrain
  <2> QED  BY <1>a, <2>1, <2>2, <2>3 DEF Bounded
<1>10. CASE EtcdStep /\ UNCHANGED processVars
  <2>1. ASSUME NEW k \in Calls, EtcdRuns(k) \/ EtcdDrops(k)  PROVE Bounded'
    <3>1. UNCHANGED <<now, drainBy, registering, leaving, main, endedAt>>
      BY <1>10, <2>1, RunEffects DEF EtcdDrops, processVars
    <3>2. lease' \in {now + LeaseTTL, 0, lease}
      BY <2>1, RunEffects DEF EtcdDrops, etcdVars, Calls
    <3>3. \A j \in Calls : call'[j] = "inflight" => call[j] = "inflight"
      BY <2>1, RunEffects DEF EtcdDrops, Places
    <3>4. \A j \in Calls : call'[j] = "inflight" /\ ~Awaited(j)' => now' <= drainBy'
      BY <1>b, <3>1, <3>3 DEF Awaited
    <3> QED  BY <1>a, <3>1, <3>2, <3>4 DEF Bounded, Ended
  <2>2. CASE EtcdRenews
    BY <1>a, <1>10, <2>2 DEF EtcdRenews, Bounded, Awaited, Ended, processVars
  <2>3. CASE KeepAliveEnds
    <3>1. UNCHANGED <<now, lease, main>> /\ drainBy' = now + MaxDelay
      BY <1>10, <2>3 DEF KeepAliveEnds, etcdVars, processVars
    <3>2. ~Ended'  BY <3>1, <2>3 DEF KeepAliveEnds, Course, Ended
    <3>3. now <= now + MaxDelay  BY <1>a
    <3> QED  BY <1>a, <3>1, <3>2, <3>3 DEF Bounded
  <2> QED  BY <1>10, <2>1, <2>2, <2>3 DEF EtcdStep
<1> QED
  BY Steps, <1>2, <1>3, <1>4, <1>5, <1>6, <1>7, <1>8, <1>9, <1>10

\* The mapping of the refinement.
Until == [k \in {"endpoint"} |-> IF endpoint THEN lease ELSE 0]
Over == IF Ended THEN {"endpoint"} ELSE {}
OverAt == [k \in {"endpoint"} |-> endedAt]

LEMMA EndpointInit == Init => Endpoint!Init
<1> SUFFICES ASSUME Init PROVE Endpoint!Init
  OBVIOUS
<1>1. now = 0 /\ endpoint = FALSE /\ endedAt = 0 /\ ~Ended
  BY DEF Init, RegistryInit, Ended
<1> QED  BY <1>1 DEF Endpoint!Init

LEMMA EndpointStep ==
  Types /\ Course /\ Order /\ Bounded /\ [Next]_vars => [Endpoint!Next]_(Endpoint!vars)
<1> SUFFICES ASSUME Numbers, Places, Course, Order, Bounded, [Next]_vars
             PROVE  Endpoint!Next \/ UNCHANGED Endpoint!vars
  BY DEF Types
<1>a. /\ now \in Nat /\ lease \in Nat /\ drainBy \in Nat /\ endedAt \in Nat
      /\ MaxDelay \in Nat /\ LeaseTTL \in Nat
  BY RegistryAssumption, LeaseTTLPositive DEF Numbers
<1>b. LongestLease \in Nat /\ LeaseTTL <= LongestLease  BY LeaseTTLBounds
<1>c. ASSUME UNCHANGED <<now, endedAt, Until, Over>>  PROVE UNCHANGED Endpoint!vars
  BY <1>c DEF Endpoint!vars, Until, Over
<1>1. CASE UNCHANGED vars
  BY <1>1, <1>c DEF vars, registryVars, etcdVars, processVars, Until, Over, Ended
<1>2. CASE MainStep
  <2>1. UNCHANGED endedAt /\ ~Ended /\ ~Ended'
    <3>1. CASE \E p \in Parts : PartEnds(p) \/ PartStops(p)
      BY <3>1 DEF PartEnds, PartStops, Ended, Stopping
    <3>2. CASE SignalArrives \/ ReadsReport
      BY <3>2 DEF SignalArrives, ReadsReport, BeginShutdown, Ended
    <3>3. CASE HandlerStarts \/ HandlerEnds
      BY <3>3 DEF HandlerStarts, HandlerEnds, Ended
    <3>4. CASE StopsAccepting \/ GracefulStops \/ Stop \/ ForcedStops \/ ClosesData
      BY <3>4 DEF StopsAccepting, GracefulStops, Stop, ForcedStops, ClosesData, Ended
    <3> QED  BY <1>2, <3>1, <3>2, <3>3, <3>4 DEF MainStep
  <2>2. UNCHANGED <<now, lease, endpoint>>
    BY <1>2 DEF MainStep, registryVars, etcdVars
  <2> QED  BY <1>c, <2>1, <2>2 DEF Until, Over
<1>3. ASSUME NEW how \in {"exited", "killed"}, NEW code \in {0, 1}, EndStep(how, code)
      PROVE  Endpoint!Next
  <2>1. /\ UNCHANGED <<now, lease, endpoint>> /\ endedAt' = now
        /\ ~Ended /\ Ended'
    BY <1>3 DEF EndStep, Vanishes, Dies, etcdVars, Ended
  <2>2. Endpoint!End({"endpoint"})
    BY <2>1 DEF Endpoint!End
  <2>3. {"endpoint"} \in SUBSET {"endpoint"}  OBVIOUS
  <2> QED  BY <2>2, <2>3 DEF Endpoint!Next
<1>4. CASE Start \/ HTTPStops \/ ClosesRegistry
  <2>1. UNCHANGED <<now, lease, endpoint, endedAt>> /\ ~Ended /\ ~Ended'
    BY <1>4 DEF Start, HTTPStops, ClosesRegistry, Close, etcdVars, Ended
  <2> QED  BY <1>c, <2>1 DEF Until, Over
<1>5. CASE Tick
  <2>1. now' = now + 1 /\ UNCHANGED <<lease, endpoint, endedAt, main>>
    BY <1>5 DEF Tick, etcdVars, processVars
  <2>2. Endpoint!Advance
    BY <2>1 DEF Endpoint!Advance, Ended
  <2> QED  BY <2>2 DEF Endpoint!Next
<1>6. CASE (RegisterStep \/ DeregisterStep) /\ UNCHANGED processVars
  <2>1. UNCHANGED <<now, lease, endpoint>>
    BY <1>6 DEF RegisterStep, RegisterLocks, GrantReturns, GrantErrs, AddReturns, AddErrs,
        RevokeReturns, DeregisterStep, DeregisterLocks, DeleteReturns, etcdVars
  <2> QED  BY <1>6, <1>c, <2>1 DEF Until, Over, Ended, processVars
<1>7. CASE EtcdStep /\ UNCHANGED processVars
  <2>a. UNCHANGED <<main, endedAt, Over>>  BY <1>7 DEF processVars, Over, Ended
  <2>1. ASSUME NEW t \in now .. now + LeaseTTL, UNCHANGED now,
               lease' = t, endpoint' = TRUE, Ended => now <= drainBy
        PROVE  Endpoint!Next
    <3>1. Ended => now <= endedAt + MaxDelay
      BY <2>1 DEF Bounded
    <3>2. t \in now .. now + LongestLease  BY <1>a, <1>b, <2>1
    <3>3. Endpoint!Write("endpoint")
      BY <2>a, <2>1, <3>1, <3>2 DEF Endpoint!Write, Ended
    <3> QED  BY <3>3 DEF Endpoint!Next
  <2>2. CASE EtcdRuns("grant") \/ \E k \in Calls : EtcdDrops(k)
    <3>1. EtcdRuns("grant") => ~endpoint /\ ~endpoint' /\ now' = now
      BY RunEffects DEF Order, Calls
    <3>2. (\E k \in Calls : EtcdDrops(k)) => UNCHANGED <<now, lease, endpoint>>
      BY DEF EtcdDrops, etcdVars
    <3> QED  BY <1>c, <2>a, <2>2, <3>1, <3>2 DEF Until
  <2>3. CASE EtcdRuns("add")
    <3>1. lease' = lease /\ endpoint' = TRUE /\ now' = now /\ now < lease
      BY <2>3, RunEffects DEF Calls, LeaseLives
    <3>2. Ended => now <= drainBy
      BY <2>3, RunEffects DEF Bounded, Course, Awaited, Calls
    <3>3. lease \in now .. now + LeaseTTL
      BY <1>a, <3>1 DEF Bounded
    <3> QED  BY <2>1, <3>1, <3>2, <3>3
  <2>4. CASE EtcdRuns("revoke") \/ EtcdRuns("delete")
    <3>1. endpoint' = FALSE /\ now' = now
      BY <2>4, RunEffects DEF Calls
    <3>2. Endpoint!Drop("endpoint")
      BY <2>a, <3>1 DEF Endpoint!Drop, Ended
    <3> QED  BY <3>2 DEF Endpoint!Next
  <2>5. CASE EtcdRenews
    <3>1. lease' = now + LeaseTTL /\ UNCHANGED <<now, endpoint>>
      BY <2>5 DEF EtcdRenews
    <3>2. CASE endpoint
      <4>1. Ended => now <= drainBy
        BY <2>5 DEF EtcdRenews, Course
      <4>2. now + LeaseTTL \in now .. now + LeaseTTL
        BY <1>a
      <4>3. endpoint' = TRUE  BY <3>1, <3>2
      <4> QED  BY <2>1, <3>1, <4>1, <4>2, <4>3
    <3>3. CASE ~endpoint
      BY <1>c, <2>a, <3>1, <3>3 DEF Until
    <3> QED  BY <3>2, <3>3
  <2>6. CASE KeepAliveEnds
    <3>1. UNCHANGED <<now, lease, endpoint>>  BY <2>6 DEF KeepAliveEnds, etcdVars
    <3> QED  BY <1>c, <2>a, <3>1 DEF Until
  <2> QED  BY <1>7, <2>2, <2>3, <2>4, <2>5, <2>6 DEF EtcdStep, Calls
<1> QED
  BY Steps, <1>1, <1>2, <1>3, <1>4, <1>5, <1>6, <1>7

-----------------------------------------------------------------------------
\* The theorems.

IInv ==
    /\ Types /\ Course /\ Order
    /\ OneReportEach
    /\ Listing
    /\ Punctual
    /\ Revoking /\ Remembered /\ Undone
    /\ Bounded

LEMMA Inductive == Spec => []IInv
<1>1. Init => IInv
  BY TypesInit, CourseInit, OrderInit, OneReportEachInit, ListingInit, PunctualInit,
     FailuresInit, BoundedInit DEF IInv
<1>2. IInv /\ [Next]_vars => IInv'
  BY TypesStep, CourseStep, OrderStep, OneReportEachStep, ListingStep, PunctualStep,
     RevokingStep, RememberedStep, UndoneStep, BoundedStep DEF IInv
<1> QED  BY <1>1, <1>2, PTL DEF Spec

\* Every variable keeps its type, and no call to etcd is sent before the one
\* it needs has run: the endpoint is put under a lease that was granted, and
\* deleted after it was put.
THEOREM TypeCorrect == Spec => []TypeOK
<1>1. IInv => TypeOK  BY TypesSuffice DEF IInv
<1> QED  BY <1>1, Inductive, PTL

\* Once DeleteEndpoint has run, no Register and no call in flight puts the
\* endpoint back.
THEOREM DeletedForGood == Spec => []DeregisteredStaysGone
<1>1. IInv => DeregisteredStaysGone  BY DEF IInv, Order, DeregisteredStaysGone
<1> QED  BY <1>1, Inductive, PTL

\* The gateway is in etcd at every moment between the return of Register and
\* the call of Deregister, as long as the keep-alive channel is open: however
\* long the process serves, and however little time Register had left.
THEOREM ListedWhileServing == Spec => []RegisteredIsListed
<1>1. IInv => RegisteredIsListed
  BY DEF IInv, Listing, RegisteredIsListed, Listed, LeaseLives
<1> QED  BY <1>1, Inductive, PTL

\* After a Register that failed and was not kept from revoking its lease, etcd
\* lists no endpoint at any time, whenever its AddEndpoint runs.
THEOREM FailedRegister == Spec => []FailedRegistrationLeavesNothing
<1>1. IInv => FailedRegistrationLeavesNothing
  <2> SUFFICES ASSUME IInv, registering = "returned", ~registered,
                      leaving \in {"idle", "locking"}, Listed
               PROVE  FALSE
    BY DEF FailedRegistrationLeavesNothing
  <2>1. call["add"] # "unsent"  BY DEF IInv, Order, Listed
  <2>2. now \in Nat /\ now < lease
    BY DEF IInv, Types, Numbers, Listed, LeaseLives
  <2>3. call["revoke"] # "ran"  BY <2>2 DEF IInv, Revoking
  <2> QED  BY <2>1, <2>3 DEF IInv, Remembered
<1> QED  BY <1>1, Inductive, PTL

\* If no call failed and Deregister came neither before Register had begun nor
\* after its deadline, a process that exits with 0 has left nothing in etcd.
THEOREM ExitsClean == Spec => []CleanStop
<1>1. IInv => CleanStop
  <2> SUFFICES ASSUME IInv, main = "exited", exitCode = 0, faults = 0, ~missed
               PROVE  ~endpoint
    BY DEF CleanStop, Listed
  <2>1. call["add"] = "unsent" \/ call["delete"] = "ran"  BY DEF IInv, Undone
  <2> QED  BY <2>1 DEF IInv, Order
<1> QED  BY <1>1, Inductive, PTL

\* The three parts never wait to report their end: the channel has room for a
\* report of each, so it does not matter that main reads only one.
THEOREM RoomForEveryReport == Spec => []NoReportBlocks
<1>1. IInv => NoReportBlocks
  <2> SUFFICES ASSUME IInv, NEW p \in Parts, part[p] = "running"
               PROVE  Len(done) < DoneCapacity
    BY DEF NoReportBlocks
  <2>1. HasEnded(p) = 0 /\ \A q \in Parts : HasEnded(q) \in {0, 1}
    BY DEF HasEnded
  <2>2. HasEnded("push") + HasEnded("http") + HasEnded("grpc") <= 2
    BY <2>1 DEF Parts
  <2>3. Len(done) \in Nat  BY DEF IInv, Types, Errors
  <2>4. \A q \in Parts : HasEnded(q) \in Nat  BY <2>1
  <2> QED  BY <2>2, <2>3, <2>4 DEF IInv, OneReportEach, DoneCapacity, Parts
<1> QED  BY <1>1, Inductive, PTL

\* Redis is closed after the last gRPC call has been handled, even when the
\* deadline of the shutdown has passed.
THEOREM RedisOpenForHandlers == Spec => []RedisOutlivesHandlers
<1>1. IInv => RedisOutlivesHandlers
  BY DEF IInv, Types, Places, Stopping, Course, RedisOutlivesHandlers
<1> QED  BY <1>1, Inductive, PTL

\* A shutdown takes no longer than its deadline allows, or what is left of the
\* time of Register, and one handler more.
THEOREM ShutdownBounded == Spec => []ShutdownInTime
<1>1. IInv => ShutdownInTime  BY PunctualSuffices DEF IInv
<1> QED  BY <1>1, Inductive, PTL

\* The registration implements a directory of leases with one entry: every step
\* of the process is a write, a drop, the end of the owner, or nothing to it.
\* So a gateway that has crashed, or could not deregister, is no longer listed
\* LeaseTTL after the last call that it can have left behind.
THEOREM LeaseRefinement == Spec => EndpointIsLeased
<1>1. IInv /\ [Next]_vars => [Endpoint!Next]_(Endpoint!vars)
  BY EndpointStep DEF IInv
<1> QED  BY <1>1, EndpointInit, Inductive, PTL DEF Spec, EndpointIsLeased, Endpoint!Spec

=============================================================================
