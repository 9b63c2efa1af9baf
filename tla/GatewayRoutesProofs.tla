------------------------- MODULE GatewayRoutesProofs -------------------------
(***************************************************************************)
(* Proofs about GatewayRoutes, for every set of connections, users and     *)
(* servers, every TTL, delay, skew and limit.                              *)
(***************************************************************************)
EXTENDS GatewayRoutes, TLAPS

LEMMA FieldTTLBounds == FieldTTL \in Nat /\ FieldTTL <= RouteTTL
  BY TimeAssumption DEF FieldTTL

LEMMA PollIntervalPositive == PollInterval \in Nat \ {0}
  BY TimeAssumption DEF PollInterval

-----------------------------------------------------------------------------
(***************************************************************************)
(* Type correctness.                                                       *)
(***************************************************************************)

LEMMA TypeInit == Init => TypeOK
  BY PollIntervalPositive, BucketAssumption
  DEF Init, TypeOK, StoreInit, StoreTypeOK, HubInit, HubTypeOK, PollInit, PollTypeOK,
      Phases, Buckets, Call

LEMMA HubTypeStep == HubTypeOK /\ [HubNext]_<<storeVars, hubVars>> => HubTypeOK'
<1> SUFFICES ASSUME HubTypeOK, [HubNext]_<<storeVars, hubVars>> PROVE HubTypeOK'
  OBVIOUS
<1> USE ConnsAssumption, BucketAssumption, TimeAssumption, FieldTTLBounds
    DEF StoreTypeOK, HubTypeOK, Phases
<1>1. CASE UNCHANGED <<storeVars, hubVars>>
  BY <1>1 DEF storeVars, hubVars
<1>2. CASE Tick
  BY <1>2 DEF Tick, hubVars
<1>3. ASSUME NEW c \in Conns,
             OnConnected(c) \/ OnPing(c) \/ OnDisconnected(c)
      PROVE  HubTypeOK'
  <2>1. ASSUME NEW op \in {"refresh", "remove"}, Send(op, c)
        PROVE  (inflight \subseteq Call)'
    BY <2>1 DEF Send, Call
  <2> QED
    BY <1>3, <2>1 DEF OnConnected, OnPing, OnDisconnected, Ask, Goto
<1>4. ASSUME NEW c \in Conns,
             OnConnectedInvalid(c) \/ RegisterReturns(c) \/ PingReturns(c) \/ RemoveReturns(c)
      PROVE  HubTypeOK'
  BY <1>4 DEF OnConnectedInvalid, RegisterReturns, PingReturns, RemoveReturns, Goto,
              Succeeds, Fails, storeVars
<1>5. ASSUME NEW s \in Servers, Crash(s)
      PROVE  HubTypeOK'
  BY <1>5 DEF Crash, storeVars
<1>6. ASSUME NEW k \in inflight, RedisRuns(k) \/ RedisDrops(k)
      PROVE  HubTypeOK'
  <2>1. k \in Call /\ k.conn \in Conns /\ k.at \in Nat
    BY DEF Call
  <2>2. CASE RefreshRuns(k) /\ Answers(k)
    BY <1>6, <2>1, <2>2 DEF RefreshRuns, Ran, Answers
  <2>3. CASE RemoveRuns(k) /\ Answers(k)
    BY <1>6, <2>1, <2>3 DEF RemoveRuns, Ran, Answers
  <2>4. CASE RedisDrops(k)
    BY <1>6, <2>4 DEF RedisDrops, LoseCall, hubVars
  <2> QED
    BY <1>6, <2>2, <2>3, <2>4 DEF RedisRuns
<1> QED
  BY <1>1, <1>2, <1>3, <1>4, <1>5, <1>6 DEF HubNext

LEMMA TypeStep == TypeOK /\ [Next]_vars => TypeOK'
<1> SUFFICES ASSUME TypeOK, [Next]_vars PROVE TypeOK'
  OBVIOUS
<1>1. CASE UNCHANGED pollVars /\ [HubNext]_<<storeVars, hubVars>>
  <2>1. HubTypeOK'
    BY <1>1, HubTypeStep DEF TypeOK
  <2> QED
    BY <1>1, <2>1 DEF TypeOK, PollTypeOK, pollVars, Buckets
<1>2. ASSUME NEW s \in Pollers, UNCHANGED hubVars, PollStep(s)
      PROVE  TypeOK'
  <2> USE ConnsAssumption, BucketAssumption, TimeAssumption, FieldTTLBounds, PollIntervalPositive
      DEF TypeOK, StoreTypeOK, HubTypeOK, PollTypeOK, Buckets, Phases
  <2>1. s \in Servers /\ Skew[s] \in Nat
    BY PollAssumption
  <2>2. CASE SendPoll(s)
    BY <1>2, <2>1, <2>2 DEF SendPoll, ServerNow, storeVars, hubVars
  <2>3. CASE PollReturns(s) \/ PollFails(s)
    BY <1>2, <2>1, <2>3 DEF PollReturns, PollFails, NextBucket, storeVars, hubVars
  <2>4. CASE TickerFires(s)
    BY <1>2, <2>1, <2>4 DEF TickerFires, storeVars, hubVars
  <2>5. CASE ScriptRuns(s)
    BY <1>2, <2>1, <2>5 DEF ScriptRuns, PollRuns, hubVars
  <2> QED
    BY <1>2, <2>2, <2>3, <2>4, <2>5 DEF PollStep
<1>3. CASE UNCHANGED vars
  BY <1>1, <1>3 DEF vars
<1> QED
  BY <1>1, <1>2, <1>3 DEF Next

\* The variables of the hubs keep their types also where no poller runs: no
\* expiry time is ever negative, no phase is undefined.
THEOREM HubTypes == HubSpec => []HubTypeOK
<1>1. HubStart => HubTypeOK
  BY BucketAssumption
  DEF HubStart, StoreInit, StoreTypeOK, HubInit, HubTypeOK, Phases, Call
<1> QED  BY <1>1, HubTypeStep, PTL DEF HubSpec

\* Every variable keeps its type: in particular the bucket loop of the poller
\* stays in range and no expiry time is ever negative.
THEOREM TypeCorrect == Spec => []TypeOK
  BY TypeInit, TypeStep, PTL DEF Spec

-----------------------------------------------------------------------------
(***************************************************************************)
(* The inductive invariant.  What is asserted of the routes follows from   *)
(* when the calls that wrote them were sent, so the invariant is about the *)
(* calls in flight as much as about the routes.                            *)
(***************************************************************************)

\* A call in flight was sent in the past, and not longer ago than MaxDelay.
CallsInTime ==
    \A k \in inflight : k.at <= now /\ now <= k.at + MaxDelay

RoutesInTime ==
    \A c \in Conns : userRoute[c] <= now + FieldTTL

\* No refresh of a connection is sent after it is over.
OverInTime ==
    \A c \in Conns : Over(c) =>
        /\ closedAt[c] <= now
        /\ userRoute[c] <= closedAt[c] + MaxDelay + FieldTTL
        /\ \A k \in inflight : k.op = "refresh" /\ k.conn = c => k.at <= closedAt[c]

\* A user's routes outlive the user's score by one delay at most, and a user
\* who was taken out of the index by the slack of LiveRoutesIndexed at most.
IndexInTime ==
    /\ \A s \in Servers : pollMax[s] <= now + MaxSkew
    /\ \A c \in Conns :
         IF Indexed(UserOf[c]) THEN userRoute[c] <= userExpire[UserOf[c]] + MaxDelay
                               ELSE userRoute[c] <= now + MaxDelay + MaxSkew

\* Only callbacks that wait for a call have an answer, only connections that
\* are over have a removal in flight, and signalg closes the silent ones.
Waiting ==
    /\ \A c \in answered : phase[c] \in {"registering", "pinging", "removing"}
    /\ \A k \in inflight : k.op = "remove" => phase[k.conn] \in {"removing", "gone"}
    /\ \A c \in Conns :
         Attached(c) => lastSeen[c] <= now /\ now <= lastSeen[c] + PingTimeout

\* The latest refresh counts from lastSeen; while it is on its way, the one
\* before it counts from one silent period earlier.
Refreshed(c) == userRoute[c] >= lastSeen[c] + FieldTTL

OnItsWay(c) ==
    /\ userRoute[c] + PingTimeout >= lastSeen[c] + FieldTTL
    /\ [op |-> "refresh", conn |-> c, at |-> lastSeen[c]] \in inflight

RefreshesInTime ==
    \A c \in Conns :
        /\ phase[c] = "open" /\ c \notin missed => Refreshed(c)
        /\ phase[c] \in {"registering", "pinging"} /\ c \in answered => Refreshed(c)
        /\ phase[c] = "pinging" /\ c \notin answered /\ c \notin missed => OnItsWay(c)

\* Only the ids ParseAppGroup accepts get as far as the route table.
OnlyValid ==
    /\ \A c \in Conns : Attached(c) => UserOf[c] \in ValidUsers
    /\ \A k \in inflight : k.op = "refresh" => UserOf[k.conn] \in ValidUsers
    /\ \A c \in Conns : UserOf[c] \notin ValidUsers => userRoute[c] = 0
    /\ \A u \in Users \ ValidUsers : userExpire[u] = 0

IInv ==
    /\ TypeOK
    /\ CallsInTime /\ RoutesInTime /\ OverInTime /\ IndexInTime
    /\ Waiting /\ RefreshesInTime /\ OnlyValid

LEMMA InvInit == Init => IInv
  BY TypeInit, FieldTTLBounds, ConnsAssumption, TimeAssumption, HubAssumption
  DEF Init, StoreInit, HubInit, PollInit, IInv, CallsInTime, RoutesInTime, OverInTime,
      IndexInTime, Waiting, RefreshesInTime, OnlyValid, Over, Attached, Serving, Indexed

\* What the conjuncts other than IndexInTime see of a poller's step.
LEMMA PollStepFrame ==
  ASSUME TypeOK, NEW s \in Pollers, PollStep(s), UNCHANGED hubVars
  PROVE  UNCHANGED <<now, userRoute, inflight, hubVars>>
  BY DEF PollStep, SendPoll, PollReturns, PollFails, NextBucket, TickerFires,
         ScriptRuns, PollRuns, storeVars

\* What a call is, and what running or dropping one leaves alone.
LEMMA CallFrame ==
  ASSUME TypeOK, NEW k \in inflight, RedisRuns(k) \/ RedisDrops(k)
  PROVE  /\ k \in Call /\ k.conn \in Conns /\ k.at \in Nat
         /\ inflight' \subseteq inflight
         /\ UNCHANGED <<now, up, phase, lastSeen, closedAt, missed, faults>>
  BY DEF TypeOK, HubTypeOK, StoreTypeOK, Call, RedisRuns, RedisDrops, RefreshRuns,
         RemoveRuns, Ran, LoseCall, Answers, hubVars

LEMMA CallsInTimeStep == IInv /\ [Next]_vars => CallsInTime'
<1> SUFFICES ASSUME IInv, [Next]_vars PROVE CallsInTime'
  OBVIOUS
<1> USE TimeAssumption
    DEF IInv, TypeOK, HubTypeOK, StoreTypeOK, Call, CallsInTime
<1>1. CASE UNCHANGED vars
  BY <1>1 DEF vars, storeVars
<1>2. CASE Tick
  BY <1>2 DEF Tick
<1>3. ASSUME NEW c \in Conns,
             \/ OnConnected(c) \/ OnConnectedInvalid(c) \/ RegisterReturns(c) \/ OnPing(c)
             \/ PingReturns(c) \/ OnDisconnected(c) \/ RemoveReturns(c)
      PROVE  CallsInTime'
  BY <1>3 DEF OnConnected, OnConnectedInvalid, RegisterReturns, OnPing, PingReturns,
              OnDisconnected, RemoveReturns, Ask, Send, storeVars
<1>4. ASSUME NEW s \in Servers, Crash(s)
      PROVE  CallsInTime'
  BY <1>4 DEF Crash, storeVars
<1>5. ASSUME NEW k \in inflight, RedisRuns(k) \/ RedisDrops(k)
      PROVE  CallsInTime'
  BY <1>5, CallFrame
<1>6. ASSUME NEW s \in Pollers, UNCHANGED hubVars, PollStep(s)
      PROVE  CallsInTime'
  BY <1>6, PollStepFrame
<1> QED
  BY <1>1, <1>2, <1>3, <1>4, <1>5, <1>6 DEF Next, HubNext

LEMMA RoutesInTimeStep == IInv /\ [Next]_vars => RoutesInTime'
<1> SUFFICES ASSUME IInv, [Next]_vars PROVE RoutesInTime'
  OBVIOUS
<1> USE FieldTTLBounds DEF IInv, TypeOK, HubTypeOK, StoreTypeOK, RoutesInTime
<1>1. CASE UNCHANGED vars
  BY <1>1 DEF vars, storeVars
<1>2. CASE Tick
  BY <1>2 DEF Tick
<1>3. ASSUME NEW c \in Conns,
             \/ OnConnected(c) \/ OnConnectedInvalid(c) \/ RegisterReturns(c) \/ OnPing(c)
             \/ PingReturns(c) \/ OnDisconnected(c) \/ RemoveReturns(c)
      PROVE  RoutesInTime'
  BY <1>3 DEF OnConnected, OnConnectedInvalid, RegisterReturns, OnPing, PingReturns,
              OnDisconnected, RemoveReturns, Ask, storeVars
<1>4. ASSUME NEW s \in Servers, Crash(s)
      PROVE  RoutesInTime'
  BY <1>4 DEF Crash, storeVars
<1>5. ASSUME NEW k \in inflight, RedisRuns(k) \/ RedisDrops(k)
      PROVE  RoutesInTime'
  BY <1>5, CallFrame DEF RedisRuns, RedisDrops, RefreshRuns, RemoveRuns, LoseCall
<1>6. ASSUME NEW s \in Pollers, UNCHANGED hubVars, PollStep(s)
      PROVE  RoutesInTime'
  BY <1>6, PollStepFrame
<1> QED
  BY <1>1, <1>2, <1>3, <1>4, <1>5, <1>6 DEF Next, HubNext

LEMMA OverInTimeStep == IInv /\ [Next]_vars => OverInTime'
<1> SUFFICES ASSUME IInv, [Next]_vars PROVE OverInTime'
  OBVIOUS
<1> USE FieldTTLBounds, TimeAssumption
    DEF IInv, TypeOK, HubTypeOK, StoreTypeOK, Call, CallsInTime, RoutesInTime, OverInTime, Over
<1>1. CASE UNCHANGED vars
  BY <1>1 DEF vars, storeVars, hubVars
<1>2. CASE Tick
  BY <1>2 DEF Tick, hubVars
<1>3. ASSUME NEW c \in Conns, OnConnected(c) \/ OnPing(c)
      PROVE  OverInTime'
  BY <1>3 DEF OnConnected, OnPing, Goto, Ask, Send
<1>4. ASSUME NEW c \in Conns, OnDisconnected(c)
      PROVE  OverInTime'
  BY <1>4 DEF OnDisconnected, Goto, Ask, Send
<1>5. ASSUME NEW c \in Conns,
             \/ OnConnectedInvalid(c) \/ RegisterReturns(c)
             \/ PingReturns(c) \/ RemoveReturns(c)
      PROVE  OverInTime'
  BY <1>5 DEF OnConnectedInvalid, RegisterReturns, PingReturns, RemoveReturns, Goto, storeVars
<1>6. ASSUME NEW s \in Servers, Crash(s)
      PROVE  OverInTime'
  BY <1>6 DEF Crash, storeVars
<1>7. ASSUME NEW k \in inflight, RedisRuns(k) \/ RedisDrops(k)
      PROVE  OverInTime'
  BY <1>7, CallFrame DEF RedisRuns, RedisDrops, RefreshRuns, RemoveRuns, LoseCall
<1>8. ASSUME NEW s \in Pollers, UNCHANGED hubVars, PollStep(s)
      PROVE  OverInTime'
  BY <1>8, PollStepFrame DEF hubVars
<1> QED
  BY <1>1, <1>2, <1>3, <1>4, <1>5, <1>6, <1>7, <1>8 DEF Next, HubNext

LEMMA IndexInTimeStep == IInv /\ [Next]_vars => IndexInTime'
<1> SUFFICES ASSUME IInv, [Next]_vars PROVE IndexInTime'
  OBVIOUS
<1> USE FieldTTLBounds, ConnsAssumption, TimeAssumption
    DEF IInv, TypeOK, HubTypeOK, StoreTypeOK, PollTypeOK, Call, CallsInTime, RoutesInTime,
        IndexInTime, Indexed
<1>1. CASE UNCHANGED vars
  BY <1>1 DEF vars, storeVars, pollVars
<1>2. CASE Tick /\ UNCHANGED pollVars
  BY <1>2 DEF Tick, pollVars
<1>3. ASSUME NEW c \in Conns, UNCHANGED pollVars,
             \/ OnConnected(c) \/ OnConnectedInvalid(c) \/ RegisterReturns(c) \/ OnPing(c)
             \/ PingReturns(c) \/ OnDisconnected(c) \/ RemoveReturns(c)
      PROVE  IndexInTime'
  BY <1>3 DEF OnConnected, OnConnectedInvalid, RegisterReturns, OnPing, PingReturns,
              OnDisconnected, RemoveReturns, Ask, storeVars, pollVars
<1>4. ASSUME NEW s \in Servers, UNCHANGED pollVars, Crash(s)
      PROVE  IndexInTime'
  BY <1>4 DEF Crash, storeVars, pollVars
<1>5. ASSUME NEW k \in inflight, UNCHANGED pollVars, RedisRuns(k) \/ RedisDrops(k)
      PROVE  IndexInTime'
  <2>1. k.conn \in Conns /\ k.at \in Nat /\ UNCHANGED <<now, pollMax>>
    BY <1>5, CallFrame DEF pollVars
  <2>2. CASE RefreshRuns(k)
    \* The script runs at most MaxDelay after the score was computed, so no
    \* route of the user can outlive the score by more than that.
    <3> DEFINE u == UserOf[k.conn]
               score == k.at + Skew[ServerOf[k.conn]] + RouteTTL
    <3>1. score \in Nat /\ score # 0 /\ userExpire' = [userExpire EXCEPT ![u] = score]
      BY <2>1, <2>2 DEF RefreshRuns
    <3>2. now + FieldTTL <= score + MaxDelay
      BY <2>1
    <3>3. \A c \in Conns : userRoute'[c] = userRoute[c] \/ (c = k.conn /\ userRoute'[c] = now + FieldTTL)
      BY <2>1, <2>2 DEF RefreshRuns
    <3> QED
      BY <2>1, <3>1, <3>2, <3>3
  <2>3. CASE RemoveRuns(k)
    BY <2>1, <2>3 DEF RemoveRuns
  <2>4. CASE RedisDrops(k)
    BY <2>1, <2>4 DEF RedisDrops, LoseCall
  <2> QED
    BY <1>5, <2>2, <2>3, <2>4 DEF RedisRuns
<1>6. ASSUME NEW s \in Pollers, UNCHANGED hubVars, PollStep(s)
      PROVE  IndexInTime'
  <2>0. s \in Servers /\ UNCHANGED <<now, userRoute>>
    BY <1>6, PollAssumption, PollStepFrame
  <2>1. CASE SendPoll(s)
    BY <2>0, <2>1 DEF SendPoll, ServerNow, storeVars
  <2>2. CASE PollReturns(s) \/ PollFails(s)
    BY <2>0, <2>2 DEF PollReturns, PollFails, NextBucket, storeVars
  <2>3. CASE TickerFires(s)
    BY <2>0, <2>3 DEF TickerFires, storeVars
  <2>4. CASE ScriptRuns(s)
    \* The users taken had a score behind a clock read earlier.
    <3>1. PICK batch \in SUBSET Users :
             /\ batch \subseteq Due(pollBucket[s], pollMax[s])
             /\ userExpire' = [u \in Users |-> IF u \in batch THEN 0 ELSE userExpire[u]]
      BY <2>4 DEF ScriptRuns, PollRuns, Batches
    <3>2. \A u \in batch : Indexed(u) /\ userExpire[u] <= now + MaxSkew
      BY <2>0, <3>1 DEF Due
    <3>3. pollMax' = pollMax
      BY <2>4 DEF ScriptRuns
    <3> QED
      BY <2>0, <3>1, <3>2, <3>3
  <2> QED
    BY <1>6, <2>1, <2>2, <2>3, <2>4 DEF PollStep
<1> QED
  BY <1>1, <1>2, <1>3, <1>4, <1>5, <1>6 DEF Next, HubNext

LEMMA WaitingStep == IInv /\ [Next]_vars => Waiting'
<1> SUFFICES ASSUME IInv, [Next]_vars PROVE Waiting'
  OBVIOUS
<1> USE HubAssumption
    DEF IInv, TypeOK, HubTypeOK, StoreTypeOK, Call, Phases, Waiting, Attached, Serving
<1>1. CASE UNCHANGED vars
  BY <1>1 DEF vars, storeVars, hubVars
<1>2. CASE Tick
  BY <1>2 DEF Tick, hubVars
<1>3. ASSUME NEW c \in Conns, OnConnected(c) \/ OnPing(c)
      PROVE  Waiting'
  BY <1>3 DEF OnConnected, OnPing, Goto, Ask, Send
<1>4. ASSUME NEW c \in Conns, OnDisconnected(c)
      PROVE  Waiting'
  BY <1>4 DEF OnDisconnected, Goto, Ask, Send
<1>5. ASSUME NEW c \in Conns,
             \/ OnConnectedInvalid(c) \/ RegisterReturns(c)
             \/ PingReturns(c) \/ RemoveReturns(c)
      PROVE  Waiting'
  BY <1>5 DEF OnConnectedInvalid, RegisterReturns, PingReturns, RemoveReturns, Goto,
              Succeeds, Fails, storeVars
<1>6. ASSUME NEW s \in Servers, Crash(s)
      PROVE  Waiting'
  BY <1>6, ConnsAssumption DEF Crash, storeVars
<1>7. ASSUME NEW k \in inflight, RedisRuns(k) \/ RedisDrops(k)
      PROVE  Waiting'
  BY <1>7, CallFrame DEF RedisRuns, RedisDrops, Answers, Awaited, hubVars
<1>8. ASSUME NEW s \in Pollers, UNCHANGED hubVars, PollStep(s)
      PROVE  Waiting'
  BY <1>8, PollStepFrame DEF hubVars
<1> QED
  BY <1>1, <1>2, <1>3, <1>4, <1>5, <1>6, <1>7, <1>8 DEF Next, HubNext

LEMMA RefreshesInTimeStep == IInv /\ [Next]_vars => RefreshesInTime'
<1> SUFFICES ASSUME IInv, [Next]_vars PROVE RefreshesInTime'
  OBVIOUS
<1> USE FieldTTLBounds, TimeAssumption, HubAssumption
    DEF IInv, TypeOK, HubTypeOK, StoreTypeOK, Phases, Waiting, Attached, Serving,
        RefreshesInTime, Refreshed, OnItsWay
<1>1. CASE UNCHANGED vars
  BY <1>1 DEF vars, storeVars, hubVars
<1>2. CASE Tick
  BY <1>2 DEF Tick, hubVars
<1>3. ASSUME NEW c \in Conns, OnConnected(c) \/ OnPing(c) \/ OnDisconnected(c)
      PROVE  RefreshesInTime'
  <2>1. CASE OnConnected(c)
    BY <2>1 DEF OnConnected, Goto, Ask, Send
  <2>2. CASE OnPing(c)
    \* A ping finds the connection silent for PingTimeout at most.
    <3>1. /\ phase' = [phase EXCEPT ![c] = "pinging"]
          /\ lastSeen' = [lastSeen EXCEPT ![c] = now]
          /\ UNCHANGED <<userRoute, answered, missed>>
          /\ inflight' = inflight \cup {[op |-> "refresh", conn |-> c, at |-> now]}
          /\ phase[c] = "open" /\ c \notin answered
      BY <2>2 DEF OnPing, Goto, Ask, Send
    <3>2. c \notin missed => OnItsWay(c)'
      <4>1. lastSeen'[c] = now /\ now <= lastSeen[c] + PingTimeout
        BY <3>1
      <4>2. c \notin missed => userRoute'[c] + PingTimeout >= lastSeen'[c] + FieldTTL
        <5>1. c \notin missed => userRoute[c] >= lastSeen[c] + FieldTTL
          BY <3>1
        <5>2. {now, userRoute[c], lastSeen[c], FieldTTL, PingTimeout} \subseteq Nat
          OBVIOUS
        <5>3. userRoute'[c] = userRoute[c]
          BY <3>1
        <5> QED
          BY <4>1, <5>1, <5>2, <5>3
      <4>3. [op |-> "refresh", conn |-> c, at |-> lastSeen'[c]] \in inflight'
        BY <3>1, <4>1, Zenon
      <4> QED
        BY <4>2, <4>3
    <3>3. ASSUME NEW d \in Conns, d # c
          PROVE  /\ phase'[d] = phase[d] /\ lastSeen'[d] = lastSeen[d]
                 /\ OnItsWay(d) => OnItsWay(d)'
                 /\ Refreshed(d) => Refreshed(d)'
      BY <3>1, <3>3
    <3> QED
      BY <3>1, <3>2, <3>3
  <2>3. CASE OnDisconnected(c)
    BY <2>3 DEF OnDisconnected, Goto, Ask, Send
  <2> QED
    BY <1>3, <2>1, <2>2, <2>3
<1>4. ASSUME NEW c \in Conns,
             \/ OnConnectedInvalid(c) \/ RegisterReturns(c)
             \/ PingReturns(c) \/ RemoveReturns(c)
      PROVE  RefreshesInTime'
  BY <1>4 DEF OnConnectedInvalid, RegisterReturns, PingReturns, RemoveReturns, Goto,
              Succeeds, Fails, storeVars
<1>5. ASSUME NEW s \in Servers, Crash(s)
      PROVE  RefreshesInTime'
  BY <1>5, ConnsAssumption DEF Crash, storeVars
<1>6. ASSUME NEW k \in inflight, RedisRuns(k) \/ RedisDrops(k)
      PROVE  RefreshesInTime'
  <2>0. k \in Call /\ k.conn \in Conns /\ UNCHANGED <<now, phase, lastSeen, missed>>
    BY <1>6, CallFrame
  <2>1. SUFFICES ASSUME NEW c \in Conns
                 PROVE  /\ phase[c] = "open" /\ c \notin missed => Refreshed(c)'
                        /\ phase[c] \in {"registering", "pinging"} /\ c \in answered' => Refreshed(c)'
                        /\ phase[c] = "pinging" /\ c \notin answered' /\ c \notin missed => OnItsWay(c)'
    BY <2>0
  <2>2. CASE RefreshRuns(k) /\ Answers(k)
    <3>1. CASE c = k.conn
      <4>1. userRoute'[c] = now + FieldTTL
        BY <2>0, <2>2, <3>1 DEF RefreshRuns
      <4>2. phase[c] = "pinging" /\ c \notin answered' /\ c \notin missed =>
               [op |-> "refresh", conn |-> c, at |-> lastSeen[c]] \in inflight'
        BY <2>0, <2>2, <3>1 DEF RefreshRuns, Ran, Answers, Awaited, Call
      <4> QED
        BY <2>0, <4>1, <4>2
    <3>2. CASE c # k.conn
      BY <2>0, <2>2, <3>2 DEF RefreshRuns, Ran, Answers
    <3> QED
      BY <3>1, <3>2
  <2>3. CASE RemoveRuns(k) /\ Answers(k)
    BY <2>0, <2>3 DEF RemoveRuns, Ran, Answers
  <2>4. CASE RedisDrops(k)
    \* Only calls nobody waits for are dropped.
    BY <2>0, <2>4 DEF RedisDrops, LoseCall, Awaited, hubVars
  <2> QED
    BY <1>6, <2>2, <2>3, <2>4 DEF RedisRuns
<1>7. ASSUME NEW s \in Pollers, UNCHANGED hubVars, PollStep(s)
      PROVE  RefreshesInTime'
  BY <1>7, PollStepFrame DEF hubVars
<1> QED
  BY <1>1, <1>2, <1>3, <1>4, <1>5, <1>6, <1>7 DEF Next, HubNext

LEMMA OnlyValidStep == IInv /\ [Next]_vars => OnlyValid'
<1> SUFFICES ASSUME IInv, [Next]_vars PROVE OnlyValid'
  OBVIOUS
<1> USE ConnsAssumption
    DEF IInv, TypeOK, HubTypeOK, StoreTypeOK, Call, Phases, OnlyValid, Attached, Serving
<1>1. CASE UNCHANGED vars
  BY <1>1 DEF vars, storeVars, hubVars
<1>2. CASE Tick
  BY <1>2 DEF Tick, hubVars
<1>3. ASSUME NEW c \in Conns, OnConnected(c) \/ OnPing(c) \/ OnDisconnected(c)
      PROVE  OnlyValid'
  BY <1>3 DEF OnConnected, OnPing, OnDisconnected, Goto, Ask, Send
<1>4. ASSUME NEW c \in Conns,
             \/ OnConnectedInvalid(c) \/ RegisterReturns(c)
             \/ PingReturns(c) \/ RemoveReturns(c)
      PROVE  OnlyValid'
  BY <1>4 DEF OnConnectedInvalid, RegisterReturns, PingReturns, RemoveReturns, Goto, storeVars
<1>5. ASSUME NEW s \in Servers, Crash(s)
      PROVE  OnlyValid'
  BY <1>5 DEF Crash, storeVars
<1>6. ASSUME NEW k \in inflight, RedisRuns(k) \/ RedisDrops(k)
      PROVE  OnlyValid'
  BY <1>6, CallFrame DEF RedisRuns, RedisDrops, RefreshRuns, RemoveRuns, LoseCall
<1>7. ASSUME NEW s \in Pollers, UNCHANGED hubVars, PollStep(s)
      PROVE  OnlyValid'
  <2>1. \A u \in Users : userExpire'[u] = userExpire[u] \/ userExpire'[u] = 0
    BY <1>7 DEF PollStep, SendPoll, PollReturns, PollFails, NextBucket, TickerFires,
                ScriptRuns, PollRuns, storeVars
  <2> QED
    BY <1>7, <2>1, PollStepFrame DEF hubVars
<1> QED
  BY <1>1, <1>2, <1>3, <1>4, <1>5, <1>6, <1>7 DEF Next, HubNext

\* The inductive invariant holds in every reachable state.
THEOREM Invariance == Spec => []IInv
<1>1. IInv /\ [Next]_vars => IInv'
  BY TypeStep, CallsInTimeStep, RoutesInTimeStep, OverInTimeStep, IndexInTimeStep,
     WaitingStep, RefreshesInTimeStep, OnlyValidStep DEF IInv
<1> QED
  BY InvInit, <1>1, PTL DEF Spec

-----------------------------------------------------------------------------
(***************************************************************************)
(* What the invariant is for.                                              *)
(***************************************************************************)

\* A connection that is over is listed no longer than closedAt + MaxDelay +
\* FieldTTL, for any number of connections, servers, errors and crashes.
THEOREM StaleRoutes == Spec => []StaleRoutesExpire
<1>1. IInv => StaleRoutesExpire
  BY DEF IInv, OverInTime, StaleRoutesExpire
<1> QED
  BY Invariance, <1>1, PTL

\* The expiry index covers every live route but for the slack of one call and
\* the difference of two clocks.
THEOREM RoutesIndexed == Spec => []LiveRoutesIndexed
<1>1. IInv => LiveRoutesIndexed
  BY ConnsAssumption, TimeAssumption
  DEF IInv, TypeOK, HubTypeOK, StoreTypeOK, IndexInTime, LiveRoutesIndexed
<1> QED
  BY Invariance, <1>1, PTL

\* A connection being served whose last refresh did not fail is listed, with its
\* server, until its route is due, whatever the TTL, the silence signalg allows
\* and the delay of a call are.
THEOREM HealthyListed == Spec => []HealthyConnectionsListed
<1>1. IInv => HealthyConnectionsListed
  <2> SUFFICES ASSUME IInv, NEW c \in Conns, Serving(c), c \notin missed, now < DueAt(c)
               PROVE  now < userRoute[c]
    BY DEF HealthyConnectionsListed, ListUserConnections, ListUserServerIDs, Live
  <2> USE FieldTTLBounds, HubAssumption
      DEF IInv, TypeOK, HubTypeOK, StoreTypeOK, Attached, Serving, DueAt
  <2>1. CASE phase[c] = "open" \/ c \in answered
    BY <2>1 DEF RefreshesInTime, Refreshed
  <2>2. CASE phase[c] = "pinging" /\ c \notin answered
    <3>1. userRoute[c] + PingTimeout >= lastSeen[c] + FieldTTL
      BY <2>2 DEF RefreshesInTime, OnItsWay
    <3>2. now < lastSeen[c] + FieldTTL - PingTimeout
      BY <2>2
    <3>3. {userRoute[c], lastSeen[c], now, PingTimeout, FieldTTL} \subseteq Int
      OBVIOUS
    <3> QED
      BY <3>1, <3>2, <3>3
  <2> QED
    BY <2>1, <2>2
<1> QED
  BY Invariance, <1>1, PTL

\* A poll takes only users whose routes die within the same slack.
THEOREM PollsExpired == Spec => PolledUsersExpire
<1>1. IInv /\ [Next]_vars =>
        [\A c \in Conns :
            Indexed(UserOf[c]) /\ ~Indexed(UserOf[c])' =>
                userRoute[c] <= now + MaxDelay + MaxSkew]_vars
  <2> SUFFICES ASSUME IInv, [Next]_vars, NEW c \in Conns,
                      Indexed(UserOf[c]), ~Indexed(UserOf[c])'
               PROVE  userRoute[c] <= now + MaxDelay + MaxSkew
    OBVIOUS
  <2> USE ConnsAssumption, TimeAssumption
      DEF IInv, TypeOK, HubTypeOK, StoreTypeOK, Call
  \* The route is what it will be, or the step is a call of Redis; and a call
  \* indexes its user or leaves the index alone.
  <2>1. IndexInTime'
    BY IndexInTimeStep
  <2>2. ASSUME userRoute' = userRoute, now' = now
        PROVE  userRoute[c] <= now + MaxDelay + MaxSkew
    BY <2>1, <2>2 DEF IndexInTime
  <2>3. ASSUME NEW k \in inflight, RedisRuns(k) \/ RedisDrops(k)
        PROVE  FALSE
    BY <2>3, CallFrame
    DEF RedisRuns, RedisDrops, RefreshRuns, RemoveRuns, LoseCall, Indexed
  <2>4. ASSUME userExpire' = userExpire
        PROVE  FALSE
    BY <2>4 DEF Indexed
  <2>5. ASSUME NEW d \in Conns,
               \/ OnConnected(d) \/ OnConnectedInvalid(d) \/ RegisterReturns(d) \/ OnPing(d)
               \/ PingReturns(d) \/ OnDisconnected(d) \/ RemoveReturns(d)
        PROVE  userExpire' = userExpire
    BY <2>5 DEF OnConnected, OnConnectedInvalid, RegisterReturns, OnPing, PingReturns,
                OnDisconnected, RemoveReturns, Ask, storeVars
  <2>6. (\E s \in Servers : Crash(s)) \/ Tick \/ UNCHANGED vars => userExpire' = userExpire
    BY DEF Crash, Tick, vars, storeVars
  <2>7. ASSUME NEW s \in Pollers, UNCHANGED hubVars, PollStep(s)
        PROVE  userRoute' = userRoute /\ now' = now
    BY <2>7, PollStepFrame
  <2> QED
    BY <2>2, <2>3, <2>4, <2>5, <2>6, <2>7 DEF Next, HubNext
<1> QED
  BY Invariance, <1>1, PTL DEF Spec, PolledUsersExpire

\* A route TTL of a second or more is enough for a refresh to show: the TTLs
\* below a second are the only positive ones that list nobody.
THEOREM RefreshShows ==
  ASSUME RouteTTL >= Second
  PROVE  Spec => []RefreshedListed
<1>1. FieldTTL > 0
  BY TimeAssumption DEF FieldTTL
<1>2. IInv => RefreshedListed
  BY <1>1, FieldTTLBounds
  DEF IInv, TypeOK, HubTypeOK, StoreTypeOK, RefreshesInTime, Refreshed, RefreshedListed, Live
<1> QED
  BY Invariance, <1>2, PTL

\* An id ParseAppGroup refuses never reaches the route table.
THEOREM RefusedIds == Spec => []RefusedLeaveNoTrace
<1>1. IInv => RefusedLeaveNoTrace
  BY ConnsAssumption
  DEF IInv, TypeOK, HubTypeOK, StoreTypeOK, Call, OnlyValid, RefusedLeaveNoTrace, Indexed
<1> QED
  BY Invariance, <1>1, PTL

\* No step brings back the route of a connection once the calls in flight
\* when it ended have had time to run.
THEOREM RoutesStayDead == Spec => NoResurrection
<1>1. IInv /\ [Next]_vars =>
        [\A c \in Conns :
            Over(c) /\ now > closedAt[c] + MaxDelay => userRoute'[c] <= userRoute[c]
        ]_<<storeVars, hubVars>>
  <2> SUFFICES ASSUME IInv, [Next]_vars, NEW c \in Conns, Over(c),
                      now > closedAt[c] + MaxDelay
               PROVE  userRoute'[c] <= userRoute[c]
    OBVIOUS
  <2> USE TimeAssumption DEF IInv, TypeOK, HubTypeOK, StoreTypeOK
  <2>1. ASSUME NEW k \in inflight, RedisRuns(k) \/ RedisDrops(k)
        PROVE  userRoute'[c] <= userRoute[c]
    <3>1. k.conn \in Conns /\ k.at \in Nat
      BY <2>1, CallFrame
    <3>2. ~(k.op = "refresh" /\ k.conn = c)
      BY <3>1 DEF OverInTime, CallsInTime
    <3> QED
      BY <2>1, <3>1, <3>2 DEF RedisRuns, RedisDrops, RefreshRuns, RemoveRuns, LoseCall
  <2>2. ASSUME NEW d \in Conns,
               \/ OnConnected(d) \/ OnConnectedInvalid(d) \/ RegisterReturns(d) \/ OnPing(d)
               \/ PingReturns(d) \/ OnDisconnected(d) \/ RemoveReturns(d)
        PROVE  userRoute' = userRoute
    BY <2>2 DEF OnConnected, OnConnectedInvalid, RegisterReturns, OnPing, PingReturns,
                OnDisconnected, RemoveReturns, Ask, storeVars
  <2>3. (\E s \in Servers : Crash(s)) \/ Tick \/ UNCHANGED vars => userRoute' = userRoute
    BY DEF Crash, Tick, vars, storeVars
  <2>4. ASSUME NEW s \in Pollers, UNCHANGED hubVars, PollStep(s)
        PROVE  userRoute' = userRoute
    BY <2>4, PollStepFrame
  <2> QED
    BY <2>1, <2>2, <2>3, <2>4 DEF Next, HubNext
<1> QED
  BY Invariance, <1>1, PTL DEF Spec, NoResurrection

\* A connection that ends is a lease whose owner ends; the callbacks that end
\* none leave the directory alone.
LEMMA CallbacksEndLeases ==
  ASSUME TypeOK, NEW c \in Conns,
         \/ OnConnected(c) \/ OnConnectedInvalid(c) \/ RegisterReturns(c) \/ OnPing(c)
         \/ PingReturns(c) \/ OnDisconnected(c) \/ RemoveReturns(c)
  PROVE  Routes!Next \/ UNCHANGED Routes!vars
<1> USE DEF TypeOK, HubTypeOK, Over
<1>1. UNCHANGED <<now, userRoute>>
  BY DEF OnConnected, OnConnectedInvalid, RegisterReturns, OnPing, PingReturns,
         OnDisconnected, RemoveReturns, Ask, storeVars
<1>2. CASE UNCHANGED closedAt /\ (Over(c)' = Over(c)) /\ \A d \in Conns \ {c} : phase'[d] = phase[d]
  <2>1. {d \in Conns : Over(d)}' = {d \in Conns : Over(d)}
    BY <1>2
  <2> QED  BY <1>1, <1>2, <2>1 DEF Routes!vars
<1>3. CASE /\ closedAt' = [closedAt EXCEPT ![c] = now] /\ ~Over(c) /\ Over(c)'
           /\ \A d \in Conns \ {c} : phase'[d] = phase[d]
  <2>1. Routes!End({c})
    BY <1>1, <1>3 DEF Routes!End
  <2> QED  BY <2>1 DEF Routes!Next
<1>4. CASE OnConnected(c) \/ OnPing(c) \/ PingReturns(c) \/ RemoveReturns(c)
  BY <1>2, <1>4 DEF OnConnected, OnPing, PingReturns, RemoveReturns, Goto
<1>5. CASE OnConnectedInvalid(c)
  BY <1>3, <1>5 DEF OnConnectedInvalid, Goto
<1>6. CASE RegisterReturns(c)
  BY <1>2, <1>3, <1>6 DEF RegisterReturns, Goto
<1>7. CASE OnDisconnected(c)
  <2>1. CASE phase[c] = "open"
    BY <1>3, <1>7, <2>1 DEF OnDisconnected, Goto
  <2>2. CASE phase[c] = "rejected"
    BY <1>2, <1>7, <2>2 DEF OnDisconnected, Goto
  <2> QED  BY <1>7, <2>1, <2>2 DEF OnDisconnected
<1> QED  BY <1>4, <1>5, <1>6, <1>7

\* The route table implements a directory of leases, one for each connection,
\* whatever the hubs, the pollers, retries and crashes do: every step writes
\* routes within the time their owners have, drops one, ends owners, or is
\* nothing to the directory.
THEOREM RouteTableRefinement == Spec => RoutesAreLeased
<1>1. Init => Routes!Init
  BY DEF Init, StoreInit, HubInit, Over, Routes!Init
<1>2. IInv /\ [Next]_vars => [Routes!Next]_(Routes!vars)
  <2> SUFFICES ASSUME IInv, [Next]_vars PROVE Routes!Next \/ UNCHANGED Routes!vars
    OBVIOUS
  <2>a. TypeOK  BY DEF IInv
  <2>b. ASSUME UNCHANGED <<now, userRoute, phase, closedAt>>  PROVE UNCHANGED Routes!vars
    BY <2>b DEF Routes!vars, Over
  <2>1. CASE UNCHANGED vars
    BY <2>1, <2>b DEF vars, storeVars, hubVars
  <2>2. CASE Tick
    <3>1. Routes!Advance
      BY <2>2 DEF Tick, hubVars, Routes!Advance, Over
    <3> QED  BY <3>1 DEF Routes!Next
  <2>3. ASSUME NEW s \in Servers, Crash(s)  PROVE Routes!Next
    <3> DEFINE ended == {c \in Conns : ServerOf[c] = s /\ phase[c] # "new" /\ ~Over(c)}
    <3>1. {c \in Conns : Over(c)}' = {c \in Conns : Over(c)} \cup ended
      BY <2>3, <2>a DEF Crash, Over, TypeOK, HubTypeOK
    <3>2. Routes!End(ended)
      BY <2>3, <3>1 DEF Crash, storeVars, Routes!End
    <3>3. ended \in SUBSET Conns  OBVIOUS
    <3> QED  BY <3>2, <3>3 DEF Routes!Next
  <2>4. ASSUME NEW k \in inflight, RedisRuns(k) \/ RedisDrops(k)
        PROVE  Routes!Next \/ UNCHANGED Routes!vars
    <3>a. k.conn \in Conns /\ k.at \in Nat /\ UNCHANGED <<now, phase, closedAt>>
      BY <2>4, <2>a, CallFrame
    <3>b. {c \in Conns : Over(c)}' = {c \in Conns : Over(c)}
      BY <3>a DEF Over
    <3>1. CASE RefreshRuns(k)
      <4>1. userRoute' = [userRoute EXCEPT ![k.conn] = now + FieldTTL] /\ k.op = "refresh"
        BY <3>1 DEF RefreshRuns
      <4>2. now \in Nat /\ closedAt[k.conn] \in Nat /\ FieldTTL \in Nat /\ MaxDelay \in Nat
        BY <2>a, <3>a, FieldTTLBounds, TimeAssumption DEF TypeOK, HubTypeOK, StoreTypeOK
      <4>3. Over(k.conn) => now <= closedAt[k.conn] + MaxDelay
        BY <3>a, <4>1, <4>2 DEF IInv, CallsInTime, OverInTime
      <4>4. now + FieldTTL \in now .. now + FieldTTL
        BY <4>2
      <4>5. Routes!Write(k.conn)
        BY <3>a, <3>b, <4>1, <4>3, <4>4 DEF Routes!Write
      <4> QED  BY <3>a, <4>5 DEF Routes!Next
    <3>2. CASE RemoveRuns(k)
      <4>1. Routes!Drop(k.conn)
        BY <3>2, <3>a, <3>b DEF RemoveRuns, Routes!Drop
      <4> QED  BY <3>a, <4>1 DEF Routes!Next
    <3>3. CASE RedisDrops(k)
      BY <3>3, <3>a, <2>b DEF RedisDrops, LoseCall
    <3> QED  BY <2>4, <3>1, <3>2, <3>3 DEF RedisRuns
  <2>5. ASSUME NEW s \in Pollers, UNCHANGED hubVars, PollStep(s)
        PROVE  UNCHANGED Routes!vars
    BY <2>5, <2>a, <2>b, PollStepFrame DEF hubVars
  <2> QED
    BY <2>a, <2>1, <2>2, <2>3, <2>4, <2>5, CallbacksEndLeases DEF Next, HubNext
<1> QED
  BY Invariance, <1>1, <1>2, PTL DEF Spec, RoutesAreLeased, Routes!Spec

=============================================================================
