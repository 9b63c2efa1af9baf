------------------------- MODULE ClusterPushProofs -------------------------
(***************************************************************************)
(* Proofs about ClusterPush, for any callers, requests, gateways and       *)
(* connections, and any bounds: that events are handed over in the order   *)
(* of the log, that no accepted request is dropped as invalid, and that    *)
(* the gateways implement PushDelivery.  What all of it rests on is that   *)
(* the inbox of a gateway is the rest of the log.                          *)
(***************************************************************************)
EXTENDS ClusterPush, SequenceTheorems, TLAPS

-----------------------------------------------------------------------------
\* Requests and events.

Published == Requests \cup Foreign

\* What Redis carries for a request: the service cleans it, another program
\* may not.
EventsOf(r) == {r, EventOf(r)}

\* Cleaning the ids of a request changes nothing else.
LEMMA EventFields ==
  ASSUME NEW r \in Published
  PROVE  /\ EventOf(r).op = r.op /\ EventOf(r).group = r.group
         /\ EventOf(r).method = r.method /\ EventOf(r).ids = Compact(r.ids)
BY RequestsAssumption DEF Published, EventOf

\* A subscriber acts on an event for a connection if and only if the request
\* was meant for it: its checks refuse nothing a connection is named in.
LEMMA DispatchedAreMeant ==
  ASSUME NEW r \in Published, NEW e \in EventsOf(r), NEW c \in Conns
  PROVE  /\ e.op = r.op
         /\ (Dispatches(e) /\ Addressed(e, c)) <=> Meant(r, c)
<1>1. e.op = r.op /\ e.group = r.group /\ e.method = r.method
      /\ (e.ids = r.ids \/ e.ids = Compact(r.ids))
  BY EventFields DEF EventsOf
<1>2. UserOf[c] # Blank /\ c # Blank /\ GroupOf[c] # Blank  BY ConnsAssumption
<1>3. \A i : i # Blank => (i \in e.ids <=> i \in r.ids)  BY <1>1 DEF Compact
<1>4. Addressed(e, c) <=> Addressed(r, c)  BY <1>1, <1>2, <1>3 DEF Addressed
<1>5. ASSUME Meant(r, c)  PROVE Dispatches(e)
  <2>1. e.op \in Sends \cup Closes  BY <1>1, <1>5 DEF Meant, Addressed, Sends, Closes
  <2>2. e.op \in Sends => e.method # Blank  BY <1>1, <1>5 DEF Meant
  <2>3. e.op \in ByIds => Compact(e.ids) # {}
    BY <1>1, <1>2, <1>3, <1>5 DEF Meant, Addressed, ByIds, Compact
  <2>4. e.op = "SendToGroup" => e.group # Blank
    BY <1>1, <1>2, <1>5 DEF Meant, Addressed
  <2> QED  BY <2>1, <2>2, <2>3, <2>4 DEF Dispatches
<1>6. ASSUME Dispatches(e), Addressed(e, c)  PROVE Meant(r, c)
  BY <1>1, <1>4, <1>6 DEF Dispatches, Meant
<1> QED  BY <1>1, <1>4, <1>5, <1>6 DEF Meant

\* The subscriber's checks pass whatever the service's checks passed.
LEMMA AcceptedDispatches ==
  ASSUME NEW r \in Requests, Accepts(r)
  PROVE  Dispatches(EventOf(r))
<1>1. r \in Published  BY DEF Published
<1>2. Compact(Compact(r.ids)) = Compact(r.ids)  BY DEF Compact
<1>3. r.op \in Sends \cup Closes  BY OperationsAssumption
<1> QED  BY <1>1, <1>2, <1>3, EventFields DEF Accepts, Dispatches

-----------------------------------------------------------------------------
\* The inductive invariant.

Underway == [caller : Callers, request : Requests, ran : BOOLEAN, waiting : BOOLEAN]

Message == [event : UNION {EventsOf(r) : r \in Published}, at : Nat]

\* The part of the types the log and its readers have.
Places ==
    /\ log \in Seq(Published)
    /\ sub \in [Servers -> {"connecting", "subscribed", "failed", "stopped"}]
    /\ inbox \in [Servers -> Seq(Message)]
    /\ conn \in [Conns -> {"new", "open", "closed"}]
    /\ received \in [Conns -> Seq(Nat)]

\* How much of the log gateway s has passed, by reading it or by being away.
Passed(s) == Len(log) - Len(inbox[s])

InboxOfReader == \A s \in Servers : sub[s] # "subscribed" => inbox[s] = <<>>

\* The inbox of a gateway is the rest of the log.
InboxIsRest ==
    \A s \in Servers :
        /\ Len(inbox[s]) <= Len(log)
        /\ \A i \in 1 .. Len(inbox[s]) :
              /\ inbox[s][i].at = Passed(s) + i
              /\ inbox[s][i].event \in EventsOf(log[Passed(s) + i])

\* What a connection was handed, its gateway has passed.
ReceivedIsPassed ==
    \A c \in Conns : \A i \in 1 .. Len(received[c]) :
        received[c][i] \in 1 .. Passed(ServerOf[c])

Ordered ==
    \A c \in Conns : \A i, j \in 1 .. Len(received[c]) :
        i < j => received[c][i] < received[c][j]

Reading == Places /\ InboxOfReader /\ InboxIsRest /\ ReceivedIsPassed /\ Ordered

\* The service checked every call, and so whatever is published, but for what
\* another program publishes.
Checked ==
    /\ \A k \in calls : Accepts(k.request)
    /\ \A k \in DOMAIN log : log[k] \in Foreign \/ Accepts(log[k])

Asking ==
    /\ calls \subseteq Underway
    /\ stopping \subseteq Servers
    /\ faults \in 0 .. MaxFaults
    /\ Checked

IInv == Reading /\ Asking

LEMMA PushInit == Init => IInv
<1> SUFFICES ASSUME Init PROVE IInv  OBVIOUS
<1>1. Places  BY EmptySeq DEF Init, Places
<1>2. InboxOfReader  BY DEF Init, InboxOfReader
<1>3. \A s \in Servers : Len(inbox[s]) = 0 /\ Len(log) = 0  BY EmptySeq DEF Init
<1>4. \A c \in Conns : Len(received[c]) = 0  BY EmptySeq DEF Init
<1>5. InboxIsRest  BY <1>3 DEF InboxIsRest
<1>6. ReceivedIsPassed /\ Ordered  BY <1>4 DEF ReceivedIsPassed, Ordered
<1>7. Asking  BY BoundsAssumption DEF Init, Asking, Checked
<1> QED  BY <1>1, <1>2, <1>5, <1>6, <1>7 DEF IInv, Reading

-----------------------------------------------------------------------------
\* What the steps do to the log and its readers.

\* A publication lengthens the log and the inbox of every reader by the same
\* event.
LEMMA PublishReads ==
  ASSUME Reading, NEW r \in Published, NEW e \in EventsOf(r), NEW channel \in Channels,
         RedisPublishes(r, e, channel)
  PROVE  /\ Reading'
         /\ log' = Append(log, r)
         /\ \A s \in Servers : sub[s] = "subscribed" => Passed(s)' = Passed(s)
         /\ \A s \in Servers : inbox'[s] = <<>> \/ sub[s] = "subscribed"
<1> DEFINE m == [event |-> e, at |-> Len(log) + 1]
<1>1. /\ log' = Append(log, r)
      /\ inbox' = [s \in Servers |-> IF sub[s] = "subscribed" THEN Append(inbox[s], m) ELSE inbox[s]]
      /\ UNCHANGED <<sub, conn, received>>
  BY DEF RedisPublishes, localVars
<1>2. /\ log \in Seq(Published) /\ Len(log) \in Nat /\ inbox \in [Servers -> Seq(Message)]
      /\ \A s \in Servers : inbox[s] \in Seq(Message) /\ Len(inbox[s]) \in Nat
  BY LenProperties DEF Reading, Places
<1>3. m \in Message  BY <1>2 DEF Message
<1> HIDE DEF m
<1>4. /\ log' \in Seq(Published) /\ Len(log') = Len(log) + 1
      /\ \A i \in 1 .. Len(log) : log'[i] = log[i]
      /\ log'[Len(log) + 1] = r
  BY <1>1, <1>2, AppendProperties
<1>5. ASSUME NEW s \in Servers, sub[s] = "subscribed"
      PROVE  /\ inbox'[s] \in Seq(Message) /\ Len(inbox'[s]) = Len(inbox[s]) + 1
             /\ \A i \in 1 .. Len(inbox[s]) : inbox'[s][i] = inbox[s][i]
             /\ inbox'[s][Len(inbox[s]) + 1] = m
  <2>1. inbox'[s] = Append(inbox[s], m)  BY <1>1, <1>5
  <2> QED  BY <1>2, <1>3, <2>1, AppendProperties
<1>6. ASSUME NEW s \in Servers, sub[s] # "subscribed"
      PROVE  inbox'[s] = <<>> /\ inbox[s] = <<>> /\ Len(inbox'[s]) = 0 /\ Len(inbox[s]) = 0
  BY <1>1, <1>6, EmptySeq DEF Reading, InboxOfReader
<1>7. Places'
  <2>1. \A s \in Servers : inbox'[s] \in Seq(Message)  BY <1>5, <1>6, EmptySeq
  <2>2. inbox' \in [Servers -> Seq(Message)]  BY <1>1, <2>1
  <2> QED  BY <1>1, <1>4, <2>2 DEF Reading, Places
<1>8. InboxOfReader'  BY <1>1, <1>6 DEF InboxOfReader
<1>9. \A s \in Servers : Len(inbox[s]) <= Len(log)  BY DEF Reading, InboxIsRest
<1>10. \A s \in Servers : sub[s] = "subscribed" => Passed(s)' = Passed(s)
  <2> SUFFICES ASSUME NEW s \in Servers, sub[s] = "subscribed"
               PROVE  Len(log') - Len(inbox'[s]) = Len(log) - Len(inbox[s])
    BY DEF Passed
  <2>1. Len(log) \in Nat /\ Len(inbox[s]) \in Nat  BY <1>2
  <2>2. Len(log') = Len(log) + 1 /\ Len(inbox'[s]) = Len(inbox[s]) + 1  BY <1>4, <1>5
  <2> QED  BY <2>1, <2>2
<1>11. InboxIsRest'
  <2> SUFFICES ASSUME NEW s \in Servers
               PROVE  /\ Len(inbox'[s]) <= Len(log')
                      /\ \A i \in 1 .. Len(inbox'[s]) :
                            /\ inbox'[s][i].at = Passed(s)' + i
                            /\ inbox'[s][i].event \in EventsOf(log'[Passed(s)' + i])
    BY DEF InboxIsRest, EventsOf, EventOf, Compact
  <2>1. CASE sub[s] # "subscribed"  BY <1>2, <1>4, <1>6, <2>1
  <2>2. CASE sub[s] = "subscribed"
    <3>1. Len(inbox'[s]) <= Len(log')  BY <1>2, <1>4, <1>5, <1>9, <2>2
    <3>2. Passed(s) \in Nat /\ Passed(s) + Len(inbox[s]) = Len(log) /\ Passed(s)' = Passed(s)
      BY <1>2, <1>9, <1>10, <2>2 DEF Passed
    <3>3. ASSUME NEW i \in 1 .. Len(inbox[s])
          PROVE  /\ inbox'[s][i].at = Passed(s) + i
                 /\ inbox'[s][i].event \in EventsOf(log'[Passed(s) + i])
      <4>1. Passed(s) + i \in 1 .. Len(log)  BY <1>2, <3>2
      <4>2. inbox[s][i].at = Passed(s) + i
            /\ inbox[s][i].event \in EventsOf(log[Passed(s) + i])
        BY DEF Reading, InboxIsRest
      <4> QED  BY <1>4, <1>5, <2>2, <4>1, <4>2
    <3>4. inbox'[s][Len(inbox[s]) + 1].at = Passed(s) + (Len(inbox[s]) + 1)
      BY <1>2, <1>5, <2>2, <3>2 DEF m
    <3>5. inbox'[s][Len(inbox[s]) + 1].event \in EventsOf(log'[Passed(s) + (Len(inbox[s]) + 1)])
      <4>1. Passed(s) + (Len(inbox[s]) + 1) = Len(log) + 1
        <5>1. Passed(s) \in Nat /\ Len(inbox[s]) \in Nat /\ Passed(s) + Len(inbox[s]) = Len(log)
          BY <1>2, <3>2
        <5> QED  BY <5>1
      <4> QED  BY <1>4, <1>5, <2>2, <4>1 DEF m
    <3>6. \A i \in 1 .. Len(inbox'[s]) : i \in 1 .. Len(inbox[s]) \/ i = Len(inbox[s]) + 1
      BY <1>2, <1>5, <2>2
    <3> QED  BY <3>1, <3>2, <3>3, <3>4, <3>5, <3>6
  <2> QED  BY <2>1, <2>2
<1>12. ReceivedIsPassed'
  <2>1. ASSUME NEW s \in Servers  PROVE Passed(s) \in Nat /\ Passed(s)' \in Nat /\ Passed(s) <= Passed(s)'
    <3>1. Passed(s) \in Nat  BY <1>2, <1>9 DEF Passed
    <3>2. CASE sub[s] = "subscribed"  BY <1>10, <3>1, <3>2
    <3>3. CASE sub[s] # "subscribed"  BY <1>2, <1>4, <1>6, <3>3 DEF Passed
    <3> QED  BY <3>1, <3>2, <3>3
  <2>2. \A c \in Conns : ServerOf[c] \in Servers  BY ConnsAssumption
  <2> QED  BY <1>1, <2>1, <2>2 DEF Reading, ReceivedIsPassed
<1>13. Ordered'  BY <1>1 DEF Reading, Ordered
<1> QED  BY <1>1, <1>6, <1>7, <1>8, <1>10, <1>11, <1>12, <1>13 DEF Reading

\* A subscription that ends, or is lost, takes its inbox with it.
LEMMA LosingReads ==
  ASSUME Reading, NEW s \in Servers, NEW to \in {"connecting", "failed", "stopped"},
         sub' = [sub EXCEPT ![s] = to], inbox' = [inbox EXCEPT ![s] = <<>>],
         UNCHANGED <<log, conn, received>>
  PROVE  Reading'
<1>1. /\ log \in Seq(Published) /\ Len(log) \in Nat
      /\ \A t \in Servers : inbox[t] \in Seq(Message) /\ Len(inbox[t]) \in Nat
      /\ inbox \in [Servers -> Seq(Message)]
      /\ sub \in [Servers -> {"connecting", "subscribed", "failed", "stopped"}]
  BY LenProperties DEF Reading, Places
<1>2. inbox'[s] = <<>> /\ Len(inbox'[s]) = 0 /\ <<>> \in Seq(Message)  BY <1>1, EmptySeq
<1>3. \A t \in Servers \ {s} : inbox'[t] = inbox[t] /\ sub'[t] = sub[t]  BY <1>1
<1>4. Places'  BY <1>1, <1>2 DEF Reading, Places
<1>5. InboxOfReader'  BY <1>2, <1>3 DEF Reading, InboxOfReader
<1>6. InboxIsRest'
  <2> SUFFICES ASSUME NEW t \in Servers
               PROVE  /\ Len(inbox'[t]) <= Len(log)
                      /\ \A i \in 1 .. Len(inbox'[t]) :
                            /\ inbox'[t][i].at = Len(log) - Len(inbox'[t]) + i
                            /\ inbox'[t][i].event \in EventsOf(log[Len(log) - Len(inbox'[t]) + i])
    BY DEF InboxIsRest, Passed
  <2>1. CASE t = s  BY <1>1, <1>2, <2>1
  <2>2. CASE t # s  BY <1>3, <2>2 DEF Reading, InboxIsRest, Passed
  <2> QED  BY <2>1, <2>2
<1>7. ReceivedIsPassed'
  <2> SUFFICES ASSUME NEW c \in Conns, NEW i \in 1 .. Len(received[c])
               PROVE  received[c][i] \in 1 .. (Len(log) - Len(inbox'[ServerOf[c]]))
    BY DEF ReceivedIsPassed, Passed
  <2>1. ServerOf[c] \in Servers  BY ConnsAssumption
  <2>2. received[c][i] \in 1 .. (Len(log) - Len(inbox[ServerOf[c]]))
    BY DEF Reading, ReceivedIsPassed, Passed
  <2>3. CASE ServerOf[c] = s
    <3>1. Len(log) \in Nat /\ Len(inbox[s]) \in Nat /\ Len(inbox'[s]) = 0  BY <1>1, <1>2
    <3> QED  BY <2>2, <2>3, <3>1
  <2>4. CASE ServerOf[c] # s  BY <1>3, <2>1, <2>2, <2>4
  <2> QED  BY <2>3, <2>4
<1>8. Ordered'  BY DEF Reading, Ordered
<1> QED  BY <1>4, <1>5, <1>6, <1>7, <1>8 DEF Reading

\* Subscribing changes neither the log nor an inbox.
LEMMA SubscribingReads ==
  ASSUME Reading, NEW s \in Servers, Subscribes(s)
  PROVE  Reading' /\ inbox[s] = <<>>
<1>1. sub' = [sub EXCEPT ![s] = "subscribed"] /\ UNCHANGED <<log, inbox, conn, received>>
  BY DEF Subscribes, localVars
<1>2. sub \in [Servers -> {"connecting", "subscribed", "failed", "stopped"}]  BY DEF Reading, Places
<1>3. Places'  BY <1>1, <1>2 DEF Reading, Places
<1>4. InboxOfReader'  BY <1>1, <1>2 DEF Reading, InboxOfReader
<1>5. InboxIsRest' /\ ReceivedIsPassed' /\ Ordered'
  BY <1>1 DEF Reading, InboxIsRest, ReceivedIsPassed, Ordered, Passed, EventsOf, EventOf, Compact
<1>6. inbox[s] = <<>>  BY DEF Subscribes, Reading, InboxOfReader
<1> QED  BY <1>3, <1>4, <1>5, <1>6 DEF Reading

\* Connections come and go without the log.
LEMMA ConnectionsRead ==
  ASSUME Reading, conn' \in [Conns -> {"new", "open", "closed"}],
         UNCHANGED <<log, sub, inbox, received>>
  PROVE  Reading'
<1>1. Places' /\ InboxOfReader'  BY DEF Reading, Places, InboxOfReader
<1>2. InboxIsRest' /\ ReceivedIsPassed' /\ Ordered'
  BY DEF Reading, InboxIsRest, ReceivedIsPassed, Ordered, Passed, EventsOf, EventOf, Compact
<1> QED  BY <1>1, <1>2 DEF Reading

\* The first message of an inbox is the entry after what the gateway passed.
LEMMA HeadIsNext ==
  ASSUME Reading, NEW s \in Servers, inbox[s] # <<>>
  PROVE  /\ sub[s] = "subscribed"
         /\ Passed(s) \in Nat /\ Passed(s) < Len(log)
         /\ Head(inbox[s]).at = Passed(s) + 1
         /\ log[Passed(s) + 1] \in Published
         /\ Head(inbox[s]).event \in EventsOf(log[Passed(s) + 1])
<1>1. sub[s] = "subscribed"  BY DEF Reading, InboxOfReader
<1>2. inbox[s] \in Seq(Message) /\ log \in Seq(Published)  BY DEF Reading, Places
<1>3. Len(inbox[s]) \in Nat \ {0} /\ Len(log) \in Nat  BY <1>2, EmptySeq, LenProperties
<1>4. Len(inbox[s]) <= Len(log)  BY DEF Reading, InboxIsRest
<1>5. Passed(s) \in Nat /\ Passed(s) < Len(log)  BY <1>3, <1>4 DEF Passed
<1>6. Head(inbox[s]) = inbox[s][1]  BY <1>2, <1>3
<1>7. 1 \in 1 .. Len(inbox[s])  BY <1>3
<1>8. Passed(s) + 1 \in 1 .. Len(log)  BY <1>3, <1>5
<1>9. log[Passed(s) + 1] \in Published  BY <1>2, <1>8, ElementOfSeq
<1> QED  BY <1>1, <1>5, <1>6, <1>7, <1>9 DEF Reading, InboxIsRest

\* The open connections of gateway s that an entry of the log was meant for.
Hit(s, r) == {c \in Conns : ServerOf[c] = s /\ conn[c] = "open" /\ Meant(r, c)}

\* Receiving a message does what the next entry of the log asks for.
LEMMA ReceiveObeys ==
  ASSUME Reading, NEW s \in Servers, Receive(s)
  PROVE  /\ inbox' = [inbox EXCEPT ![s] = Tail(@)]
         /\ UNCHANGED <<calls, log, sub, stopping, faults>>
         /\ log[Passed(s) + 1].op \in Closes =>
               /\ conn' = [c \in Conns |->
                     IF c \in Hit(s, log[Passed(s) + 1]) THEN "closed" ELSE conn[c]]
               /\ UNCHANGED received
         /\ log[Passed(s) + 1].op \notin Closes =>
               /\ received' = [c \in Conns |->
                     IF c \in Hit(s, log[Passed(s) + 1])
                     THEN Append(received[c], Passed(s) + 1) ELSE received[c]]
               /\ UNCHANGED conn
<1> DEFINE m == Head(inbox[s])
           r == log[Passed(s) + 1]
           hit == {c \in Conns : /\ ServerOf[c] = s /\ conn[c] = "open"
                                 /\ Dispatches(m.event) /\ Addressed(m.event, c)}
<1>1. /\ inbox[s] # <<>>
      /\ inbox' = [inbox EXCEPT ![s] = Tail(@)]
      /\ UNCHANGED <<calls, log, sub, stopping, faults>>
      /\ Deliver(s, m.event, m.at)
  BY DEF Receive
<1>2. m.at = Passed(s) + 1 /\ r \in Published /\ m.event \in EventsOf(r)
  BY <1>1, HeadIsNext
<1>3. m.event.op \in Closes =>
        conn' = [c \in Conns |-> IF c \in hit THEN "closed" ELSE conn[c]] /\ UNCHANGED received
  BY <1>1 DEF Deliver
<1>4. m.event.op \notin Closes =>
        /\ received' = [c \in Conns |-> IF c \in hit THEN Append(received[c], m.at) ELSE received[c]]
        /\ UNCHANGED conn
  BY <1>1 DEF Deliver
<1> HIDE DEF m, r
<1>5. \A c \in Conns : (Dispatches(m.event) /\ Addressed(m.event, c)) <=> Meant(r, c)
  BY <1>2, DispatchedAreMeant
<1>6. hit = Hit(s, r)  BY <1>5 DEF Hit
<1>7. m.event.op = r.op  BY <1>2, EventFields DEF EventsOf
<1> HIDE DEF hit
<1> QED  BY <1>1, <1>2, <1>3, <1>4, <1>6, <1>7 DEF r

\* Receiving a message passes one entry, which is the last one handed to a
\* connection so far.
LEMMA ReceivingReads ==
  ASSUME Reading, NEW s \in Servers, Receive(s)
  PROVE  Reading' /\ sub[s] = "subscribed" /\ Passed(s)' = Passed(s) + 1
<1> DEFINE r == log[Passed(s) + 1]
           hit == Hit(s, r)
           at == Passed(s) + 1
<1>1. /\ inbox' = [inbox EXCEPT ![s] = Tail(@)] /\ UNCHANGED <<log, sub>>
      /\ inbox[s] # <<>>
  BY ReceiveObeys DEF Receive
<1>2. /\ log \in Seq(Published) /\ Len(log) \in Nat
      /\ inbox \in [Servers -> Seq(Message)]
      /\ \A t \in Servers : inbox[t] \in Seq(Message) /\ Len(inbox[t]) \in Nat
      /\ received \in [Conns -> Seq(Nat)]
      /\ \A c \in Conns : received[c] \in Seq(Nat) /\ Len(received[c]) \in Nat
      /\ \A c \in Conns : ServerOf[c] \in Servers
  BY LenProperties, ConnsAssumption DEF Reading, Places
<1>3. sub[s] = "subscribed" /\ Passed(s) \in Nat /\ Passed(s) < Len(log) /\ at \in Nat
  BY <1>1, HeadIsNext
<1>4. /\ inbox'[s] \in Seq(Message) /\ Len(inbox'[s]) = Len(inbox[s]) - 1
      /\ \A i \in 1 .. Len(inbox'[s]) : inbox'[s][i] = inbox[s][i + 1]
  <2>1. inbox'[s] = Tail(inbox[s])  BY <1>1, <1>2
  <2> QED  BY <1>1, <1>2, <2>1, HeadTailProperties
<1>5. \A t \in Servers \ {s} : inbox'[t] = inbox[t]  BY <1>1, <1>2
<1>6. Passed(s)' = at
  <2>1. Len(log) - (Len(inbox[s]) - 1) = Len(log) - Len(inbox[s]) + 1
    BY <1>2
  <2> QED  BY <1>1, <1>4, <2>1 DEF Passed
<1>7. /\ conn' \in [Conns -> {"new", "open", "closed"}]
      /\ received' \in [Conns -> Seq(Nat)]
      /\ \A c \in Conns : \/ received'[c] = received[c]
                          \/ ServerOf[c] = s /\ received'[c] = Append(received[c], at)
  <2> HIDE DEF at
  <2>1. \A c \in Conns : Append(received[c], at) \in Seq(Nat)  BY <1>2, <1>3, AppendProperties
  <2>2. \A c \in hit : ServerOf[c] = s  BY DEF Hit
  <2>3. conn \in [Conns -> {"new", "open", "closed"}]  BY DEF Reading, Places
  <2> HIDE DEF hit
  <2>4. CASE r.op \in Closes
    <3>1. conn' = [c \in Conns |-> IF c \in hit THEN "closed" ELSE conn[c]] /\ received' = received
      BY <2>4, ReceiveObeys DEF hit
    <3> QED  BY <1>2, <2>3, <3>1
  <2>5. CASE r.op \notin Closes
    <3>1. /\ received' = [c \in Conns |-> IF c \in hit THEN Append(received[c], at) ELSE received[c]]
          /\ conn' = conn
      BY <2>5, ReceiveObeys DEF hit, at
    <3> QED  BY <1>2, <2>1, <2>2, <2>3, <3>1
  <2> QED  BY <2>4, <2>5
<1> HIDE DEF at, hit, r
<1>8. Places'
  <2>1. \A t \in Servers : inbox'[t] \in Seq(Message)  BY <1>2, <1>4, <1>5
  <2>2. inbox' \in [Servers -> Seq(Message)]  BY <1>1, <1>2, <2>1
  <2> QED  BY <1>1, <1>7, <2>2 DEF Reading, Places
<1>9. InboxOfReader'
  BY <1>1, <1>3, <1>5 DEF Reading, InboxOfReader
<1>10. ASSUME NEW c \in Conns, NEW i \in 1 .. Len(received'[c])
       PROVE  \/ i \in 1 .. Len(received[c]) /\ received'[c][i] = received[c][i]
              \/ /\ i = Len(received[c]) + 1 /\ ServerOf[c] = s
                 /\ received'[c][i] = at
  <2>1. CASE received'[c] = received[c]  BY <2>1
  <2>2. CASE ServerOf[c] = s /\ received'[c] = Append(received[c], at)
    <3>1. /\ Len(received'[c]) = Len(received[c]) + 1
          /\ \A j \in 1 .. Len(received[c]) : received'[c][j] = received[c][j]
          /\ received'[c][Len(received[c]) + 1] = at
      BY <1>2, <1>3, <2>2, AppendProperties
    <3>2. i \in 1 .. Len(received[c]) \/ i = Len(received[c]) + 1  BY <1>2, <3>1
    <3> QED  BY <2>2, <3>1, <3>2
  <2> QED  BY <1>7, <2>1, <2>2
<1>11. InboxIsRest'
  <2> SUFFICES ASSUME NEW t \in Servers
               PROVE  /\ Len(inbox'[t]) <= Len(log)
                      /\ \A i \in 1 .. Len(inbox'[t]) :
                            /\ inbox'[t][i].at = Passed(t)' + i
                            /\ inbox'[t][i].event \in EventsOf(log[Passed(t)' + i])
    BY <1>1 DEF InboxIsRest, EventsOf, EventOf, Compact
  <2>1. CASE t # s
    <3>1. Passed(t)' = Passed(t)  BY <1>1, <1>5, <2>1 DEF Passed
    <3> QED  BY <1>5, <2>1, <3>1 DEF Reading, InboxIsRest
  <2>2. CASE t = s
    <3>1. Len(inbox[s]) \in Nat /\ Len(inbox[s]) <= Len(log) /\ Len(inbox'[s]) <= Len(log)
      BY <1>2, <1>4 DEF Reading, InboxIsRest
    <3>2. ASSUME NEW i \in 1 .. Len(inbox'[s])
          PROVE  /\ inbox'[s][i].at = at + i
                 /\ inbox'[s][i].event \in EventsOf(log[at + i])
      <4>1. i + 1 \in 1 .. Len(inbox[s]) /\ Passed(s) + (i + 1) = at + i
        <5>1. /\ Passed(s) \in Nat /\ Len(inbox[s]) \in Nat
              /\ i \in 1 .. Len(inbox[s]) - 1
          BY <1>3, <1>4, <3>1
        <5> QED  BY <5>1 DEF at
      <4>2. inbox[s][i + 1].at = at + i /\ inbox[s][i + 1].event \in EventsOf(log[at + i])
        BY <4>1 DEF Reading, InboxIsRest
      <4> QED  BY <1>4, <4>2
    <3> QED  BY <1>6, <2>2, <3>1, <3>2
  <2> QED  BY <2>1, <2>2
<1>12. ReceivedIsPassed'
  <2> SUFFICES ASSUME NEW c \in Conns, NEW i \in 1 .. Len(received'[c])
               PROVE  received'[c][i] \in 1 .. Passed(ServerOf[c])'
    BY DEF ReceivedIsPassed
  <2>1. i \in 1 .. Len(received[c]) => received[c][i] \in 1 .. Passed(ServerOf[c])
    BY DEF Reading, ReceivedIsPassed
  <2>2. CASE ServerOf[c] = s
    <3>1. Passed(ServerOf[c])' = at  BY <1>6, <2>2
    <3>2. i \in 1 .. Len(received[c]) => received[c][i] \in 1 .. Passed(s)  BY <2>1, <2>2
    <3> QED  BY <1>3, <1>10, <3>1, <3>2 DEF at
  <2>3. CASE ServerOf[c] # s
    <3>1. Passed(ServerOf[c])' = Passed(ServerOf[c])  BY <1>1, <1>2, <1>5, <2>3 DEF Passed
    <3> QED  BY <1>10, <2>1, <2>3, <3>1
  <2> QED  BY <2>2, <2>3
<1>13. Ordered'
  <2> SUFFICES ASSUME NEW c \in Conns, NEW i \in 1 .. Len(received'[c]),
                      NEW j \in 1 .. Len(received'[c]), i < j
               PROVE  received'[c][i] < received'[c][j]
    BY DEF Ordered
  <2>1. Len(received[c]) \in Nat  BY <1>2
  <2>2. i \in 1 .. Len(received[c]) /\ received'[c][i] = received[c][i]
    <3>1. Len(received'[c]) <= Len(received[c]) + 1
      <4>1. \A k \in 1 .. Len(received'[c]) : k <= Len(received[c]) + 1  BY <1>10, <2>1
      <4>2. Len(received'[c]) \in Nat  BY <1>7, LenProperties
      <4>3. CASE Len(received'[c]) = 0  BY <2>1, <4>3
      <4>4. CASE Len(received'[c]) # 0
        <5>1. Len(received'[c]) \in 1 .. Len(received'[c])  BY <4>2, <4>4
        <5> QED  BY <4>1, <5>1
      <4> QED  BY <4>3, <4>4
    <3>2. i # Len(received[c]) + 1  BY <2>1, <3>1
    <3> QED  BY <1>10, <3>2
  <2>3. CASE j \in 1 .. Len(received[c]) /\ received'[c][j] = received[c][j]
    BY <2>2, <2>3 DEF Reading, Ordered
  <2>4. CASE ServerOf[c] = s /\ received'[c][j] = at
    <3>1. received[c][i] \in 1 .. Passed(s)  BY <2>2, <2>4 DEF Reading, ReceivedIsPassed
    <3> QED  BY <1>3, <2>2, <2>4, <3>1 DEF at
  <2> QED  BY <1>10, <2>3, <2>4
<1> QED  BY <1>3, <1>6, <1>8, <1>9, <1>11, <1>12, <1>13 DEF Reading, at

-----------------------------------------------------------------------------
\* The invariant holds.

\* A call that answers, fails or begins touches no log and no reader.
LEMMA CallsKeepReading ==
  ASSUME Reading, UNCHANGED <<log, subVars, localVars>>
  PROVE  Reading'
<1>1. UNCHANGED <<log, sub, inbox, conn, received>>  BY DEF subVars, localVars
<1>2. conn' \in [Conns -> {"new", "open", "closed"}]  BY <1>1 DEF Reading, Places
<1> QED  BY <1>1, <1>2, ConnectionsRead

\* An error is counted up to its bound.
LEMMA FaultCounts ==
  ASSUME faults \in 0 .. MaxFaults, Fault
  PROVE  faults' \in 0 .. MaxFaults
BY BoundsAssumption DEF Fault

LEMMA CallStep ==
  ASSUME IInv, NEW p \in Callers, NEW r \in Requests, Call(p, r)
  PROVE  IInv'
<1> DEFINE k == [caller |-> p, request |-> r, ran |-> FALSE, waiting |-> TRUE]
<1>1. Accepts(r) /\ calls' = calls \cup {k} /\ UNCHANGED <<log, subVars, localVars, faults>>
  BY DEF Call
<1>2. k \in Underway /\ k.request = r  BY DEF Underway
<1> HIDE DEF k
<1>3. Reading'  BY <1>1, CallsKeepReading DEF IInv
<1>4. Checked'  BY <1>1, <1>2 DEF IInv, Asking, Checked, Accepts, Compact
<1> QED  BY <1>1, <1>2, <1>3, <1>4 DEF IInv, Asking, subVars

LEMMA CallRunsStep ==
  ASSUME IInv, NEW k \in calls, CallRuns(k)
  PROVE  IInv'
<1>1. k \in Underway /\ k.request \in Requests /\ Accepts(k.request)
  BY DEF IInv, Asking, Checked, Underway
<1>2. /\ RedisPublishes(k.request, EventOf(k.request), ChannelForTarget(k.request.op))
      /\ Fault \/ UNCHANGED faults
      /\ UNCHANGED stopping
      /\ calls' \subseteq (calls \ {k}) \cup {[k EXCEPT !.ran = TRUE]}
  BY DEF CallRuns, RedisPublishes
<1>3. [k EXCEPT !.ran = TRUE] \in Underway /\ [k EXCEPT !.ran = TRUE].request = k.request
  BY <1>1 DEF Underway
<1>4. k.request \in Published /\ EventOf(k.request) \in EventsOf(k.request)
  BY <1>1 DEF Published, EventsOf
<1>5. ChannelForTarget(k.request.op) \in Channels  BY DEF ChannelForTarget, Channels
<1>6. Reading' /\ log' = Append(log, k.request)
  BY <1>2, <1>4, <1>5, PublishReads DEF IInv
<1>7. faults' \in 0 .. MaxFaults  BY <1>2, FaultCounts DEF IInv, Asking
<1>8. \A j \in DOMAIN log' : (j \in DOMAIN log /\ log'[j] = log[j]) \/ log'[j] = k.request
  <2>1. log \in Seq(Published)  BY DEF IInv, Reading, Places
  <2>2. /\ DOMAIN log = 1 .. Len(log) /\ DOMAIN log' = 1 .. Len(log) + 1 /\ Len(log) \in Nat
        /\ \A j \in 1 .. Len(log) : log'[j] = log[j]
        /\ log'[Len(log) + 1] = k.request
    BY <1>4, <1>6, <2>1, AppendProperties, LenProperties
  <2> QED  BY <2>2
<1>9. Checked'
  <2>1. \A j \in calls' : Accepts(j.request)
    BY <1>1, <1>2, <1>3 DEF IInv, Asking, Checked
  <2>2. \A j \in DOMAIN log' : log'[j] \in Foreign \/ Accepts(log'[j])
    BY <1>1, <1>8 DEF IInv, Asking, Checked
  <2> QED  BY <2>1, <2>2 DEF Checked, Accepts, Compact
<1>10. calls' \subseteq Underway  BY <1>2, <1>3 DEF IInv, Asking
<1> QED  BY <1>2, <1>6, <1>7, <1>9, <1>10 DEF IInv, Asking

LEMMA CallEndsStep ==
  ASSUME IInv, NEW k \in calls, CallReturns(k) \/ CallFails(k) \/ CallIsLost(k)
  PROVE  IInv'
<1>1. /\ calls' \subseteq (calls \ {k}) \cup {[k EXCEPT !.waiting = FALSE]}
      /\ Fault \/ UNCHANGED faults
      /\ UNCHANGED <<log, subVars, localVars>>
  BY DEF CallReturns, CallFails, CallIsLost
<1>2. k \in Underway /\ Accepts(k.request)  BY DEF IInv, Asking, Checked
<1>3. [k EXCEPT !.waiting = FALSE] \in Underway /\ [k EXCEPT !.waiting = FALSE].request = k.request
  BY <1>2 DEF Underway
<1>4. Reading'  BY <1>1, CallsKeepReading DEF IInv
<1>5. faults' \in 0 .. MaxFaults  BY <1>1, FaultCounts DEF IInv, Asking
<1>6. Checked'
  BY <1>1, <1>2, <1>3 DEF IInv, Asking, Checked, Accepts, Compact
<1> QED  BY <1>1, <1>3, <1>4, <1>5, <1>6 DEF IInv, Asking, subVars

LEMMA ForeignStep ==
  ASSUME IInv, NEW r \in Foreign, NEW channel \in Channels, ForeignPublishes(r, channel)
  PROVE  IInv'
<1>1. RedisPublishes(r, r, channel) /\ UNCHANGED <<calls, faults, stopping>>
  BY DEF ForeignPublishes, RedisPublishes
<1>2. r \in Published /\ r \in EventsOf(r)  BY DEF Published, EventsOf
<1>3. Reading' /\ log' = Append(log, r)  BY <1>1, <1>2, PublishReads DEF IInv
<1>4. \A j \in DOMAIN log' : (j \in DOMAIN log /\ log'[j] = log[j]) \/ log'[j] = r
  <2>1. log \in Seq(Published)  BY DEF IInv, Reading, Places
  <2>2. /\ DOMAIN log = 1 .. Len(log) /\ DOMAIN log' = 1 .. Len(log) + 1 /\ Len(log) \in Nat
        /\ \A j \in 1 .. Len(log) : log'[j] = log[j]
        /\ log'[Len(log) + 1] = r
    BY <1>2, <1>3, <2>1, AppendProperties, LenProperties
  <2> QED  BY <2>2
<1>5. Checked'
  <2>1. \A j \in calls' : Accepts(j.request)  BY <1>1 DEF IInv, Asking, Checked
  <2>2. \A j \in DOMAIN log' : log'[j] \in Foreign \/ Accepts(log'[j])
    BY <1>4 DEF IInv, Asking, Checked
  <2> QED  BY <2>1, <2>2 DEF Checked, Accepts, Compact
<1> QED  BY <1>1, <1>3, <1>5 DEF IInv, Asking

LEMMA SubscriberStep ==
  ASSUME IInv, NEW s \in Servers,
         \/ Subscribes(s) \/ ReceiveFails(s) \/ DialTimesOut(s) \/ Receive(s)
             \/ Cancel(s) \/ Stops(s)
  PROVE  IInv'
<1>1. /\ UNCHANGED <<calls, log>>
      /\ Fault \/ UNCHANGED faults
      /\ stopping' \subseteq stopping \cup {s}
  BY DEF Subscribes, ReceiveFails, DialTimesOut, Receive, Cancel, Stops
<1>2. faults' \in 0 .. MaxFaults  BY <1>1, FaultCounts DEF IInv, Asking
<1>3. Checked'  BY <1>1 DEF IInv, Asking, Checked, Accepts, Compact
<1>4. Asking'  BY <1>1, <1>2, <1>3 DEF IInv, Asking
<1>5. CASE Subscribes(s)  BY <1>4, <1>5, SubscribingReads DEF IInv
<1>6. CASE ReceiveFails(s)
  BY <1>4, <1>6, LosingReads DEF IInv, ReceiveFails, localVars
<1>7. CASE Receive(s)  BY <1>4, <1>7, ReceivingReads DEF IInv
<1>8. CASE Cancel(s)
  <2>1. UNCHANGED <<log, sub, inbox, conn, received>>  BY <1>8 DEF Cancel, localVars
  <2>2. conn' \in [Conns -> {"new", "open", "closed"}]  BY <2>1 DEF IInv, Reading, Places
  <2> QED  BY <1>4, <2>1, <2>2, ConnectionsRead DEF IInv
<1>9. CASE Stops(s)
  BY <1>4, <1>9, LosingReads DEF IInv, Stops, localVars
<1>10. CASE DialTimesOut(s)
  <2>1. inbox' = [inbox EXCEPT ![s] = <<>>]
    BY <1>10 DEF IInv, Reading, Places, InboxOfReader, DialTimesOut
  <2> QED  BY <1>4, <1>10, <2>1, LosingReads DEF IInv, DialTimesOut, localVars
<1> QED  BY <1>5, <1>6, <1>7, <1>8, <1>9, <1>10

LEMMA ConnectionStep ==
  ASSUME IInv, NEW c \in Conns, Opens(c) \/ Leaves(c)
  PROVE  IInv'
<1>1. UNCHANGED <<calls, log, sub, inbox, stopping, received, faults>>
  BY DEF Opens, Leaves, subVars
<1>2. conn' \in [Conns -> {"new", "open", "closed"}]
  BY DEF IInv, Reading, Places, Opens, Leaves
<1>3. Reading'  BY <1>1, <1>2, ConnectionsRead DEF IInv
<1> QED  BY <1>1, <1>3 DEF IInv, Asking, Checked, Accepts, Compact

LEMMA PushStep == IInv /\ [Next]_vars => IInv'
<1> SUFFICES ASSUME IInv, [Next]_vars  PROVE IInv'  OBVIOUS
<1>1. CASE UNCHANGED vars
  <2>1. UNCHANGED <<calls, log, sub, inbox, stopping, conn, received, faults>>  BY <1>1 DEF vars
  <2>2. conn' \in [Conns -> {"new", "open", "closed"}]  BY <2>1 DEF IInv, Reading, Places
  <2>3. Reading'  BY <2>1, <2>2, ConnectionsRead DEF IInv
  <2> QED  BY <2>1, <2>3 DEF IInv, Asking, Checked, Accepts, Compact
<1> QED  BY <1>1, CallStep, CallRunsStep, CallEndsStep, ForeignStep, SubscriberStep,
            ConnectionStep DEF Next

LEMMA PushInvariance == Spec => []IInv
BY PushInit, PushStep, PTL DEF Spec

-----------------------------------------------------------------------------
\* The theorems.

\* The state always has its types: an unsubscribed gateway has an empty inbox,
\* and what a connection was handed is in the log.
THEOREM PushTypes == Spec => []TypeOK
<1>1. ASSUME IInv  PROVE TypeOK
  <2>1. \A k \in calls : /\ k.caller \in Callers /\ k.request \in Requests
                         /\ {k.ran, k.waiting} \subseteq BOOLEAN
    BY <1>1 DEF IInv, Asking, Underway
  <2>2. log \in Seq(Published) /\ Len(log) \in Nat /\ DOMAIN log = 1 .. Len(log)
    BY <1>1, LenProperties DEF IInv, Reading, Places
  <2>3. \A k \in DOMAIN log : log[k] \in Requests \cup Foreign
    BY <2>2, ElementOfSeq DEF Published
  <2>4. ASSUME NEW c \in Conns, NEW i \in DOMAIN received[c]
        PROVE  received[c][i] \in DOMAIN log
    <3>1. received[c] \in Seq(Nat) /\ DOMAIN received[c] = 1 .. Len(received[c])
      BY <1>1, LenProperties DEF IInv, Reading, Places
    <3>2. received[c][i] \in 1 .. Passed(ServerOf[c])
      BY <1>1, <3>1 DEF IInv, Reading, ReceivedIsPassed
    <3>3. ServerOf[c] \in Servers  BY ConnsAssumption
    <3>4. inbox[ServerOf[c]] \in Seq(Message) /\ Len(inbox[ServerOf[c]]) \in Nat
      BY <1>1, <3>3, LenProperties DEF IInv, Reading, Places
    <3> QED  BY <2>2, <3>2, <3>4 DEF Passed
  <2> QED
    BY <1>1, <2>1, <2>3, <2>4 DEF TypeOK, IInv, Asking, Reading, Places, InboxOfReader
<1> QED  BY <1>1, PushInvariance, PTL

\* A connection is handed publications in the order of the log and each at
\* most once, through lost subscriptions, retries and shutdown.
THEOREM HandedInOrder == Spec => []InOrder
<1>1. ASSUME IInv  PROVE InOrder
  <2>1. \A c \in Conns : DOMAIN received[c] = 1 .. Len(received[c])
    BY <1>1, LenProperties DEF IInv, Reading, Places
  <2> QED  BY <1>1, <2>1 DEF IInv, Reading, Ordered, InOrder
<1> QED  BY <1>1, PushInvariance, PTL

\* Nothing the service accepted and published is dropped as invalid by a
\* subscriber.
THEOREM AcceptedAreDispatched == Spec => []AcceptedIsDispatched
<1>1. ASSUME IInv  PROVE AcceptedIsDispatched
  <2> SUFFICES ASSUME NEW k \in DOMAIN log, log[k] \notin Foreign
               PROVE  Dispatches(EventOf(log[k]))
    BY DEF AcceptedIsDispatched
  <2>1. log \in Seq(Published) /\ DOMAIN log = 1 .. Len(log)
    BY <1>1, LenProperties DEF IInv, Reading, Places
  <2>2. log[k] \in Requests  BY <2>1, ElementOfSeq DEF Published
  <2>3. Accepts(log[k])  BY <1>1 DEF IInv, Asking, Checked
  <2> QED  BY <2>2, <2>3, AcceptedDispatches
<1> QED  BY <1>1, PushInvariance, PTL

-----------------------------------------------------------------------------
\* The refinement.

\* What the abstract specification knows of the gateways.
Attached == {s \in Servers : sub[s] = "subscribed"}

Cursor == [s \in Servers |-> IF sub[s] = "subscribed" THEN Passed(s) ELSE 0]

\* What the abstract specification knows is untouched.
Untouched == UNCHANGED <<log, Attached, Cursor, conn, received>>

LEMMA CursorOfReader ==
  ASSUME NEW s \in Servers, sub[s] = "subscribed"
  PROVE  s \in Attached /\ Cursor[s] = Passed(s)
BY DEF Attached, Cursor

LEMMA DeliveryInit == Init => Delivery!Init
<1> SUFFICES ASSUME Init PROVE Delivery!Init  OBVIOUS
<1>1. {s \in Servers : sub[s] = "subscribed"} = {}  BY DEF Init
<1>2. [s \in Servers |-> IF sub[s] = "subscribed" THEN Len(log) - Len(inbox[s]) ELSE 0]
         = [s \in Servers |-> 0]
  BY DEF Init
<1> QED  BY <1>1, <1>2 DEF Init, Delivery!Init

\* A publication, of a handler or of another program, is a Publish.
LEMMA PublishRefines ==
  ASSUME Reading, NEW r \in Published, NEW e \in EventsOf(r), NEW channel \in Channels,
         RedisPublishes(r, e, channel)
  PROVE  Delivery!Publish(r)
<1>1. /\ log' = Append(log, r)
      /\ \A s \in Servers : sub[s] = "subscribed" => Passed(s)' = Passed(s)
  BY PublishReads
<1>2. UNCHANGED <<sub, conn, received>>  BY DEF RedisPublishes, localVars
<1>3. Attached' = Attached  BY <1>2 DEF Attached
<1>4. Cursor' = Cursor  BY <1>1, <1>2 DEF Cursor
<1> QED  BY <1>1, <1>2, <1>3, <1>4 DEF Delivery!Publish, Attached, Cursor, Passed

\* A subscription begins where the log ends.
LEMMA SubscribesRefines ==
  ASSUME Reading, NEW s \in Servers, Subscribes(s)
  PROVE  Delivery!Attach(s)
<1>1. /\ sub[s] = "connecting"
      /\ sub' = [sub EXCEPT ![s] = "subscribed"]
      /\ UNCHANGED <<log, inbox, conn, received>>
  BY DEF Subscribes, localVars
<1>2. sub \in [Servers -> {"connecting", "subscribed", "failed", "stopped"}] /\ log \in Seq(Published)
  BY DEF Reading, Places
<1>3. inbox[s] = <<>>  BY SubscribingReads
<1>4. Len(log) - Len(inbox[s]) = Len(log)
  <2>1. Len(log) \in Nat /\ Len(inbox[s]) = 0  BY <1>2, <1>3, LenProperties, EmptySeq
  <2> QED  BY <2>1
<1>5. s \notin Attached  BY <1>1 DEF Attached
<1>6. Attached' = Attached \cup {s}  BY <1>1, <1>2 DEF Attached
<1>7. Cursor' = [Cursor EXCEPT ![s] = Len(log)]
  <2>1. Cursor' = [t \in Servers |-> IF sub'[t] = "subscribed" THEN Len(log) - Len(inbox[t]) ELSE 0]
    BY <1>1 DEF Cursor, Passed
  <2>2. Cursor = [t \in Servers |-> IF sub[t] = "subscribed" THEN Len(log) - Len(inbox[t]) ELSE 0]
    BY DEF Cursor, Passed
  <2> QED  BY <1>1, <1>2, <1>4, <2>1, <2>2
<1> QED  BY <1>1, <1>5, <1>6, <1>7 DEF Delivery!Attach, Attached, Cursor, Passed

\* Losing the subscription, and closing it, end the reading.
LEMMA LosingRefines ==
  ASSUME Reading, NEW s \in Servers, NEW to \in {"connecting", "failed", "stopped"},
         sub' = [sub EXCEPT ![s] = to], inbox' = [inbox EXCEPT ![s] = <<>>],
         UNCHANGED <<log, conn, received>>
  PROVE  Delivery!Detach(s) \/ Untouched
<1>1. /\ sub \in [Servers -> {"connecting", "subscribed", "failed", "stopped"}]
      /\ inbox \in [Servers -> Seq(Message)]
  BY DEF Reading, Places
<1>2. sub'[s] # "subscribed"  BY <1>1
<1>3. \A t \in Servers \ {s} : sub'[t] = sub[t] /\ inbox'[t] = inbox[t]  BY <1>1
<1>4. Attached' = Attached \ {s}  BY <1>2, <1>3 DEF Attached
<1>5. Cursor' = [Cursor EXCEPT ![s] = 0]
  <2>1. Cursor' = [t \in Servers |-> IF sub'[t] = "subscribed" THEN Len(log) - Len(inbox'[t]) ELSE 0]
    BY DEF Cursor, Passed
  <2>2. Cursor = [t \in Servers |-> IF sub[t] = "subscribed" THEN Len(log) - Len(inbox[t]) ELSE 0]
    BY DEF Cursor, Passed
  <2> QED  BY <1>2, <1>3, <2>1, <2>2
<1>6. CASE sub[s] = "subscribed"
  <2>1. s \in Attached  BY <1>6 DEF Attached
  <2> QED  BY <1>4, <1>5, <2>1 DEF Delivery!Detach, Attached, Cursor, Passed
<1>7. CASE sub[s] # "subscribed"
  <2>1. Attached' = Attached  BY <1>4, <1>7 DEF Attached
  <2>2. Cursor[s] = 0 /\ Cursor' = Cursor
    <3>1. Cursor[s] = 0  BY <1>7 DEF Cursor
    <3> QED  BY <1>5, <3>1 DEF Cursor
  <2> QED  BY <2>1, <2>2 DEF Untouched
<1> QED  BY <1>6, <1>7

\* Receiving a message is reading the next entry of the log.
LEMMA ReceiveRefines ==
  ASSUME Reading, NEW s \in Servers, Receive(s)
  PROVE  Delivery!Read(s)
<1> DEFINE r == log[Passed(s) + 1]
           hit == Hit(s, r)
<1>1. /\ sub[s] = "subscribed" /\ Passed(s)' = Passed(s) + 1
      /\ Passed(s) < Len(log)
  BY ReceivingReads, HeadIsNext DEF Receive
<1>2. /\ UNCHANGED <<log, sub>> /\ inbox' = [inbox EXCEPT ![s] = Tail(@)]
      /\ inbox \in [Servers -> Seq(Message)]
  BY ReceiveObeys DEF Reading, Places
<1>3. s \in Attached /\ Cursor[s] = Passed(s) /\ Attached' = Attached
  BY <1>1, <1>2, CursorOfReader DEF Attached
<1>4. Cursor' = [Cursor EXCEPT ![s] = @ + 1]
  <2>1. \A t \in Servers \ {s} : Passed(t)' = Passed(t)  BY <1>2 DEF Passed
  <2> QED  BY <1>1, <1>2, <1>3, <2>1 DEF Cursor
<1>5. hit = {c \in Conns : ServerOf[c] = s /\ conn[c] = "open" /\ Delivery!Meant(r, c)}
  BY DEF Hit, Meant, Addressed, Sends, Delivery!Meant, Delivery!Addressed, Delivery!Sends
<1>6. IF r.op \in Delivery!Closes
      THEN /\ conn' = [c \in Conns |-> IF c \in hit THEN "closed" ELSE conn[c]]
           /\ UNCHANGED received
      ELSE /\ received' = [c \in Conns |-> IF c \in hit
                              THEN Append(received[c], Cursor[s] + 1)
                              ELSE received[c]]
           /\ UNCHANGED conn
  BY <1>3, ReceiveObeys DEF Closes, Delivery!Closes
<1>7. r = log[Cursor[s] + 1]  BY <1>3
<1> HIDE DEF r, hit
<1> QED
  BY <1>1, <1>2, <1>3, <1>4, <1>5, <1>6, <1>7 DEF Delivery!Read, Attached, Cursor, Passed

\* Every step is a step of PushDelivery, or leaves what it knows as it is.
LEMMA DeliveryStep == IInv /\ [Next]_vars => [Delivery!Next]_(Delivery!vars)
<1> SUFFICES ASSUME IInv, [Next]_vars  PROVE [Delivery!Next]_(Delivery!vars)  OBVIOUS
<1>0. Untouched => UNCHANGED Delivery!vars
  BY DEF Untouched, Delivery!vars, Attached, Cursor, Passed
<1>1. ASSUME UNCHANGED <<log, sub, inbox, conn, received>>  PROVE Untouched
  BY <1>1 DEF Untouched, Attached, Cursor, Passed
<1>2. CASE \E p \in Callers, r \in Requests : Call(p, r)
  BY <1>0, <1>1, <1>2 DEF Call, subVars, localVars
<1>3. ASSUME NEW k \in calls, CallRuns(k)  PROVE \E r \in Requests \cup Foreign : Delivery!Publish(r)
  <2>1. k.request \in Published /\ EventOf(k.request) \in EventsOf(k.request)
    BY DEF IInv, Asking, Underway, Published, EventsOf
  <2>2. ChannelForTarget(k.request.op) \in Channels  BY DEF ChannelForTarget, Channels
  <2>3. RedisPublishes(k.request, EventOf(k.request), ChannelForTarget(k.request.op))
    BY <1>3 DEF CallRuns
  <2> QED  BY <2>1, <2>2, <2>3, PublishRefines DEF IInv, Published
<1>4. ASSUME NEW k \in calls, CallReturns(k) \/ CallFails(k) \/ CallIsLost(k)
      PROVE  UNCHANGED Delivery!vars
  BY <1>0, <1>1, <1>4 DEF CallReturns, CallFails, CallIsLost, subVars, localVars
<1>5. ASSUME NEW r \in Foreign, NEW channel \in Channels, ForeignPublishes(r, channel)
      PROVE  \E q \in Requests \cup Foreign : Delivery!Publish(q)
  <2>1. r \in Published /\ r \in EventsOf(r) /\ RedisPublishes(r, r, channel)
    BY <1>5 DEF Published, EventsOf, ForeignPublishes
  <2> QED  BY <2>1, PublishRefines DEF IInv, Published
<1>6. ASSUME NEW s \in Servers,
             \/ Subscribes(s) \/ ReceiveFails(s) \/ DialTimesOut(s) \/ Receive(s)
             \/ Cancel(s) \/ Stops(s)
      PROVE  \/ Delivery!Attach(s) \/ Delivery!Detach(s) \/ Delivery!Read(s)
             \/ UNCHANGED Delivery!vars
  <2>1. CASE Subscribes(s)  BY <2>1, SubscribesRefines DEF IInv
  <2>2. CASE ReceiveFails(s)
    BY <1>0, <2>2, LosingRefines DEF IInv, ReceiveFails, localVars
  <2>3. CASE Receive(s)  BY <2>3, ReceiveRefines DEF IInv
  <2>4. CASE Cancel(s)  BY <1>0, <1>1, <2>4 DEF Cancel, localVars
  <2>5. CASE Stops(s)  BY <1>0, <2>5, LosingRefines DEF IInv, Stops, localVars
  <2>6. CASE DialTimesOut(s)
    <3>1. inbox' = [inbox EXCEPT ![s] = <<>>]
      BY <2>6 DEF IInv, Reading, Places, InboxOfReader, DialTimesOut
    <3> QED  BY <1>0, <2>6, <3>1, LosingRefines DEF IInv, DialTimesOut, localVars
  <2> QED  BY <1>6, <2>1, <2>2, <2>3, <2>4, <2>5, <2>6
<1>7. ASSUME NEW c \in Conns, Opens(c) \/ Leaves(c)
      PROVE  Delivery!Open(c) \/ Delivery!Leave(c)
  <2>1. UNCHANGED <<log, sub, inbox, received>>  BY <1>7 DEF Opens, Leaves, subVars
  <2>2. UNCHANGED <<Attached, Cursor>>  BY <2>1 DEF Attached, Cursor, Passed
  <2> QED
    BY <1>7, <2>1, <2>2
    DEF Opens, Leaves, Delivery!Open, Delivery!Leave, Attached, Cursor, Passed
<1>8. CASE UNCHANGED vars  BY <1>0, <1>1, <1>8 DEF vars
<1> QED  BY <1>2, <1>3, <1>4, <1>5, <1>6, <1>7, <1>8 DEF Next, Delivery!Next

\* The gateways together implement the delivery PushDelivery specifies: each
\* reads one log from where it subscribed, in order, leaving nothing out.
THEOREM GatewaysDeliver == Spec => Delivered
BY DeliveryInit, DeliveryStep, PushInvariance, PTL DEF Spec, Delivered, Delivery!Spec

=============================================================================
