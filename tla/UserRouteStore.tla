--------------------------- MODULE UserRouteStore ---------------------------
(***************************************************************************)
(* The route table the gateways share in Redis (src/internal/data/         *)
(* user_route.go).  A connection is one field of its user's hash, with a   *)
(* TTL of its own; a user is one member of its bucket's expiry index, a    *)
(* sorted set whose score is the time at which the user is due.  The two   *)
(* are written by one script but with different clocks: Redis counts the   *)
(* field's TTL from the moment the script runs, the score was computed     *)
(* from the gateway's own clock before the call was sent.                  *)
(*                                                                         *)
(* Time is discrete.  A call is in flight from the moment the gateway      *)
(* reads its clock until Redis has run it for the last time; go-redis may  *)
(* retry a call, so a call may run more than once.                         *)
(***************************************************************************)
EXTENDS Integers, FiniteSets

CONSTANTS
    Conns,        \* connection ids
    Users,        \* user ids
    Servers,      \* server ids; a restarted process has a new one
    UserOf,       \* the user a connection belongs to
    ServerOf,     \* the server a connection is opened on
    BucketCount,  \* userRouteBucketCount
    BucketOf,     \* the bucket a user hashes to
    RouteTTL,     \* config.RedisRouteTTL, in time units
    Second,       \* time units in a second
    MaxDelay,     \* longest time from reading the clock to Redis running the call
    Skew,         \* how far a server's clock is ahead of the slowest one
    MaxSkew,
    MaxTime       \* bound: time stops here

ASSUME ConnsAssumption ==
    /\ UserOf \in [Conns -> Users]
    /\ ServerOf \in [Conns -> Servers]

ASSUME BucketAssumption ==
    /\ BucketCount \in Nat \ {0}
    /\ BucketOf \in [Users -> 0 .. BucketCount - 1]

\* The store refuses a TTL that is not positive (user_route.go:106) and
\* nothing else: the TTL need not be a whole number of seconds.
ASSUME TimeAssumption ==
    /\ RouteTTL \in Nat \ {0}
    /\ Second \in Nat \ {0}
    /\ MaxDelay \in Nat
    /\ MaxSkew \in Nat
    /\ MaxTime \in Nat
    /\ Skew \in [Servers -> 0 .. MaxSkew]

VARIABLES
    now,         \* elapsed time
    userRoute,   \* when the connection's hash field expires; 0: no field
    userExpire,  \* the user's score in its bucket's index; 0: not a member
    inflight     \* calls that may still run in Redis

storeVars == <<now, userRoute, userExpire, inflight>>

Call == [op : {"refresh", "remove"}, conn : Conns, at : Nat]

StoreTypeOK ==
    /\ now \in Nat
    /\ userRoute \in [Conns -> Nat]
    /\ userExpire \in [Users -> Nat]
    /\ inflight \subseteq Call

StoreInit ==
    /\ now = 0
    /\ userRoute = [c \in Conns |-> 0]
    /\ userExpire = [u \in Users |-> 0]
    /\ inflight = {}

-----------------------------------------------------------------------------
\* What the store's readers see.

ServerNow(s) == now + Skew[s]

\* HSETEX is given int64(routeTTL / time.Second) seconds.
FieldTTL == (RouteTTL \div Second) * Second

Live(c) == now < userRoute[c]

ListUserConnections(u) == {c \in Conns : UserOf[c] = u /\ Live(c)}

ListUserServerIDs(u) == {ServerOf[c] : c \in ListUserConnections(u)}

Indexed(u) == userExpire[u] # 0

-----------------------------------------------------------------------------
\* Calls of RegisterConnection, RefreshConnection and RemoveConnection.

Send(op, c) ==
    inflight' = inflight \cup {[op |-> op, conn |-> c, at |-> now]}

\* A call that ran may be left in flight: go-redis sends a call again when
\* the answer does not come, with the arguments it computed the first time.
Ran(k) == inflight' \in {inflight \ {k}, inflight}

\* Mutant: the field's TTL is extended by the TTL instead of set to it.
RefreshExtends(k) ==
    /\ k \in inflight
    /\ k.op = "refresh"
    /\ userRoute' = [userRoute EXCEPT ![k.conn] =
                        (IF Live(k.conn) THEN userRoute[k.conn] ELSE now) + FieldTTL]
    /\ userExpire' = [userExpire EXCEPT ![UserOf[k.conn]] =
                        k.at + Skew[ServerOf[k.conn]] + RouteTTL]
    /\ Ran(k)
    /\ UNCHANGED now

\* Mutant: ZADD NX, which keeps the score of a user already in the index.
RefreshKeepsScore(k) ==
    /\ k \in inflight
    /\ k.op = "refresh"
    /\ userRoute' = [userRoute EXCEPT ![k.conn] = now + FieldTTL]
    /\ userExpire' = [userExpire EXCEPT ![UserOf[k.conn]] =
                        IF @ # 0 THEN @ ELSE k.at + Skew[ServerOf[k.conn]] + RouteTTL]
    /\ Ran(k)
    /\ UNCHANGED now

\* The whole registerConnectionScript.
RefreshRuns(k) ==
    /\ k \in inflight
    /\ k.op = "refresh"
    /\ userRoute' = [userRoute EXCEPT ![k.conn] = now + FieldTTL]
    /\ userExpire' = [userExpire EXCEPT ![UserOf[k.conn]] =
                        k.at + Skew[ServerOf[k.conn]] + RouteTTL]
    /\ Ran(k)
    /\ UNCHANGED now

\* Mutant: DEL of the user's whole hash.
RemovesWholeHash(k) ==
    /\ k \in inflight
    /\ k.op = "remove"
    /\ userRoute' = [c \in Conns |->
                        IF UserOf[c] = UserOf[k.conn] THEN 0 ELSE userRoute[c]]
    /\ Ran(k)
    /\ UNCHANGED <<now, userExpire>>

\* Mutant: the field is made to expire in the past instead of deleted.
RemoveBackdates(k) ==
    /\ k \in inflight
    /\ k.op = "remove"
    /\ userRoute' = [userRoute EXCEPT ![k.conn] = now - FieldTTL]
    /\ Ran(k)
    /\ UNCHANGED <<now, userExpire>>

\* HDEL of the field.  The user's index entry is left to the poller.
RemoveRuns(k) ==
    /\ k \in inflight
    /\ k.op = "remove"
    /\ userRoute' = [userRoute EXCEPT ![k.conn] = 0]
    /\ Ran(k)
    /\ UNCHANGED <<now, userExpire>>

\* A call nobody waits for any more is dropped with its TCP connection.
LoseCall(k) ==
    /\ k \in inflight
    /\ inflight' = inflight \ {k}
    /\ UNCHANGED <<now, userRoute, userExpire>>

-----------------------------------------------------------------------------
\* pollExpiredUsersScript.

\* Mutant: the range has no upper end.
AllDue(bucket, max) == {u \in Users : BucketOf[u] = bucket /\ Indexed(u)}

Due(bucket, max) ==
    {u \in Users : BucketOf[u] = bucket /\ Indexed(u) /\ userExpire[u] <= max}

\* The batches ZRANGE ... BYSCORE LIMIT 0 limit can return: lowest scores
\* first, equal scores in the order of the user ids, which is left open.
Batches(bucket, max, limit) ==
    LET due   == Due(bucket, max)
        whole == limit = 0 \/ Cardinality(due) <= limit
    IN  {batch \in SUBSET due :
            /\ IF whole THEN batch = due ELSE Cardinality(batch) = limit
            /\ \A u \in batch, v \in due \ batch : userExpire[u] <= userExpire[v]}

\* The script removes as many members from rank 0 up as it returns: they
\* are the batch, since the range starts at -inf.
PollRuns(batch, bucket, max, limit) ==
    /\ batch \in Batches(bucket, max, limit)
    /\ userExpire' = [u \in Users |-> IF u \in batch THEN 0 ELSE userExpire[u]]
    /\ UNCHANGED <<now, userRoute, inflight>>

=============================================================================
