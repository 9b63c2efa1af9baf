----------------------------- MODULE RoutePoller -----------------------------
(***************************************************************************)
(* The goroutine of each gateway that takes the users who are due out of   *)
(* the expiry index (App.runUserRoutePoller, src/internal/app/app.go).     *)
(* A round asks for every bucket in turn, then waits for a ticker.  The    *)
(* script removes the users it returns before anyone was told of them.     *)
(***************************************************************************)
EXTENDS UserRouteStore

CONSTANTS
    PollLimit,      \* userRoutePollLimit
    Pollers,        \* bound: servers whose poller takes steps; in the code, all
    MaxPollFaults   \* bound: polls that return an error

ASSUME PollAssumption ==
    /\ PollLimit \in Nat
    /\ Pollers \subseteq Servers
    /\ MaxPollFaults \in Nat

VARIABLES
    pollPc,      \* "polling", "sent", "popped" or "waiting"
    pollBucket,  \* bucket of the loop
    pollMax,     \* the score the call asks up to: the clock of the server
    pollBatch,   \* users the script returned
    nextTick,    \* when the ticker's channel holds a tick
    pollFaults   \* errors so far

pollVars == <<pollPc, pollBucket, pollMax, pollBatch, nextTick, pollFaults>>

Buckets == 0 .. BucketCount - 1

PollTypeOK ==
    /\ pollPc \in [Servers -> {"polling", "sent", "popped", "waiting"}]
    /\ pollBucket \in [Servers -> Buckets]
    /\ pollMax \in [Servers -> Nat]
    /\ pollBatch \in [Servers -> SUBSET Users]
    /\ nextTick \in [Servers -> Nat]
    /\ pollFaults \in Nat

\* userRoutePollInterval: half the TTL, a second at least.
PollInterval ==
    IF RouteTTL \div 2 < Second THEN Second ELSE RouteTTL \div 2

\* The ticker starts with the goroutine; the first round does not wait.
PollInit ==
    /\ pollPc = [s \in Servers |-> "polling"]
    /\ pollBucket = [s \in Servers |-> 0]
    /\ pollMax = [s \in Servers |-> 0]
    /\ pollBatch = [s \in Servers |-> {}]
    /\ nextTick = [s \in Servers |-> PollInterval]
    /\ pollFaults = 0

-----------------------------------------------------------------------------

\* PollExpiredUsers(ctx, bucket, 128, time.Time{}, fn): the zero time makes
\* the store read its clock, once for each bucket.
SendPoll(s) ==
    /\ pollPc[s] = "polling"
    /\ pollPc' = [pollPc EXCEPT ![s] = "sent"]
    /\ pollMax' = [pollMax EXCEPT ![s] = ServerNow(s)]
    /\ UNCHANGED <<storeVars, pollBucket, pollBatch, nextTick, pollFaults>>

\* Either the answer arrives, or it is lost and go-redis calls again: the
\* users of the lost answer are reported to nobody.
ScriptRuns(s) ==
    /\ pollPc[s] = "sent"
    /\ \E batch \in SUBSET Users :
         /\ PollRuns(batch, pollBucket[s], pollMax[s], PollLimit)
         /\ \/ /\ pollBatch' = [pollBatch EXCEPT ![s] = batch]
               /\ pollPc' = [pollPc EXCEPT ![s] = "popped"]
               /\ UNCHANGED pollFaults
            \/ /\ pollFaults < MaxPollFaults
               /\ pollFaults' = pollFaults + 1
               /\ UNCHANGED <<pollBatch, pollPc>>
    /\ UNCHANGED <<pollBucket, pollMax, nextTick>>

\* Mutant: the loop ends one bucket late.
NextBucketPastEnd(s) ==
    /\ IF pollBucket[s] = BucketCount
       THEN /\ pollBucket' = [pollBucket EXCEPT ![s] = 0]
            /\ pollPc' = [pollPc EXCEPT ![s] = "waiting"]
       ELSE /\ pollBucket' = [pollBucket EXCEPT ![s] = pollBucket[s] + 1]
            /\ pollPc' = [pollPc EXCEPT ![s] = "polling"]
    /\ pollBatch' = [pollBatch EXCEPT ![s] = {}]
    /\ pollMax' = [pollMax EXCEPT ![s] = 0]
    /\ UNCHANGED <<storeVars, nextTick>>

\* Mutant: an error or an empty answer of a bucket ends the round.
NextBucketStops(s) ==
    /\ pollBucket' = [pollBucket EXCEPT ![s] = 0]
    /\ pollPc' = [pollPc EXCEPT ![s] = "waiting"]
    /\ pollBatch' = [pollBatch EXCEPT ![s] = {}]
    /\ pollMax' = [pollMax EXCEPT ![s] = 0]
    /\ UNCHANGED <<storeVars, nextTick>>

\* The loop goes to the next bucket whatever the call returned; an error
\* is logged, and loses the batch when the script had run.
NextBucket(s) ==
    /\ IF pollBucket[s] = BucketCount - 1
       THEN /\ pollBucket' = [pollBucket EXCEPT ![s] = 0]
            /\ pollPc' = [pollPc EXCEPT ![s] = "waiting"]
       ELSE /\ pollBucket' = [pollBucket EXCEPT ![s] = pollBucket[s] + 1]
            /\ pollPc' = [pollPc EXCEPT ![s] = "polling"]
    /\ pollBatch' = [pollBatch EXCEPT ![s] = {}]
    /\ pollMax' = [pollMax EXCEPT ![s] = 0]
    /\ UNCHANGED <<storeVars, nextTick>>

PollReturns(s) ==
    /\ pollPc[s] = "popped"
    /\ NextBucket(s)
    /\ UNCHANGED pollFaults

PollFails(s) ==
    /\ pollPc[s] \in {"sent", "popped"}
    /\ pollFaults < MaxPollFaults
    /\ pollFaults' = pollFaults + 1
    /\ NextBucket(s)

\* The ticker's channel holds one tick: those that come during a long round
\* are dropped, the one it holds starts the next round at once.  When the
\* model's time has run out, tickers go on: a round never was the last one.
TickerFires(s) ==
    /\ pollPc[s] = "waiting"
    /\ now >= nextTick[s] \/ now = MaxTime
    /\ pollPc' = [pollPc EXCEPT ![s] = "polling"]
    /\ \E t \in now + 1 .. now + PollInterval :
         /\ (t - nextTick[s]) % PollInterval = 0
         /\ nextTick' = [nextTick EXCEPT ![s] = t]
    /\ UNCHANGED <<storeVars, pollBucket, pollMax, pollBatch, pollFaults>>

=============================================================================
