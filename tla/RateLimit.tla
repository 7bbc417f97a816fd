------------------------------ MODULE RateLimit -----------------------------
(***************************************************************************)
(* The token buckets of ratelimit/ratelimit.go for one limiter, and the    *)
(* way the handlers use it for failures (httpapi/ratelimit.go,             *)
(* rejectIfThrottled): Check before the work, Allow when it failed.        *)
(*                                                                         *)
(* Amounts are integers: a request costs Unit, a tick refills rate.  The   *)
(* bucket is refilled lazily, when it is looked at; level is what it would *)
(* hold if it were refilled at every tick and never dropped.               *)
(***************************************************************************)
EXTENDS Integers, FiniteSets

CONSTANTS
    Keys,         \* client addresses
    Attempts,     \* requests in progress that may fail
    NoBucket,
    Burst, Unit,  \* capacity and price of a request
    RateChoices,  \* refill per tick; 0 turns the limiter off
    SweepEvery,   \* a minute
    MaxNow        \* bound on the clock

ASSUME RateAssumption ==
    /\ Unit \in Nat \ {0} /\ Burst \in Nat /\ Burst >= Unit
    /\ RateChoices \subseteq Nat /\ SweepEvery \in Nat /\ MaxNow \in Nat
    /\ IsFiniteSet(RateChoices) /\ IsFiniteSet(Attempts)
    /\ NoBucket \notin Keys /\ NoBucket \notin [tokens: 0..Burst, last: 0..MaxNow]

VARIABLES
    rate, bucket, lastSweep, now,
    flight,    \* the key of each attempt that has passed the gate
    level,     \* the reference bucket of each key
    paid, unpaid,  \* failures since the limiter was last off: charged, and not
    retuned    \* SetRate was called

lvars == <<rate, bucket, lastSweep, now, flight, level, paid, unpaid, retuned>>

LimitTypeOK ==
    /\ rate \in RateChoices /\ now \in 0..MaxNow /\ lastSweep \in 0..MaxNow
    /\ bucket \in [Keys -> [tokens: 0..Burst, last: 0..MaxNow] \cup {NoBucket}]
    /\ flight \in [Attempts -> Keys \cup {NoBucket}]
    /\ level \in [Keys -> 0..Burst]
    /\ paid \in [Keys -> Nat] /\ unpaid \in [Keys -> Nat]
    /\ retuned \in BOOLEAN

-----------------------------------------------------------------------------
AtMost(a, b) == IF a <= b THEN a ELSE b

LimitInit ==
    /\ rate \in RateChoices \ {0} /\ lastSweep = 0 /\ now = 0 /\ retuned = FALSE
    /\ bucket = [k \in Keys |-> NoBucket]
    /\ flight = [a \in Attempts |-> NoBucket]
    /\ level = [k \in Keys |-> Burst]
    /\ paid = [k \in Keys |-> 0] /\ unpaid = [k \in Keys |-> 0]

Disabled == rate = 0 \/ Burst = 0

\* What a bucket holds now; a key without one is full.
Refilled(b) == IF b = NoBucket THEN Burst ELSE AtMost(Burst, b.tokens + (now - b.last) * rate)

\* (mutant) idle buckets are dropped after half the time it takes to fill them
IdleHalf(b) == b # NoBucket /\ (now - b.last) * rate * 2 >= Burst

\* sweep: now - last >= burst / rate
IdleLong(b) == b # NoBucket /\ (now - b.last) * rate >= Burst

\* The buckets after sweep, which runs at most once in SweepEvery.
SweepDue == now - lastSweep >= SweepEvery
Swept == [k \in Keys |-> IF SweepDue /\ IdleLong(bucket[k]) THEN NoBucket ELSE bucket[k]]

\* take(key, consume): the new buckets.  Check touches a bucket that is
\* there but makes none.
Take(k, consume) ==
    LET b == Swept[k] have == Refilled(b) IN
    [Swept EXCEPT ![k] =
        IF b = NoBucket /\ ~consume THEN NoBucket
        ELSE [tokens |-> IF consume /\ have >= Unit THEN have - Unit ELSE have, last |-> now]]

\* Whether take answers yes.
Enough(k) == Disabled \/ Refilled(Swept[k]) >= Unit

Touch(k, consume) ==
    IF Disabled THEN UNCHANGED <<bucket, lastSweep>>
    ELSE /\ bucket' = Take(k, consume)
         /\ lastSweep' = IF SweepDue THEN now ELSE lastSweep

\* rejectIfThrottled: an attempt that is let through goes on to its work; a
\* rejected one gets 429 and is over.
Gate(a, k) ==
    /\ flight[a] = NoBucket
    /\ Touch(k, FALSE)
    /\ flight' = IF Enough(k) THEN [flight EXCEPT ![a] = k] ELSE flight
    /\ UNCHANGED <<rate, now, level, paid, unpaid, retuned>>

\* The attempt fails and is charged: Allow.  Its answer is ignored.
Charge(a) ==
    LET k == flight[a] IN
    /\ k # NoBucket
    /\ Touch(k, TRUE)
    /\ IF Disabled THEN UNCHANGED <<level, paid, unpaid>>
       ELSE IF Enough(k)
       THEN /\ paid' = [paid EXCEPT ![k] = @ + 1]
            /\ level' = [level EXCEPT ![k] = IF @ >= Unit THEN @ - Unit ELSE 0]
            /\ UNCHANGED unpaid
       ELSE unpaid' = [unpaid EXCEPT ![k] = @ + 1] /\ UNCHANGED <<level, paid>>
    /\ flight' = [flight EXCEPT ![a] = NoBucket]
    /\ UNCHANGED <<rate, now, retuned>>

\* The attempt succeeds and costs nothing.
Succeed(a) ==
    /\ flight[a] # NoBucket
    /\ flight' = [flight EXCEPT ![a] = NoBucket]
    /\ UNCHANGED <<rate, bucket, lastSweep, now, level, paid, unpaid, retuned>>

\* SetRate from the settings page; turning the limiter off forgets everything.
SetRate(r) ==
    /\ r # rate
    /\ rate' = r /\ retuned' = TRUE
    /\ IF r = 0
       THEN /\ bucket' = [k \in Keys |-> NoBucket]
            /\ paid' = [k \in Keys |-> 0] /\ unpaid' = [k \in Keys |-> 0]
       ELSE UNCHANGED <<bucket, paid, unpaid>>
    /\ UNCHANGED <<lastSweep, now, flight, level>>

LimitTick ==
    /\ now < MaxNow
    /\ now' = now + 1
    /\ level' = [k \in Keys |-> AtMost(Burst, level[k] + rate)]
    /\ UNCHANGED <<rate, bucket, lastSweep, flight, paid, unpaid, retuned>>

LimitNext ==
    \/ \E a \in Attempts, k \in Keys : Gate(a, k)
    \/ \E a \in Attempts : Charge(a) \/ Succeed(a)
    \/ \E r \in RateChoices : SetRate(r)
    \/ LimitTick

LimitSpec == LimitInit /\ [][LimitNext]_lvars

\* Snapshot: the keys it lists, with what they hold.
Listed == {k \in Keys : Refilled(bucket[k]) < Burst}

-----------------------------------------------------------------------------
(* Properties                                                              *)

\* Dropping idle buckets and refilling them lazily cannot be told from a
\* bucket per key that is refilled all the time, and Snapshot lists the keys
\* that have something missing: as long as the rate is not changed.
SweepInvisible ==
    ~retuned => /\ \A k \in Keys : Refilled(bucket[k]) = level[k]
                /\ Listed = {k \in Keys : level[k] < Burst}

\* Attempts that pass the gate together share one token, so a failure can be
\* free of charge; but every payment excuses only those that were in
\* progress with it.
FreeFailuresBounded ==
    \A k \in Keys : unpaid[k] <= (Cardinality(Attempts) - 1) * paid[k]

\* No key is charged more often than the capacity and the fastest refill pay
\* for, however the rate is changed while the limiter is on.
WithinBudget ==
    \A k \in Keys :
        paid[k] * Unit + Refilled(bucket[k]) <=
            Burst + now * (CHOOSE m \in RateChoices : \A r \in RateChoices : r <= m)

\* The limit holds (ratelimit.go Allow, Check, sweep; httpapi/ratelimit.go):
\* sweeping and lazy refills forgive nothing, charging after the attempt
\* forgives no more than what was in progress, and no change of the rate pays
\* for more than the fastest one.
BudgetKept == LimitTypeOK /\ SweepInvisible /\ FreeFailuresBounded /\ WithinBudget
=============================================================================
