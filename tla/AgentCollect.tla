---------------------------- MODULE AgentCollect ----------------------------
(***************************************************************************)
(* A slow source collected in the background (collector/background.go) and *)
(* read by the reports (report/report.go), and the interval that a pull    *)
(* agent learns from the requests it answers (pullserver/interval.go,      *)
(* pullserver.go).  A push agent's interval is a constant.                 *)
(***************************************************************************)
EXTENDS Integers

CONSTANTS
    NoValue,          \* nothing collected yet, no request yet
    DefaultInterval,  \* defaultPullInterval, or the push interval
    MinInterval,      \* minPullInterval
    MaxInterval,      \* maxPullInterval
    CollectTimeout,   \* the collector's timeout
    FirstWait         \* FirstReportWait

ASSUME CollectAssumption ==
    /\ {DefaultInterval, MinInterval, MaxInterval, CollectTimeout, FirstWait} \subseteq Nat \ {0}
    /\ MinInterval <= DefaultInterval /\ DefaultInterval <= MaxInterval
    /\ NoValue \notin Int

VARIABLES
    pullMode,    \* the agent answers requests and learns from them
    interval,    \* intervalTracker.interval
    lastReq,     \* intervalTracker.last, as its age
    loop,        \* Background.Run: sleeping or collecting, since when, for how long
    valueAge,    \* Background.at, as its age
    failing,     \* Background.failing
    ready,       \* Background.ready is closed
    waiting      \* a request waits in WaitReady, since when

cvars == <<pullMode, interval, lastReq, loop, valueAge, failing, ready, waiting>>

Aged == 3 * MaxInterval + CollectTimeout + 1

CollectTypeOK ==
    /\ pullMode \in BOOLEAN
    /\ interval \in MinInterval..MaxInterval
    /\ lastReq \in 0..MaxInterval \cup {NoValue}
    /\ loop \in [pc: {"collect", "sleep"}, age: 0..(MaxInterval + CollectTimeout), sleep: 0..MaxInterval]
    /\ valueAge \in 0..Aged \cup {NoValue}
    /\ failing \in BOOLEAN /\ ready \in BOOLEAN
    /\ waiting \in 0..FirstWait \cup {NoValue}

\* Start: the first collection begins at once.
CollectInit ==
    /\ pullMode \in BOOLEAN
    /\ interval = DefaultInterval /\ lastReq = NoValue
    /\ loop = [pc |-> "collect", age |-> 0, sleep |-> 0]
    /\ valueAge = NoValue /\ failing = FALSE /\ ready = FALSE
    /\ waiting = NoValue

-----------------------------------------------------------------------------
\* Run: time.After(b.interval()), with the interval of this moment.
SleepNow == loop' = [pc |-> "sleep", age |-> 0, sleep |-> interval]

\* runOnce, a collection that succeeds.
Collected ==
    /\ loop.pc = "collect"
    /\ valueAge' = 0 /\ failing' = FALSE /\ ready' = TRUE
    /\ SleepNow
    /\ UNCHANGED <<pullMode, interval, lastReq, waiting>>

\* runOnce, a collection that fails or runs out of time: the value stays.
CollectFails ==
    /\ loop.pc = "collect"
    /\ failing' = TRUE /\ ready' = TRUE
    /\ SleepNow
    /\ UNCHANGED <<pullMode, interval, lastReq, valueAge, waiting>>

Wake ==
    /\ loop.pc = "sleep" /\ loop.age >= loop.sleep
    /\ loop' = [loop EXCEPT !.pc = "collect", !.age = 0]
    /\ UNCHANGED <<pullMode, interval, lastReq, valueAge, failing, ready, waiting>>

Clamp(n) == IF n < MinInterval THEN MinInterval ELSE IF n > MaxInterval THEN MaxInterval ELSE n

\* handleStatus: an allowed address with the secret; Observe, then WaitReady.
\* A request that is turned away teaches nothing.
Request(authorised) ==
    /\ pullMode /\ waiting = NoValue
    /\ IF authorised
       THEN /\ interval' = IF lastReq = NoValue THEN interval ELSE Clamp(lastReq)
            /\ lastReq' = 0 /\ waiting' = 0
       ELSE UNCHANGED <<interval, lastReq, waiting>>
    /\ UNCHANGED <<pullMode, loop, valueAge, failing, ready>>

\* WaitReady ends: the first attempt is over, or FirstReportWait; the report is built.
Answer ==
    /\ waiting # NoValue /\ (ready \/ waiting >= FirstWait)
    /\ waiting' = NoValue
    /\ UNCHANGED <<pullMode, interval, lastReq, loop, valueAge, failing, ready>>

Grow(age, long) == IF age = NoValue \/ age = long THEN age ELSE age + 1

\* Time passes; a collection is cut off at its timeout, a timer fires in time.
CollectTick ==
    /\ loop.pc = "collect" => loop.age < CollectTimeout
    /\ loop.pc = "sleep" => loop.age < loop.sleep
    /\ waiting # NoValue => ~ready /\ waiting < FirstWait
    /\ loop' = [loop EXCEPT !.age = @ + 1]
    /\ valueAge' = Grow(valueAge, Aged) /\ lastReq' = Grow(lastReq, MaxInterval)
    /\ waiting' = Grow(waiting, FirstWait)
    /\ UNCHANGED <<pullMode, interval, failing, ready>>

CollectNext ==
    \/ Collected \/ CollectFails \/ Wake \/ Answer \/ CollectTick
    \/ \E authorised \in BOOLEAN : Request(authorised)

CollectSpec == CollectInit /\ [][CollectNext]_cvars

-----------------------------------------------------------------------------
\* (mutant) the time a collection takes is left out
staleAfterShort == 3 * interval

staleAfter == 3 * interval + CollectTimeout

\* Background.Latest answers with a value.
Latest == valueAge # NoValue /\ valueAge <= staleAfter

\* A source that is collected as it should be is never reported unknown while
\* the interval stands: the value is younger than three intervals and a
\* timeout.  A pull agent may sleep by a longer interval than the one it has
\* since learned, and only then is a healthy value stale
\* (staleAfter, background.go:104-108; Run, background.go:52-63).
HealthyStaysKnown ==
    ~failing /\ valueAge # NoValue /\ loop.sleep <= 3 * interval => Latest

\* A report never leaves out a source that is collected as it should be:
\* "sağlıklıyken bayat sayılmasın" (staleAfter, background.go:104-105).
HealthyNeverStale ==
    waiting # NoValue /\ ~failing /\ valueAge # NoValue => Latest

\* The values a report is given are sound: fresh while their source is
\* collected as it should be, at an interval within its limits (background.go,
\* interval.go).
SourcesKnown == CollectTypeOK /\ HealthyStaysKnown
=============================================================================
