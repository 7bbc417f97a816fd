--------------------------- MODULE PullScheduler ---------------------------
(***************************************************************************)
(* The pull scheduler (pullscheduler/scheduler.go) and the rows it reads   *)
(* (store/hosts.go: ListPullHosts, UpdatePullSecret).                      *)
(*                                                                         *)
(* One goroutine takes a tick, lists the pull hosts and walks the list; a  *)
(* due host gets a goroutine of its own.  The rows may change while the    *)
(* list is walked and while a poll runs.  The unit of time is              *)
(* dueCheckInterval; instants are kept as their age.                       *)
(***************************************************************************)
EXTENDS Naturals, FiniteSets

CONSTANTS
    PHosts,         \* hosts
    Never,          \* a host that is not in lastPolled
    Intervals,      \* interval_seconds, in ticks
    PollTimeout,    \* the http client's timeout, in ticks
    RecordMax,      \* bound: how long storing a report takes, in ticks
    MaxListFaults   \* bound: failed listings

ASSUME PullAssumption ==
    /\ Intervals \subseteq Nat \ {0} /\ \E n \in Intervals : \A m \in Intervals : m <= n
    /\ Never \notin Nat
    /\ PollTimeout \in Nat \ {0} /\ RecordMax \in Nat /\ MaxListFaults \in Nat

VARIABLES
    prow,        \* the hosts rows: mode, interval_seconds, whether the secret opens
    sched,       \* the Run goroutine: where it is and the rows it still has to walk
    tickReady,   \* ticker.C holds a tick
    cancelled,   \* ctx is done
    lastPolled,  \* Scheduler.lastPolled, as the age of the instant
    inFlight,    \* Scheduler.inFlight
    polls,       \* the poll goroutines of each host
    since,       \* how long the host has been waiting for a poll to start
    listFaults

uvars == <<prow, sched, tickReady, cancelled, lastPolled, inFlight, polls, since, listFaults>>

Longest == CHOOSE n \in Intervals : \A m \in Intervals : m <= n
PollMax == PollTimeout + RecordMax
Slots == 1..2
NoPoll == [pc |-> "none", age |-> 0]
\* beyond this the ages are all the same
PollAged == Longest
GapLimit(h) == (IF prow[h].interval > PollMax THEN prow[h].interval ELSE PollMax) + 1 + MaxListFaults
LongWait == Longest + PollMax + MaxListFaults + 2

\* The interval and the secret of a row are read only while it is a pull host.
OtherRow(mode) == [mode |-> mode, interval |-> Longest, opens |-> TRUE]
HostRows == [mode: {"pull"}, interval: Intervals, opens: BOOLEAN] \cup {OtherRow("push"), OtherRow("gone")}

PullTypeOK ==
    /\ prow \in [PHosts -> HostRows]
    /\ sched \in [pc: {"wait", "walk", "forget", "drain", "returned"},
                  todo: [PHosts -> Intervals \cup {Never}], listed: SUBSET PHosts]
    /\ tickReady \in BOOLEAN /\ cancelled \in BOOLEAN
    /\ lastPolled \in [PHosts -> 0..PollAged \cup {Never}]
    /\ inFlight \subseteq PHosts
    /\ polls \in [PHosts -> [Slots -> [pc: {"none", "request", "record"}, age: 0..PollMax]]]
    /\ since \in [PHosts -> 0..LongWait]
    /\ listFaults \in 0..MaxListFaults

Waiting == [pc |-> "wait", todo |-> [h \in PHosts |-> Never], listed |-> {}]
Pollable(h) == prow[h].mode = "pull" /\ prow[h].opens

PullInit ==
    /\ prow \in [PHosts -> {row \in HostRows : row.mode # "gone" /\ row.opens}]
    /\ sched = Waiting
    /\ tickReady = FALSE /\ cancelled = FALSE
    /\ lastPolled = [h \in PHosts |-> Never]
    /\ inFlight = {}
    /\ polls = [h \in PHosts |-> [i \in Slots |-> NoPoll]]
    /\ since = [h \in PHosts |-> 0]
    /\ listFaults = 0

-----------------------------------------------------------------------------
\* pollDueHosts: ListPullHosts, and the instant the walk compares with.  A
\* row whose secret does not open is logged and left out of the list.
List ==
    /\ sched.pc = "wait" /\ tickReady /\ ~cancelled
    /\ LET found == {h \in PHosts : Pollable(h)} IN
       sched' = [pc |-> "walk", listed |-> found,
                 todo |-> [h \in PHosts |-> IF h \in found THEN prow[h].interval ELSE Never]]
    /\ tickReady' = FALSE
    /\ UNCHANGED <<prow, cancelled, lastPolled, inFlight, polls, since, listFaults>>

\* The query fails, always so once ctx is done: the round is dropped.
ListFails ==
    /\ sched.pc = "wait" /\ tickReady
    /\ cancelled \/ listFaults < MaxListFaults
    /\ listFaults' = IF cancelled THEN listFaults ELSE listFaults + 1
    /\ tickReady' = FALSE
    /\ UNCHANGED <<prow, sched, cancelled, lastPolled, inFlight, polls, since>>

\* (mutant) the poll in progress is not looked at
DueWhileBusy(h) == lastPolled[h] = Never \/ lastPolled[h] >= sched.todo[h]

Due(h) == h \notin inFlight /\ (lastPolled[h] = Never \/ lastPolled[h] >= sched.todo[h])

StartPoll(h) ==
    \E i \in Slots :
        /\ polls[h][i] = NoPoll /\ \A j \in Slots : j < i => polls[h][j] # NoPoll
        /\ polls' = [polls EXCEPT ![h][i] = [pc |-> "request", age |-> 0]]

\* One host of the list: the critical section under mu, and the goroutine.
Consider(h) ==
    /\ sched.pc = "walk" /\ sched.todo[h] # Never
    /\ sched' = [sched EXCEPT !.todo[h] = Never]
    /\ IF Due(h)
       THEN /\ lastPolled' = [lastPolled EXCEPT ![h] = 0]
            /\ inFlight' = inFlight \cup {h}
            /\ since' = [since EXCEPT ![h] = 0]
            /\ StartPoll(h)
       ELSE UNCHANGED <<lastPolled, inFlight, polls, since>>
    /\ UNCHANGED <<prow, tickReady, cancelled, listFaults>>

\* After the walk: hosts that are no longer listed are forgotten; a poll of
\* theirs that still runs stays in inFlight.
Forget ==
    /\ sched.pc = "walk" /\ \A h \in PHosts : sched.todo[h] = Never
    /\ lastPolled' = [h \in PHosts |-> IF h \in sched.listed THEN lastPolled[h] ELSE Never]
    /\ sched' = Waiting
    /\ UNCHANGED <<prow, tickReady, cancelled, inFlight, polls, since, listFaults>>

-----------------------------------------------------------------------------
\* pollOne: the host answers 200 with a body that decodes, and Record begins.
Answered(h, i) ==
    /\ polls[h][i].pc = "request" /\ ~cancelled
    /\ polls' = [polls EXCEPT ![h][i] = [pc |-> "record", age |-> 0]]
    /\ UNCHANGED <<prow, sched, tickReady, cancelled, lastPolled, inFlight, since, listFaults>>

\* pollOne returns: no answer in time, another status, a body that is not
\* taken, ctx done, or the report stored or not.  The deferred calls free the host.
PollEnds(h, i) ==
    /\ polls[h][i] # NoPoll
    /\ polls' = [polls EXCEPT ![h][i] = NoPoll]
    /\ inFlight' = inFlight \ {h}
    /\ UNCHANGED <<prow, sched, tickReady, cancelled, lastPolled, since, listFaults>>

\* pollOne panics: Recover ends the panic, and the other deferred calls run.
PollPanics(h, i) ==
    /\ polls[h][i] # NoPoll
    /\ polls' = [polls EXCEPT ![h][i] = NoPoll]
    /\ inFlight' = inFlight \ {h}
    /\ UNCHANGED <<prow, sched, tickReady, cancelled, lastPolled, since, listFaults>>

-----------------------------------------------------------------------------
\* The row changes: created, edited, moved between push and pull, its secret
\* rotated or no longer opened by the key, deleted.
EditRow(h, row) ==
    /\ prow[h].mode # "gone" /\ prow[h] # row
    /\ prow' = [prow EXCEPT ![h] = row]
    /\ since' = [since EXCEPT ![h] = 0]
    /\ UNCHANGED <<sched, tickReady, cancelled, lastPolled, inFlight, polls, listFaults>>

\* Shutdown: ctx is cancelled at any point.
Cancel ==
    /\ ~cancelled /\ cancelled' = TRUE
    /\ UNCHANGED <<prow, sched, tickReady, lastPolled, inFlight, polls, since, listFaults>>

\* Run sees ctx.Done and waits for the polls.
Drain ==
    /\ sched.pc = "wait" /\ cancelled
    /\ sched' = [sched EXCEPT !.pc = "drain"]
    /\ UNCHANGED <<prow, tickReady, cancelled, lastPolled, inFlight, polls, since, listFaults>>

RunReturns ==
    /\ sched.pc = "drain" /\ \A h \in PHosts, i \in Slots : polls[h][i] = NoPoll
    /\ sched' = [sched EXCEPT !.pc = "returned"]
    /\ UNCHANGED <<prow, tickReady, cancelled, lastPolled, inFlight, polls, since, listFaults>>

PollOlder(age) == IF age = Never \/ age = PollAged THEN age ELSE age + 1

\* dueCheckInterval passes: the ticker ticks.  The walk itself takes no time,
\* and no poll outlives its limits.
PullTick ==
    /\ ~cancelled /\ sched.pc = "wait" /\ ~tickReady
    /\ \A h \in PHosts, i \in Slots :
        /\ polls[h][i].pc = "request" => polls[h][i].age < PollTimeout
        /\ polls[h][i].pc = "record" => polls[h][i].age < RecordMax
    /\ tickReady' = TRUE
    /\ lastPolled' = [h \in PHosts |-> PollOlder(lastPolled[h])]
    /\ polls' = [h \in PHosts |-> [i \in Slots |->
                    IF polls[h][i] = NoPoll THEN NoPoll ELSE [polls[h][i] EXCEPT !.age = @ + 1]]]
    /\ since' = [h \in PHosts |-> IF ~Pollable(h) THEN 0
                                  ELSE IF since[h] = LongWait THEN LongWait ELSE since[h] + 1]
    /\ UNCHANGED <<prow, sched, cancelled, inFlight, listFaults>>

PullNext ==
    \/ List \/ ListFails \/ Forget
    \/ \E h \in PHosts : Consider(h)
    \/ \E h \in PHosts, i \in Slots : Answered(h, i) \/ PollEnds(h, i) \/ PollPanics(h, i)
    \/ \E h \in PHosts, row \in HostRows : EditRow(h, row)
    \/ Cancel \/ Drain \/ RunReturns \/ PullTick

PullSpec == PullInit /\ [][PullNext]_uvars

-----------------------------------------------------------------------------
\* A host is polled by one goroutine at a time, even one that is slower than
\* its interval, or that was dropped from the list and came back while its
\* poll was running (pollDueHosts, scheduler.go:119-126, 141-148).
OnePollPerHost ==
    \A h \in PHosts : Cardinality({i \in Slots : polls[h][i] # NoPoll}) <= 1

\* A pull host is never lost: from one poll to the next no more passes than
\* its interval or the longest poll, one tick and the listings that failed,
\* whatever the polls before it came to (scheduler.go:125-138).
PollGapBounded ==
    ~cancelled => \A h \in PHosts : since[h] <= GapLimit(h)

\* Once Run has returned no poll is left that would still write to the pool
\* that main closes next (scheduler.go:96-99, 131).
QuietAfterReturn ==
    sched.pc = "returned" => \A h \in PHosts, i \in Slots : polls[h][i] = NoPoll

\* A pull host is polled by one goroutine at a time, and again in due time,
\* until Run returns and nothing is left running, however slow or broken
\* polls, listings and rows are (scheduler.go).
PollsExact == PullTypeOK /\ OnePollPerHost /\ PollGapBounded /\ QuietAfterReturn
=============================================================================
