---------------------------- MODULE FleetProofs ----------------------------
(* Proofs about the components between the agents and the server: what the *)
(* pull scheduler, the agent's collection and report, the cleaning of a    *)
(* report and the record of a host do, for every value of the constants.   *)
EXTENDS PullScheduler, AgentReports, AgentCollect, HostState, IngestSections,
        FiniteSetTheorems, SequenceTheorems, WellFoundedInduction, TLAPS

-----------------------------------------------------------------------------
(* The pull scheduler                                                      *)

Busy(h, i) == polls[h][i] # NoPoll

\* A poll is nothing, a request within its timeout or a report being stored.
PollStates ==
    {NoPoll} \cup [pc: {"request"}, age: 0..PollTimeout] \cup [pc: {"record"}, age: 0..RecordMax]

\* inFlight is the set of hosts with a poll, which has the first slot.
InFlightIsPolls ==
    \A h \in PHosts : /\ h \in inFlight <=> Busy(h, 1)
                      /\ ~Busy(h, 2)

\* How long a poll has been running at most, from its request on.
Running(p) == IF p.pc = "record" THEN PollTimeout + p.age ELSE p.age

\* A host that is being polled has waited no longer than its poll runs, and
\* one that was polled no longer than that is ago.
WaitExplained ==
    \A h \in PHosts :
        /\ Busy(h, 1) => since[h] <= Running(polls[h][1])
        /\ lastPolled[h] \notin {Never, PollAged} => since[h] <= lastPolled[h]
        /\ ~Pollable(h) => since[h] = 0

\* What the walk compares with is what the row says, or the row was changed
\* after it was read; what is not walked any more had its turn.
WalkFresh ==
    sched.pc = "walk" =>
        \A h \in PHosts :
            sched.todo[h] # Never => since[h] = 0 \/ sched.todo[h] = prow[h].interval

\* A round is still to come for h: a tick lies ready or the walk has not
\* come to it.
RoundDue(h) == tickReady \/ (sched.pc = "walk" /\ sched.todo[h] # Never)

\* Between two rounds a host waits no longer than its interval or the longest
\* poll and the listings that failed, one tick more when a round is due.
GapInv ==
    ~cancelled => \A h \in PHosts :
        since[h] <= (IF prow[h].interval > PollMax THEN prow[h].interval ELSE PollMax)
                      + listFaults + (IF RoundDue(h) THEN 1 ELSE 0)

PullInv ==
    /\ PullTypeOK
    /\ polls \in [PHosts -> [Slots -> PollStates]]
    /\ InFlightIsPolls /\ WaitExplained /\ WalkFresh /\ GapInv
    /\ tickReady => sched.pc # "walk"
    /\ sched.pc = "returned" => \A h \in PHosts : ~Busy(h, 1)

\* The largest interval, and the other bounds.
LEMMA PullBounds ==
    /\ Longest \in Intervals /\ \A m \in Intervals : m \in Nat /\ m > 0 /\ m <= Longest
    /\ Longest \in Nat /\ Longest > 0
    /\ PollTimeout \in Nat /\ PollTimeout > 0 /\ RecordMax \in Nat /\ MaxListFaults \in Nat
    /\ PollMax \in Nat /\ PollMax = PollTimeout + RecordMax
    /\ PollAged = Longest /\ LongWait = Longest + PollMax + MaxListFaults + 2
    /\ Never \notin Nat
  <1>1. Longest \in Intervals /\ \A m \in Intervals : m <= Longest
    BY PullAssumption DEF Longest
  <1> QED
    BY <1>1, PullAssumption DEF PollMax, PollAged, LongWait

\* Every row has an interval, if only the one that is not read.
LEMMA RowIntervals ==
    ASSUME NEW r \in HostRows
    PROVE  r.interval \in Intervals /\ r.interval \in Nat
  <1>1. CASE r \in [mode: {"pull"}, interval: Intervals, opens: BOOLEAN]
    <2>1. r.interval \in Intervals
      BY <1>1
    <2> QED
      BY <2>1, PullBounds
  <1>2. CASE r \in {OtherRow("push"), OtherRow("gone")}
    <2>1. r.interval = Longest
      BY <1>2 DEF OtherRow
    <2> QED
      BY <2>1, PullBounds
  <1> QED
    BY <1>1, <1>2 DEF HostRows

\* Nothing runs when the scheduler starts.
LEMMA PullInitInv == PullInit => PullInv
  <1> SUFFICES ASSUME PullInit PROVE PullInv
    OBVIOUS
  <1> USE PullBounds
  <1>1. prow \in [PHosts -> HostRows] /\ \A h \in PHosts : prow[h].mode # "gone" /\ prow[h].opens
    BY DEF PullInit
  <1>2. \A h \in PHosts : prow[h].interval \in Nat
    BY <1>1, RowIntervals
  <1>3. polls \in [PHosts -> [Slots -> PollStates]]
    BY DEF PullInit, PollStates
  <1>4. \A h \in PHosts : ~Busy(h, 1) /\ ~Busy(h, 2)
    BY DEF PullInit, Busy, Slots
  <1>5. InFlightIsPolls /\ WaitExplained /\ WalkFresh
    BY <1>4 DEF PullInit, InFlightIsPolls, WaitExplained, WalkFresh, Waiting
  <1>6. GapInv
    BY <1>2 DEF PullInit, GapInv
  <1>7. PullTypeOK
    <2>1. polls \in [PHosts -> [Slots -> [pc: {"none", "request", "record"}, age: 0..PollMax]]]
      BY DEF PullInit, NoPoll
    <2>2. since \in [PHosts -> 0..LongWait] /\ listFaults \in 0..MaxListFaults
      BY DEF PullInit
    <2>3. sched \in [pc: {"wait", "walk", "forget", "drain", "returned"},
                     todo: [PHosts -> Intervals \cup {Never}], listed: SUBSET PHosts]
      BY DEF PullInit, Waiting
    <2> QED
      BY <1>1, <2>1, <2>2, <2>3 DEF PullInit, PullTypeOK
  <1> QED
    BY <1>3, <1>4, <1>5, <1>6, <1>7 DEF PullInit, PullInv, Waiting

\* What the types say of one host.
LEMMA PullFacts ==
    ASSUME PullInv, NEW h \in PHosts
    PROVE  /\ since[h] \in Nat /\ since[h] <= LongWait
           /\ prow[h] \in HostRows /\ prow[h].interval \in Intervals
           /\ prow[h].interval \in Nat /\ prow[h].interval <= Longest
           /\ listFaults \in Nat /\ listFaults <= MaxListFaults
           /\ lastPolled[h] = Never \/ lastPolled[h] \in 0..Longest
           /\ sched.todo[h] \in Intervals \cup {Never}
           /\ polls[h] \in [Slots -> PollStates] /\ polls[h][1] \in PollStates
           /\ 1 \in Slots /\ 2 \in Slots /\ Slots = {1, 2}
  <1>1. /\ prow \in [PHosts -> HostRows] /\ lastPolled \in [PHosts -> 0..PollAged \cup {Never}]
        /\ since \in [PHosts -> 0..LongWait] /\ listFaults \in 0..MaxListFaults
        /\ sched.todo \in [PHosts -> Intervals \cup {Never}]
        /\ polls \in [PHosts -> [Slots -> PollStates]]
    BY DEF PullInv, PullTypeOK
  <1>2. prow[h].interval \in Intervals /\ prow[h].interval \in Nat
    BY <1>1, RowIntervals
  <1>3. since[h] \in 0..LongWait /\ lastPolled[h] \in 0..PollAged \cup {Never}
    BY <1>1
  <1>4. since[h] \in Nat /\ since[h] <= LongWait /\ listFaults \in Nat /\ listFaults <= MaxListFaults
    BY <1>1, <1>3, PullBounds
  <1>5. lastPolled[h] = Never \/ lastPolled[h] \in 0..Longest
    BY <1>3, PullBounds
  <1>6. prow[h].interval <= Longest
    BY <1>2, PullBounds
  <1> QED
    BY <1>1, <1>2, <1>4, <1>5, <1>6 DEF Slots

\* A round begins.
LEMMA ListInv == PullInv /\ List => PullInv'
  <1> SUFFICES ASSUME PullInv, List PROVE PullInv'
    OBVIOUS
  <1> DEFINE found == {h \in PHosts : Pollable(h)}
             todo == [h \in PHosts |-> IF h \in found THEN prow[h].interval ELSE Never]
  <1>1. /\ sched' = [pc |-> "walk", listed |-> found, todo |-> todo]
        /\ tickReady' = FALSE /\ tickReady = TRUE
        /\ UNCHANGED <<prow, cancelled, lastPolled, inFlight, polls, since, listFaults>>
    BY DEF List
  <1>2. \A h \in PHosts : prow[h].interval \in Intervals
    BY PullFacts
  <1>3. todo \in [PHosts -> Intervals \cup {Never}] /\ found \in SUBSET PHosts
    BY <1>2
  <1>4. \A h \in PHosts : h \notin found => since[h] = 0
    BY DEF PullInv, WaitExplained
  <1>5. \A h \in PHosts : todo[h] # Never => h \in found /\ todo[h] = prow[h].interval
    OBVIOUS
  <1>6. \A h \in PHosts : h \in found => todo[h] # Never
    BY <1>2, PullBounds
  <1> HIDE DEF found, todo
  <1>7. PullTypeOK'
    BY <1>1, <1>3 DEF PullInv, PullTypeOK
  <1>8. WalkFresh'
    BY <1>1, <1>5 DEF WalkFresh
  <1>9. GapInv'
    <2> SUFFICES ASSUME ~cancelled, NEW h \in PHosts
                 PROVE  since[h] <= (IF prow[h].interval > PollMax THEN prow[h].interval ELSE PollMax)
                                      + listFaults + (IF RoundDue(h)' THEN 1 ELSE 0)
      BY <1>1 DEF GapInv
    <2>1. since[h] <= (IF prow[h].interval > PollMax THEN prow[h].interval ELSE PollMax) + listFaults + 1
      BY <1>1 DEF PullInv, GapInv, RoundDue
    <2>2. h \in found => RoundDue(h)'
      BY <1>1, <1>6 DEF RoundDue
    <2> QED
      BY <1>4, <2>1, <2>2, PullFacts, PullBounds
  <1>10. InFlightIsPolls' /\ WaitExplained'
    BY <1>1 DEF PullInv, InFlightIsPolls, WaitExplained, Busy, Pollable
  <1> QED
    BY <1>1, <1>7, <1>8, <1>9, <1>10 DEF PullInv

\* A round is lost: the fault pays for the tick.
LEMMA ListFailsInv == PullInv /\ ListFails => PullInv'
  <1> SUFFICES ASSUME PullInv, ListFails PROVE PullInv'
    OBVIOUS
  <1>1. /\ tickReady' = FALSE /\ tickReady = TRUE
        /\ UNCHANGED <<prow, sched, cancelled, lastPolled, inFlight, polls, since>>
        /\ sched.pc = "wait"
    BY DEF ListFails
  <1>2. /\ cancelled \/ listFaults' = listFaults + 1
        /\ listFaults' \in 0..MaxListFaults
    BY PullBounds DEF ListFails, PullInv, PullTypeOK
  <1>3. PullTypeOK'
    BY <1>1, <1>2 DEF PullInv, PullTypeOK
  <1>4. GapInv'
    <2> SUFFICES ASSUME ~cancelled, NEW h \in PHosts
                 PROVE  since[h] <= (IF prow[h].interval > PollMax THEN prow[h].interval ELSE PollMax)
                                      + listFaults' + (IF RoundDue(h)' THEN 1 ELSE 0)
      BY <1>1 DEF GapInv
    <2>1. since[h] <= (IF prow[h].interval > PollMax THEN prow[h].interval ELSE PollMax) + listFaults + 1
      BY <1>1 DEF PullInv, GapInv, RoundDue
    <2> QED
      BY <1>2, <2>1, PullFacts, PullBounds
  <1>5. InFlightIsPolls' /\ WaitExplained' /\ WalkFresh'
    BY <1>1 DEF PullInv, InFlightIsPolls, WaitExplained, WalkFresh, Busy, Pollable
  <1> QED
    BY <1>1, <1>3, <1>4, <1>5 DEF PullInv, Busy

\* The walk comes to h: a host that is due is polled; one that is not has a
\* poll running or was polled within its interval.
LEMMA ConsiderInv == ASSUME PullInv, NEW h \in PHosts, Consider(h) PROVE PullInv'
  <1>1. /\ sched.pc = "walk" /\ sched.todo[h] # Never /\ ~tickReady
        /\ sched' = [sched EXCEPT !.todo[h] = Never]
        /\ UNCHANGED <<prow, tickReady, cancelled, listFaults>>
    BY DEF Consider, PullInv
  <1>2. /\ sched'.pc = "walk" /\ sched'.todo[h] = Never
        /\ \A g \in PHosts \ {h} : sched'.todo[g] = sched.todo[g]
        /\ sched' \in [pc: {"wait", "walk", "forget", "drain", "returned"},
                       todo: [PHosts -> Intervals \cup {Never}], listed: SUBSET PHosts]
    BY <1>1 DEF PullInv, PullTypeOK
  <1>3. CASE Due(h)
    <2>1. /\ lastPolled' = [lastPolled EXCEPT ![h] = 0]
          /\ inFlight' = inFlight \cup {h}
          /\ since' = [since EXCEPT ![h] = 0]
          /\ StartPoll(h)
      BY <1>3 DEF Consider
    <2>2. polls[h][1] = NoPoll /\ polls[h][2] = NoPoll
      BY <1>3 DEF Due, PullInv, InFlightIsPolls, Busy
    <2>3. polls' = [polls EXCEPT ![h][1] = [pc |-> "request", age |-> 0]]
      <3>1. PICK i \in Slots : /\ \A j \in Slots : j < i => polls[h][j] # NoPoll
                               /\ polls' = [polls EXCEPT ![h][i] = [pc |-> "request", age |-> 0]]
        BY <2>1 DEF StartPoll
      <3>2. i = 1
        BY <2>2, <3>1 DEF Slots
      <3> QED
        BY <3>1, <3>2
    <2>4. /\ polls'[h][1] = [pc |-> "request", age |-> 0] /\ polls'[h][2] = NoPoll
          /\ \A g \in PHosts \ {h} : polls'[g] = polls[g]
          /\ polls' \in [PHosts -> [Slots -> PollStates]]
      <3>1. [pc |-> "request", age |-> 0] \in PollStates
        BY PullBounds DEF PollStates
      <3> QED
        BY <2>2, <2>3, <3>1 DEF PullInv, Slots
    <2>5. Busy(h, 1)' /\ ~Busy(h, 2)' /\ \A g \in PHosts \ {h}, i \in Slots : Busy(g, i)' <=> Busy(g, i)
      BY <2>4 DEF Busy, NoPoll
    <2>6. /\ since'[h] = 0 /\ lastPolled'[h] = 0
          /\ \A g \in PHosts \ {h} : since'[g] = since[g] /\ lastPolled'[g] = lastPolled[g]
          /\ since' \in [PHosts -> 0..LongWait] /\ lastPolled' \in [PHosts -> 0..PollAged \cup {Never}]
      BY <2>1, PullBounds DEF PullInv, PullTypeOK
    <2>7. PullTypeOK'
      <3>1. polls' \in [PHosts -> [Slots -> [pc: {"none", "request", "record"}, age: 0..PollMax]]]
        <4>1. PollStates \subseteq [pc: {"none", "request", "record"}, age: 0..PollMax]
          BY PullBounds DEF PollStates, NoPoll
        <4> QED
          BY <2>4, <4>1
      <3> QED
        BY <1>1, <1>2, <2>1, <2>6, <3>1 DEF PullInv, PullTypeOK
    <2>8. InFlightIsPolls'
      BY <2>1, <2>5 DEF PullInv, InFlightIsPolls, Slots
    <2>9. WaitExplained'
      <3> SUFFICES ASSUME NEW g \in PHosts
                   PROVE  /\ Busy(g, 1)' => since'[g] <= Running(polls'[g][1])
                          /\ lastPolled'[g] \notin {Never, PollAged} => since'[g] <= lastPolled'[g]
                          /\ ~Pollable(g)' => since'[g] = 0
        BY DEF WaitExplained
      <3>1. CASE g = h
        BY <2>4, <2>6, <3>1 DEF Running
      <3>2. CASE g # h
        BY <1>1, <2>4, <2>5, <2>6, <3>2 DEF PullInv, WaitExplained, Pollable, Slots
      <3> QED
        BY <3>1, <3>2
    <2>10. WalkFresh'
      BY <1>1, <1>2, <2>6 DEF PullInv, WalkFresh
    <2>11. GapInv'
      <3> SUFFICES ASSUME ~cancelled, NEW g \in PHosts
                   PROVE  since'[g] <= (IF prow[g].interval > PollMax THEN prow[g].interval ELSE PollMax)
                                        + listFaults + (IF RoundDue(g)' THEN 1 ELSE 0)
        BY <1>1 DEF GapInv
      <3>1. CASE g = h
        BY <2>6, <3>1, PullFacts, PullBounds
      <3>2. CASE g # h
        <4>1. RoundDue(g)' <=> RoundDue(g)
          BY <1>1, <1>2, <3>2 DEF RoundDue
        <4> QED
          BY <2>6, <3>2, <4>1 DEF PullInv, GapInv
      <3> QED
        BY <3>1, <3>2
    <2> QED
      BY <1>1, <1>2, <2>4, <2>7, <2>8, <2>9, <2>10, <2>11 DEF PullInv
  <1>4. CASE ~Due(h)
    <2>1. UNCHANGED <<lastPolled, inFlight, polls, since>>
      BY <1>4 DEF Consider
    <2>2. since[h] <= IF prow[h].interval > PollMax THEN prow[h].interval ELSE PollMax
      <3>1. CASE h \in inFlight
        <4>1. since[h] <= Running(polls[h][1]) /\ polls[h][1] \in PollStates /\ polls[h][1] # NoPoll
          BY <3>1, PullFacts DEF PullInv, InFlightIsPolls, WaitExplained, Busy
        <4>2. Running(polls[h][1]) \in Nat /\ Running(polls[h][1]) <= PollMax
          BY <4>1, PullBounds DEF Running, PollStates
        <4> QED
          BY <4>1, <4>2, PullFacts, PullBounds
      <3>2. CASE h \notin inFlight
        <4>1. lastPolled[h] # Never /\ ~(lastPolled[h] >= sched.todo[h])
          BY <1>4, <3>2 DEF Due
        <4>2. sched.todo[h] \in Nat /\ sched.todo[h] <= Longest /\ lastPolled[h] \in 0..Longest
          BY <1>1, <4>1, PullFacts, PullBounds
        <4>3. lastPolled[h] < sched.todo[h] /\ lastPolled[h] # PollAged
          BY <4>1, <4>2, PullBounds
        <4>4. since[h] <= lastPolled[h]
          BY <4>1, <4>3 DEF PullInv, WaitExplained
        <4>5. since[h] = 0 \/ sched.todo[h] = prow[h].interval
          BY <1>1 DEF PullInv, WalkFresh
        <4> QED
          BY <4>2, <4>3, <4>4, <4>5, PullFacts, PullBounds
      <3> QED
        BY <3>1, <3>2
    <2>3. PullTypeOK'
      BY <1>1, <1>2, <2>1 DEF PullInv, PullTypeOK
    <2>4. InFlightIsPolls' /\ WaitExplained'
      BY <1>1, <2>1 DEF PullInv, InFlightIsPolls, WaitExplained, Busy, Pollable
    <2>5. WalkFresh'
      BY <1>1, <1>2, <2>1 DEF PullInv, WalkFresh
    <2>6. GapInv'
      <3> SUFFICES ASSUME ~cancelled, NEW g \in PHosts
                   PROVE  since[g] <= (IF prow[g].interval > PollMax THEN prow[g].interval ELSE PollMax)
                                        + listFaults + (IF RoundDue(g)' THEN 1 ELSE 0)
        BY <1>1, <2>1 DEF GapInv
      <3>1. CASE g = h
        BY <2>2, <3>1, PullFacts, PullBounds
      <3>2. CASE g # h
        <4>1. RoundDue(g)' <=> RoundDue(g)
          BY <1>1, <1>2, <3>2 DEF RoundDue
        <4> QED
          BY <4>1 DEF PullInv, GapInv
      <3> QED
        BY <3>1, <3>2
    <2> QED
      BY <1>1, <1>2, <2>1, <2>3, <2>4, <2>5, <2>6 DEF PullInv, Busy
  <1> QED
    BY <1>3, <1>4

\* The round is over: every host of the list had its turn.
LEMMA ForgetInv == PullInv /\ Forget => PullInv'
  <1> SUFFICES ASSUME PullInv, Forget PROVE PullInv'
    OBVIOUS
  <1>1. /\ sched.pc = "walk" /\ \A h \in PHosts : sched.todo[h] = Never
        /\ lastPolled' = [h \in PHosts |-> IF h \in sched.listed THEN lastPolled[h] ELSE Never]
        /\ sched' = Waiting
        /\ UNCHANGED <<prow, tickReady, cancelled, inFlight, polls, since, listFaults>>
    BY DEF Forget
  <1>2. sched'.pc = "wait"
    BY <1>1 DEF Waiting
  <1>3. lastPolled' \in [PHosts -> 0..PollAged \cup {Never}]
    BY <1>1 DEF PullInv, PullTypeOK
  <1>4. sched' \in [pc: {"wait", "walk", "forget", "drain", "returned"},
                   todo: [PHosts -> Intervals \cup {Never}], listed: SUBSET PHosts]
    BY <1>1 DEF Waiting
  <1>5. PullTypeOK'
    BY <1>1, <1>3, <1>4 DEF PullInv, PullTypeOK
  <1>6. InFlightIsPolls' /\ WalkFresh'
    BY <1>1, <1>2 DEF PullInv, InFlightIsPolls, WalkFresh, Busy
  <1>7. WaitExplained'
    <2> SUFFICES ASSUME NEW h \in PHosts
                 PROVE  /\ Busy(h, 1)' => since[h] <= Running(polls[h][1])
                        /\ lastPolled'[h] \notin {Never, PollAged} => since[h] <= lastPolled'[h]
                        /\ ~Pollable(h)' => since[h] = 0
      BY <1>1 DEF WaitExplained
    <2>1. lastPolled'[h] = lastPolled[h] \/ lastPolled'[h] = Never
      BY <1>1
    <2> QED
      BY <1>1, <2>1 DEF PullInv, WaitExplained, Busy, Pollable
  <1>8. GapInv'
    <2>1. \A h \in PHosts : RoundDue(h)' <=> RoundDue(h)
      BY <1>1, <1>2 DEF RoundDue
    <2> QED
      BY <1>1, <2>1 DEF PullInv, GapInv
  <1> QED
    BY <1>1, <1>2, <1>5, <1>6, <1>7, <1>8 DEF PullInv

\* A poll goes on to store the report: it has been running for the timeout
\* at most.
LEMMA AnsweredInv == ASSUME PullInv, NEW h \in PHosts, NEW i \in Slots, Answered(h, i) PROVE PullInv'
  <1>1. /\ polls[h][i].pc = "request"
        /\ polls' = [polls EXCEPT ![h][i] = [pc |-> "record", age |-> 0]]
        /\ UNCHANGED <<prow, sched, tickReady, cancelled, lastPolled, inFlight, since, listFaults>>
    BY DEF Answered
  <1>2. Busy(h, i) /\ i = 1
    <2>1. Busy(h, i)
      BY <1>1 DEF Busy, NoPoll
    <2> QED
      BY <2>1 DEF PullInv, InFlightIsPolls, Slots
  <1>3. [pc |-> "record", age |-> 0] \in PollStates
    BY PullBounds DEF PollStates
  <1>4. /\ polls' \in [PHosts -> [Slots -> PollStates]]
        /\ polls'[h][1] = [pc |-> "record", age |-> 0] /\ polls'[h][2] = polls[h][2]
        /\ \A g \in PHosts \ {h} : polls'[g] = polls[g]
    BY <1>1, <1>2, <1>3 DEF PullInv, Slots
  <1>5. PullTypeOK'
    <2>1. PollStates \subseteq [pc: {"none", "request", "record"}, age: 0..PollMax]
      BY PullBounds DEF PollStates, NoPoll
    <2> QED
      BY <1>1, <1>4, <2>1 DEF PullInv, PullTypeOK
  <1>6. \A g \in PHosts : (Busy(g, 1)' <=> Busy(g, 1)) /\ (Busy(g, 2)' <=> Busy(g, 2))
    BY <1>2, <1>4 DEF Busy, NoPoll
  <1>7. InFlightIsPolls' /\ WalkFresh' /\ GapInv'
    BY <1>1, <1>6 DEF PullInv, InFlightIsPolls, WalkFresh, GapInv, RoundDue
  <1>8. WaitExplained'
    <2> SUFFICES ASSUME NEW g \in PHosts
                 PROVE  /\ Busy(g, 1) => since[g] <= Running(polls'[g][1])
                        /\ lastPolled[g] \notin {Never, PollAged} => since[g] <= lastPolled[g]
                        /\ ~Pollable(g)' => since[g] = 0
      BY <1>1, <1>6 DEF WaitExplained
    <2>1. CASE g = h
      <3>1. since[h] <= Running(polls[h][1]) /\ polls[h][1] \in PollStates
        BY <1>2, PullFacts DEF PullInv, WaitExplained
      <3>2. Running(polls[h][1]) \in Nat /\ Running(polls[h][1]) <= PollTimeout
        BY <1>1, <1>2, <3>1, PullBounds DEF Running, PollStates, NoPoll
      <3>3. Running(polls'[h][1]) = PollTimeout
        BY <1>4, PullBounds DEF Running
      <3>4. since[h] <= Running(polls'[h][1])
        BY <3>1, <3>2, <3>3, PullFacts, PullBounds
      <3> QED
        BY <1>1, <2>1, <3>4 DEF PullInv, WaitExplained, Pollable
    <2>2. CASE g # h
      BY <1>1, <1>4, <2>2 DEF PullInv, WaitExplained, Pollable
    <2> QED
      BY <2>1, <2>2
  <1>9. sched'.pc = "returned" => \A g \in PHosts : ~Busy(g, 1)'
    BY <1>1, <1>6 DEF PullInv
  <1> QED
    BY <1>1, <1>4, <1>5, <1>7, <1>8, <1>9 DEF PullInv

\* A poll ends, and frees its host.
LEMMA PollEndsInv ==
    ASSUME PullInv, NEW h \in PHosts, NEW i \in Slots, PollEnds(h, i) \/ PollPanics(h, i)
    PROVE  PullInv'
  <1>1. /\ polls[h][i] # NoPoll
        /\ polls' = [polls EXCEPT ![h][i] = NoPoll]
        /\ inFlight' = inFlight \ {h}
        /\ UNCHANGED <<prow, sched, tickReady, cancelled, lastPolled, since, listFaults>>
    BY DEF PollEnds, PollPanics
  <1>2. i = 1
    BY <1>1 DEF PullInv, InFlightIsPolls, Busy, Slots
  <1>3. NoPoll \in PollStates
    BY DEF PollStates
  <1>4. /\ polls' \in [PHosts -> [Slots -> PollStates]]
        /\ polls'[h][1] = NoPoll /\ polls'[h][2] = polls[h][2]
        /\ \A g \in PHosts \ {h} : polls'[g] = polls[g]
    BY <1>1, <1>2, <1>3 DEF PullInv, Slots
  <1>5. PullTypeOK'
    <2>1. PollStates \subseteq [pc: {"none", "request", "record"}, age: 0..PollMax]
      BY PullBounds DEF PollStates, NoPoll
    <2> QED
      BY <1>1, <1>4, <2>1 DEF PullInv, PullTypeOK
  <1>6. /\ ~Busy(h, 1)' /\ (Busy(h, 2)' <=> Busy(h, 2))
        /\ \A g \in PHosts \ {h} : (Busy(g, 1)' <=> Busy(g, 1)) /\ (Busy(g, 2)' <=> Busy(g, 2))
    BY <1>4 DEF Busy
  <1>7. InFlightIsPolls' /\ WalkFresh' /\ GapInv'
    BY <1>1, <1>6 DEF PullInv, InFlightIsPolls, WalkFresh, GapInv, RoundDue
  <1>8. WaitExplained'
    BY <1>1, <1>4, <1>6 DEF PullInv, WaitExplained, Pollable
  <1>9. sched'.pc = "returned" => \A g \in PHosts : ~Busy(g, 1)'
    BY <1>1, <1>6 DEF PullInv
  <1> QED
    BY <1>1, <1>4, <1>5, <1>7, <1>8, <1>9 DEF PullInv

\* A row that is changed starts to wait anew.
LEMMA EditRowInv == ASSUME PullInv, NEW h \in PHosts, NEW r \in HostRows, EditRow(h, r) PROVE PullInv'
  <1>1. /\ prow' = [prow EXCEPT ![h] = r] /\ since' = [since EXCEPT ![h] = 0]
        /\ UNCHANGED <<sched, tickReady, cancelled, lastPolled, inFlight, polls, listFaults>>
    BY DEF EditRow
  <1>2. /\ prow' \in [PHosts -> HostRows] /\ since' \in [PHosts -> 0..LongWait]
        /\ since'[h] = 0 /\ prow'[h] = r
        /\ \A g \in PHosts \ {h} : since'[g] = since[g] /\ prow'[g] = prow[g]
    BY <1>1, PullBounds DEF PullInv, PullTypeOK
  <1>3. PullTypeOK'
    BY <1>1, <1>2 DEF PullInv, PullTypeOK
  <1>4. InFlightIsPolls' /\ WalkFresh'
    BY <1>1, <1>2 DEF PullInv, InFlightIsPolls, WalkFresh, Busy
  <1>5. WaitExplained'
    <2> SUFFICES ASSUME NEW g \in PHosts
                 PROVE  /\ Busy(g, 1) => since'[g] <= Running(polls[g][1])
                        /\ lastPolled[g] \notin {Never, PollAged} => since'[g] <= lastPolled[g]
                        /\ ~Pollable(g)' => since'[g] = 0
      BY <1>1 DEF WaitExplained, Busy
    <2>1. CASE g = h
      <3>1. lastPolled[h] \notin {Never, PollAged} => lastPolled[h] >= 0
        BY PullFacts, PullBounds
      <3>2. Busy(h, 1) => Running(polls[h][1]) >= 0
        BY PullFacts, PullBounds DEF Busy, Running, PollStates
      <3> QED
        BY <1>2, <2>1, <3>1, <3>2
    <2>2. CASE g # h
      BY <1>2, <2>2 DEF PullInv, WaitExplained, Pollable
    <2> QED
      BY <2>1, <2>2
  <1>6. GapInv'
    <2> SUFFICES ASSUME ~cancelled, NEW g \in PHosts
                 PROVE  since'[g] <= (IF prow'[g].interval > PollMax THEN prow'[g].interval ELSE PollMax)
                                      + listFaults + (IF RoundDue(g) THEN 1 ELSE 0)
      BY <1>1 DEF GapInv, RoundDue
    <2>1. CASE g = h
      BY <1>2, <2>1, PullFacts, PullBounds, RowIntervals
    <2>2. CASE g # h
      BY <1>2, <2>2 DEF PullInv, GapInv
    <2> QED
      BY <2>1, <2>2
  <1> QED
    BY <1>1, <1>3, <1>4, <1>5, <1>6 DEF PullInv, Busy

\* Time passes between two rounds only.
LEMMA PullTickInv == PullInv /\ PullTick => PullInv'
  <1> SUFFICES ASSUME PullInv, PullTick PROVE PullInv'
    OBVIOUS
  <1>1. /\ ~cancelled /\ sched.pc = "wait" /\ ~tickReady /\ tickReady' = TRUE
        /\ \A h \in PHosts, i \in Slots : /\ polls[h][i].pc = "request" => polls[h][i].age < PollTimeout
                                          /\ polls[h][i].pc = "record" => polls[h][i].age < RecordMax
        /\ lastPolled' = [h \in PHosts |-> PollOlder(lastPolled[h])]
        /\ polls' = [h \in PHosts |-> [i \in Slots |->
                        IF polls[h][i] = NoPoll THEN NoPoll ELSE [polls[h][i] EXCEPT !.age = @ + 1]]]
        /\ since' = [h \in PHosts |-> IF ~Pollable(h) THEN 0
                                      ELSE IF since[h] = LongWait THEN LongWait ELSE since[h] + 1]
        /\ UNCHANGED <<prow, sched, cancelled, inFlight, listFaults>>
    BY DEF PullTick
  <1>2. ASSUME NEW h \in PHosts, NEW i \in Slots, polls[h][i] # NoPoll
        PROVE  /\ polls'[h][i] \in PollStates /\ polls'[h][i] # NoPoll
               /\ Running(polls'[h][i]) = Running(polls[h][i]) + 1
               /\ Running(polls[h][i]) \in Nat
    <2>1. polls[h][i] \in PollStates
      BY DEF PullInv
    <2>2. polls'[h][i] = [polls[h][i] EXCEPT !.age = @ + 1]
      BY <1>1, <1>2
    <2>3. CASE polls[h][i] \in [pc: {"request"}, age: 0..PollTimeout]
      <3>1. polls'[h][i].pc = "request" /\ polls'[h][i].age = polls[h][i].age + 1
            /\ polls'[h][i] \in [pc: {"request"}, age: 0..PollTimeout]
        <4>1. polls[h][i].pc = "request" /\ polls[h][i].age \in 0..PollTimeout
          BY <2>3
        <4>2. polls[h][i].age < PollTimeout
          BY <1>1, <4>1
        <4> QED
          BY <2>2, <2>3, <4>1, <4>2, PullBounds
      <3> QED
        BY <2>3, <3>1, PullBounds DEF Running, PollStates, NoPoll
    <2>4. CASE polls[h][i] \in [pc: {"record"}, age: 0..RecordMax]
      <3>1. polls'[h][i].pc = "record" /\ polls'[h][i].age = polls[h][i].age + 1
            /\ polls'[h][i] \in [pc: {"record"}, age: 0..RecordMax]
        BY <1>1, <2>2, <2>4, PullBounds
      <3> QED
        BY <2>4, <3>1, PullBounds DEF Running, PollStates, NoPoll
    <2> QED
      BY <1>2, <2>1, <2>3, <2>4 DEF PollStates
  <1>3. \A h \in PHosts, i \in Slots : polls[h][i] = NoPoll => polls'[h][i] = NoPoll
    BY <1>1
  <1>4. polls' \in [PHosts -> [Slots -> PollStates]]
    <2>1. NoPoll \in PollStates
      BY DEF PollStates
    <2>2. \A h \in PHosts, i \in Slots : polls'[h][i] \in PollStates
      BY <1>2, <1>3, <2>1
    <2> QED
      BY <1>1, <2>2
  <1>5. ASSUME NEW h \in PHosts
        PROVE  /\ since'[h] \in 0..LongWait /\ since'[h] <= since[h] + 1
               /\ ~Pollable(h) => since'[h] = 0
    <2>1. since'[h] = IF ~Pollable(h) THEN 0 ELSE IF since[h] = LongWait THEN LongWait ELSE since[h] + 1
      BY <1>1
    <2> QED
      BY <2>1, PullFacts, PullBounds
  <1>6. ASSUME NEW h \in PHosts
        PROVE  /\ lastPolled'[h] \in 0..PollAged \cup {Never}
               /\ lastPolled'[h] \notin {Never, PollAged} =>
                     lastPolled[h] \notin {Never, PollAged} /\ lastPolled'[h] = lastPolled[h] + 1
    <2>1. lastPolled'[h] = PollOlder(lastPolled[h])
      BY <1>1
    <2>2. CASE lastPolled[h] \in {Never, PollAged}
      BY <2>1, <2>2, PullBounds DEF PollOlder
    <2>3. CASE lastPolled[h] \notin {Never, PollAged}
      <3>1. lastPolled[h] \in Nat /\ lastPolled[h] < Longest /\ lastPolled'[h] = lastPolled[h] + 1
        BY <2>1, <2>3, PullFacts, PullBounds DEF PollOlder
      <3> QED
        BY <2>3, <3>1, PullBounds
    <2> QED
      BY <2>2, <2>3
  <1>7. PullTypeOK'
    <2>1. PollStates \subseteq [pc: {"none", "request", "record"}, age: 0..PollMax]
      BY PullBounds DEF PollStates, NoPoll
    <2>2. since' \in [PHosts -> 0..LongWait] /\ lastPolled' \in [PHosts -> 0..PollAged \cup {Never}]
      BY <1>1, <1>5, <1>6
    <2> QED
      BY <1>1, <1>4, <2>1, <2>2 DEF PullInv, PullTypeOK
  <1>8. \A h \in PHosts : (Busy(h, 1)' <=> Busy(h, 1)) /\ (Busy(h, 2)' <=> Busy(h, 2))
    BY <1>2, <1>3 DEF Busy, Slots
  <1>9. InFlightIsPolls' /\ WalkFresh'
    BY <1>1, <1>8 DEF PullInv, InFlightIsPolls, WalkFresh
  <1>10. WaitExplained'
    <2> SUFFICES ASSUME NEW h \in PHosts
                 PROVE  /\ Busy(h, 1) => since'[h] <= Running(polls'[h][1])
                        /\ lastPolled'[h] \notin {Never, PollAged} => since'[h] <= lastPolled'[h]
                        /\ ~Pollable(h)' => since'[h] = 0
      BY <1>8 DEF WaitExplained
    <2>1. ASSUME Busy(h, 1) PROVE since'[h] <= Running(polls'[h][1])
      <3>1. since[h] <= Running(polls[h][1])
        BY <2>1 DEF PullInv, WaitExplained
      <3>2. Running(polls'[h][1]) = Running(polls[h][1]) + 1 /\ Running(polls[h][1]) \in Nat
        BY <1>2, <2>1 DEF Busy, Slots
      <3>3. since[h] \in Nat /\ since'[h] \in Nat /\ since'[h] <= since[h] + 1
        BY <1>5, PullFacts, PullBounds
      <3> QED
        BY <3>1, <3>2, <3>3
    <2>2. ASSUME lastPolled'[h] \notin {Never, PollAged} PROVE since'[h] <= lastPolled'[h]
      <3>1. since[h] <= lastPolled[h] /\ lastPolled'[h] = lastPolled[h] + 1
        BY <1>6, <2>2 DEF PullInv, WaitExplained
      <3>2. since[h] \in Nat /\ since'[h] \in Nat /\ since'[h] <= since[h] + 1 /\ lastPolled[h] \in Nat
        BY <1>5, <1>6, <2>2, PullFacts, PullBounds
      <3> QED
        BY <3>1, <3>2
    <2>3. ~Pollable(h)' => since'[h] = 0
      BY <1>1, <1>5 DEF Pollable
    <2> QED
      BY <2>1, <2>2, <2>3
  <1>11. GapInv'
    <2> SUFFICES ASSUME NEW h \in PHosts
                 PROVE  since'[h] <= (IF prow[h].interval > PollMax THEN prow[h].interval ELSE PollMax)
                                      + listFaults + 1
      BY <1>1 DEF GapInv, RoundDue
    <2>1. since[h] <= (IF prow[h].interval > PollMax THEN prow[h].interval ELSE PollMax) + listFaults
      BY <1>1, PullFacts, PullBounds DEF PullInv, GapInv, RoundDue
    <2>2. since'[h] \in Nat /\ since'[h] <= since[h] + 1
      BY <1>5, PullBounds
    <2> QED
      BY <2>1, <2>2, PullFacts, PullBounds
  <1> QED
    BY <1>1, <1>4, <1>7, <1>8, <1>9, <1>10, <1>11 DEF PullInv

\* Every step of the scheduler, of a poll, of the rows and of time.
LEMMA PullNextInv == PullInv /\ [PullNext]_uvars => PullInv'
  <1> SUFFICES ASSUME PullInv, [PullNext]_uvars PROVE PullInv'
    OBVIOUS
  <1>1. CASE Cancel
    <2>1. PullTypeOK'
      BY <1>1 DEF Cancel, PullInv, PullTypeOK
    <2>2. InFlightIsPolls' /\ WaitExplained' /\ WalkFresh' /\ GapInv'
      BY <1>1 DEF Cancel, PullInv, InFlightIsPolls, WaitExplained, WalkFresh, GapInv, Busy, Pollable
    <2> QED
      BY <1>1, <2>1, <2>2 DEF Cancel, PullInv, Busy
  <1>2. CASE Drain \/ RunReturns
    <2>1. PICK p \in {"drain", "returned"} :
              /\ sched' = [sched EXCEPT !.pc = p]
              /\ p = "returned" => \A h \in PHosts, i \in Slots : polls[h][i] = NoPoll
      BY <1>2 DEF Drain, RunReturns
    <2>2. UNCHANGED <<prow, tickReady, cancelled, lastPolled, inFlight, polls, since, listFaults>>
      BY <1>2 DEF Drain, RunReturns
    <2>3. sched.pc # "walk" /\ sched'.pc = p
      BY <1>2, <2>1 DEF Drain, RunReturns, PullInv, PullTypeOK
    <2>4. PullTypeOK'
      BY <2>1, <2>2 DEF PullInv, PullTypeOK
    <2>5. InFlightIsPolls' /\ WaitExplained' /\ WalkFresh'
      BY <2>2, <2>3 DEF PullInv, InFlightIsPolls, WaitExplained, WalkFresh, Busy, Pollable
    <2>6. GapInv'
      BY <2>2, <2>3 DEF PullInv, GapInv, RoundDue
    <2> QED
      BY <2>1, <2>2, <2>3, <2>4, <2>5, <2>6 DEF PullInv, Busy, Slots
  <1>3. CASE UNCHANGED uvars
    <2>1. PullTypeOK'
      BY <1>3 DEF uvars, PullInv, PullTypeOK
    <2>2. InFlightIsPolls' /\ WaitExplained' /\ WalkFresh' /\ GapInv'
      BY <1>3 DEF uvars, PullInv, InFlightIsPolls, WaitExplained, WalkFresh, GapInv, Busy, Pollable, RoundDue
    <2> QED
      BY <1>3, <2>1, <2>2 DEF uvars, PullInv, Busy
  <1> QED
    BY <1>1, <1>2, <1>3, ListInv, ListFailsInv, ForgetInv, ConsiderInv, AnsweredInv, PollEndsInv,
       EditRowInv, PullTickInv DEF PullNext

\* A pull host is polled by one goroutine at a time and again in due time,
\* and nothing is left running once Run has returned, for any number of
\* hosts, any intervals, timeouts and failed listings: inFlight is exactly
\* the set of hosts with a poll, and a host that was passed over by a round
\* has a poll running or was polled within its interval.
THEOREM PullHostsPolled == PullSpec => []PollsExact
  <1>1. PullInv => PollsExact
    <2> SUFFICES ASSUME PullInv PROVE PollsExact
      OBVIOUS
    <2>1. OnePollPerHost
      <3> SUFFICES ASSUME NEW h \in PHosts
                   PROVE  Cardinality({i \in Slots : polls[h][i] # NoPoll}) <= 1
        BY DEF OnePollPerHost
      <3>1. {i \in Slots : polls[h][i] # NoPoll} \in {{}, {1}}
        BY DEF PullInv, InFlightIsPolls, Busy, Slots
      <3> QED
        <4>1. Cardinality({}) = 0 /\ Cardinality({1}) = 1
          BY FS_EmptySet, FS_Singleton
        <4> HIDE DEF Slots
        <4> QED
          BY <3>1, <4>1
    <2>2. PollGapBounded
      <3> SUFFICES ASSUME ~cancelled, NEW h \in PHosts PROVE since[h] <= GapLimit(h)
        BY DEF PollGapBounded
      <3>1. since[h] <= (IF prow[h].interval > PollMax THEN prow[h].interval ELSE PollMax)
                          + listFaults + (IF RoundDue(h) THEN 1 ELSE 0)
        BY DEF PullInv, GapInv
      <3> QED
        BY <3>1, PullFacts, PullBounds DEF GapLimit
    <2>3. QuietAfterReturn
      BY DEF PullInv, QuietAfterReturn, InFlightIsPolls, Busy, Slots
    <2> QED
      BY <2>1, <2>2, <2>3 DEF PullInv, PollsExact
  <1> QED
    BY <1>1, PullInitInv, PullNextInv, PTL DEF PullSpec

-----------------------------------------------------------------------------
(* What the agent collects                                                 *)

\* A value that was collected at the last attempt is as old as the loop has
\* slept since, and in the next attempt that sleep and the attempt.
CollectInv ==
    /\ CollectTypeOK
    /\ loop.age <= (IF loop.pc = "sleep" THEN loop.sleep ELSE CollectTimeout)
    /\ ~failing /\ valueAge # NoValue =>
          valueAge <= loop.age + (IF loop.pc = "sleep" THEN 0 ELSE loop.sleep)

\* The bounds are numbers, and nothing is none of them.
LEMMA CollectBounds ==
    /\ MinInterval \in Nat /\ MaxInterval \in Nat /\ DefaultInterval \in MinInterval..MaxInterval
    /\ MinInterval > 0 /\ MinInterval <= MaxInterval
    /\ CollectTimeout \in Nat /\ CollectTimeout > 0 /\ FirstWait \in Nat /\ FirstWait > 0
    /\ NoValue \notin Int /\ Aged \in Nat /\ Aged = 3 * MaxInterval + CollectTimeout + 1
  BY CollectAssumption DEF Aged

\* A learned interval is clamped to its limits.
LEMMA ClampRange == \A n \in Nat : Clamp(n) \in MinInterval..MaxInterval
  BY CollectBounds DEF Clamp

\* Ages grow up to their bound.
LEMMA GrowRange ==
    ASSUME NEW long \in Nat, NEW a \in 0..long \cup {NoValue}
    PROVE  /\ Grow(a, long) \in 0..long \cup {NoValue}
           /\ Grow(a, long) = NoValue <=> a = NoValue
           /\ a # NoValue => Grow(a, long) <= a + 1
  BY CollectBounds DEF Grow

\* Every step of the loop, of a request and of time.
LEMMA CollectNextInv == CollectInv /\ [CollectNext]_cvars => CollectInv'
  <1> SUFFICES ASSUME CollectInv, [CollectNext]_cvars PROVE CollectInv'
    OBVIOUS
  <1> DEFINE Loops == [pc: {"collect", "sleep"}, age: 0..(MaxInterval + CollectTimeout), sleep: 0..MaxInterval]
  <1>1. /\ pullMode \in BOOLEAN /\ interval \in MinInterval..MaxInterval
        /\ lastReq \in 0..MaxInterval \cup {NoValue} /\ loop \in Loops
        /\ valueAge \in 0..Aged \cup {NoValue} /\ failing \in BOOLEAN /\ ready \in BOOLEAN
        /\ waiting \in 0..FirstWait \cup {NoValue}
    BY DEF CollectInv, CollectTypeOK
  <1>2. /\ loop.pc \in {"collect", "sleep"} /\ loop.age \in Nat /\ loop.sleep \in Nat
        /\ loop.sleep <= MaxInterval
        /\ loop = [pc |-> loop.pc, age |-> loop.age, sleep |-> loop.sleep]
    BY <1>1, CollectBounds
  <1>3. ASSUME SleepNow, valueAge' = 0 \/ (valueAge' = valueAge /\ failing'),
               failing' \in BOOLEAN, ready', UNCHANGED <<pullMode, interval, lastReq, waiting>>,
               ready' \in BOOLEAN
        PROVE  CollectInv'
    <2>1. loop' = [pc |-> "sleep", age |-> 0, sleep |-> interval] /\ loop' \in Loops
      BY <1>1, <1>3, CollectBounds DEF SleepNow
    <2>2. valueAge' \in 0..Aged \cup {NoValue}
      BY <1>1, <1>3, CollectBounds
    <2>3. CollectTypeOK'
      BY <1>1, <1>3, <2>1, <2>2 DEF CollectTypeOK
    <2> QED
      BY <1>1, <1>3, <2>1, <2>3, CollectBounds DEF CollectInv
  <1>4. CASE Collected
    BY <1>3, <1>4 DEF Collected
  <1>5. CASE CollectFails
    BY <1>3, <1>5 DEF CollectFails
  <1>6. CASE Wake
    <2>1. /\ loop.pc = "sleep" /\ loop.age >= loop.sleep
          /\ loop' = [pc |-> "collect", age |-> 0, sleep |-> loop.sleep]
          /\ UNCHANGED <<pullMode, interval, lastReq, valueAge, failing, ready, waiting>>
      BY <1>2, <1>6 DEF Wake
    <2>2. loop' \in Loops
      BY <1>1, <2>1, CollectBounds
    <2>3. CollectTypeOK'
      BY <1>1, <2>1, <2>2 DEF CollectTypeOK
    <2>4. loop.age <= loop.sleep
      BY <2>1 DEF CollectInv
    <2>5. ~failing /\ valueAge # NoValue => valueAge <= loop.sleep
      BY <1>1, <1>2, <2>1, <2>4, CollectBounds DEF CollectInv
    <2> QED
      BY <1>2, <2>1, <2>3, <2>5, CollectBounds DEF CollectInv
  <1>7. CASE Answer
    BY <1>1, <1>7 DEF Answer, CollectInv, CollectTypeOK
  <1>8. ASSUME NEW authorised \in BOOLEAN, Request(authorised)
        PROVE  CollectInv'
    <2>1. UNCHANGED <<pullMode, loop, valueAge, failing, ready>>
      BY <1>8 DEF Request
    <2>2. interval' \in MinInterval..MaxInterval
      <3>1. lastReq # NoValue => Clamp(lastReq) \in MinInterval..MaxInterval
        BY <1>1, ClampRange, CollectBounds
      <3> QED
        BY <1>1, <1>8, <3>1 DEF Request
    <2>3. lastReq' \in 0..MaxInterval \cup {NoValue} /\ waiting' \in 0..FirstWait \cup {NoValue}
      BY <1>1, <1>8, CollectBounds DEF Request
    <2>4. CollectTypeOK'
      BY <1>1, <2>1, <2>2, <2>3 DEF CollectTypeOK
    <2> QED
      BY <2>1, <2>4 DEF CollectInv
  <1>9. CASE CollectTick
    <2>1. /\ loop.pc = "collect" => loop.age < CollectTimeout
          /\ loop.pc = "sleep" => loop.age < loop.sleep
          /\ loop' = [pc |-> loop.pc, age |-> loop.age + 1, sleep |-> loop.sleep]
          /\ valueAge' = Grow(valueAge, Aged) /\ lastReq' = Grow(lastReq, MaxInterval)
          /\ waiting' = Grow(waiting, FirstWait)
          /\ UNCHANGED <<pullMode, interval, failing, ready>>
      BY <1>2, <1>9 DEF CollectTick
    <2>2. loop' \in Loops
      BY <1>2, <2>1, CollectBounds
    <2>3. /\ valueAge' \in 0..Aged \cup {NoValue} /\ lastReq' \in 0..MaxInterval \cup {NoValue}
          /\ waiting' \in 0..FirstWait \cup {NoValue}
      BY <1>1, <2>1, GrowRange, CollectBounds
    <2>4. CollectTypeOK'
      BY <1>1, <2>1, <2>2, <2>3 DEF CollectTypeOK
    <2>5. loop.age + 1 <= (IF loop.pc = "sleep" THEN loop.sleep ELSE CollectTimeout)
      BY <1>2, <2>1, CollectBounds
    <2>6. ~failing /\ valueAge' # NoValue =>
             valueAge' <= loop.age + 1 + (IF loop.pc = "sleep" THEN 0 ELSE loop.sleep)
      <3> SUFFICES ASSUME ~failing, valueAge' # NoValue
                   PROVE  valueAge' <= loop.age + 1 + (IF loop.pc = "sleep" THEN 0 ELSE loop.sleep)
        OBVIOUS
      <3>1. valueAge \in Nat /\ valueAge' <= valueAge + 1 /\ valueAge' \in Nat
        BY <1>1, <2>1, <2>3, GrowRange, CollectBounds
      <3>2. valueAge <= loop.age + (IF loop.pc = "sleep" THEN 0 ELSE loop.sleep)
        BY <3>1, CollectBounds DEF CollectInv
      <3> QED
        BY <1>2, <3>1, <3>2
    <2> QED
      BY <2>1, <2>4, <2>5, <2>6 DEF CollectInv
  <1>10. CASE UNCHANGED cvars
    BY <1>10 DEF cvars, CollectInv, CollectTypeOK
  <1> QED
    BY <1>4, <1>5, <1>6, <1>7, <1>8, <1>9, <1>10 DEF CollectNext

\* A source that is collected as it should be is reported, for any intervals,
\* timeout and pattern of requests, as long as the loop does not sleep by an
\* interval more than three times the present one: its value is never older
\* than one sleep and one collection.
THEOREM HealthySourcesKnown == CollectSpec => []SourcesKnown
  <1>1. CollectInit => CollectInv
    <2> SUFFICES ASSUME CollectInit PROVE CollectInv
      OBVIOUS
    <2>1. loop = [pc |-> "collect", age |-> 0, sleep |-> 0] /\ valueAge = NoValue
      BY DEF CollectInit
    <2>2. loop \in [pc: {"collect", "sleep"}, age: 0..(MaxInterval + CollectTimeout), sleep: 0..MaxInterval]
      BY <2>1, CollectBounds
    <2>3. CollectTypeOK
      BY <2>2, CollectBounds DEF CollectInit, CollectTypeOK
    <2> QED
      BY <2>1, <2>3, CollectBounds DEF CollectInv
  <1>2. CollectInv => SourcesKnown
    <2> SUFFICES ASSUME CollectInv, ~failing, valueAge # NoValue, loop.sleep <= 3 * interval
                 PROVE  valueAge <= staleAfter
      BY DEF CollectInv, SourcesKnown, HealthyStaysKnown, Latest
    <2>1. /\ loop.age \in Nat /\ loop.sleep \in Nat /\ interval \in Nat /\ valueAge \in Nat
          /\ loop.pc \in {"collect", "sleep"}
      BY CollectBounds DEF CollectInv, CollectTypeOK
    <2>2. valueAge <= loop.sleep + CollectTimeout
      BY <2>1, CollectBounds DEF CollectInv
    <2> QED
      BY <2>1, <2>2, CollectBounds DEF staleAfter
  <1> QED
    BY <1>1, <1>2, CollectNextInv, PTL DEF CollectSpec


-----------------------------------------------------------------------------
(* The record of a report                                                  *)

\* Kill k was told to an evaluation, or will be by a report that is past the
\* statement that stored the counter.
Told(k) ==
    \/ k \in noticed
    \/ \E r \in Recs : /\ rec[r].pc \in {"inventory", "evaluate"} /\ Increased(r)
                       /\ k \in (rec[r].prev + 1)..rec[r].oom

\* While nothing is unknown, every counter that Record has read was told of.
CountersTold ==
    ~gap =>
        /\ sysState \in 0..MaxKills
        /\ \A k \in 1..MaxKills : k <= sysState => Told(k)
        /\ \A r \in Recs :
              /\ rec[r].pc # "none" => rec[r].oom \in 0..MaxKills
              /\ rec[r].pc \in {"status", "inventory", "evaluate"} =>
                    /\ rec[r].prev \in 0..MaxKills
                    /\ \A k \in 1..MaxKills : k <= rec[r].prev => Told(k)

\* A report between the two statements that has not crossed another is alone
\* there, and the runtime is its own; the tables were only set apart by one that
\* crossed or failed.
TablesTogether ==
    /\ crossed \subseteq Between
    /\ \A r \in Between \ crossed : runtime = r /\ Between = {r}
    /\ ~torn => Between \cap crossed = {} /\ (Between = {} => runtime = inventory)

StateInv == StateTypeOK /\ CountersTold /\ TablesTogether

\* What is told stays told: only Evaluate takes a report away, and it notes
\* what the report was to tell.
LEMMA ToldStays ==
    ASSUME StateTypeOK, ~gap,
           noticed \subseteq noticed',
           \A r \in Recs :
              rec[r].pc \in {"inventory", "evaluate"} =>
                 \/ rec'[r].pc \in {"inventory", "evaluate"} /\ rec'[r].oom = rec[r].oom /\ rec'[r].prev = rec[r].prev
                 \/ Increased(r) => (rec[r].prev + 1)..rec[r].oom \subseteq noticed',
           NEW k \in 1..MaxKills, Told(k)
    PROVE  Told(k)'
  <1>1. CASE k \in noticed
    BY <1>1 DEF Told
  <1>2. ASSUME NEW r \in Recs, rec[r].pc \in {"inventory", "evaluate"}, Increased(r),
               k \in (rec[r].prev + 1)..rec[r].oom
        PROVE  Told(k)'
    <2>1. CASE Increased(r) => (rec[r].prev + 1)..rec[r].oom \subseteq noticed'
      BY <1>2, <2>1 DEF Told
    <2>2. CASE rec'[r].pc \in {"inventory", "evaluate"} /\ rec'[r].oom = rec[r].oom /\ rec'[r].prev = rec[r].prev
      <3>1. Increased(r)'
        BY <1>2, <2>2 DEF Increased
      <3>2. k \in (rec'[r].prev + 1)..rec'[r].oom
        BY <1>2, <2>2
      <3> QED
        BY <2>2, <3>1, <3>2 DEF Told
    <2> QED
      BY <1>2, <2>1, <2>2
  <1> QED
    BY <1>1, <1>2 DEF Told

\* Steps that leave the counters alone.
LEMMA CountersStay ==
    ASSUME StateTypeOK, CountersTold, gap' = FALSE => ~gap, gap' \in BOOLEAN,
           ~gap => \A k \in 1..MaxKills : Told(k) => Told(k)',
           sysState' = sysState,
           \A r \in Recs :
              \/ rec'[r].pc = "none"
              \/ /\ rec'[r].oom = rec[r].oom /\ rec'[r].prev = rec[r].prev /\ rec[r].pc # "none"
                 /\ rec'[r].pc \in {"status", "inventory", "evaluate"} => rec[r].pc \in {"status", "inventory", "evaluate"}
    PROVE  CountersTold'
  <1> SUFFICES ASSUME ~gap'
               PROVE  /\ sysState' \in 0..MaxKills
                      /\ \A k \in 1..MaxKills : k <= sysState' => Told(k)'
                      /\ \A r \in Recs :
                            /\ rec'[r].pc # "none" => rec'[r].oom \in 0..MaxKills
                            /\ rec'[r].pc \in {"status", "inventory", "evaluate"} =>
                                  /\ rec'[r].prev \in 0..MaxKills
                                  /\ \A k \in 1..MaxKills : k <= rec'[r].prev => Told(k)'
    BY DEF CountersTold
  <1>1. ~gap
    OBVIOUS
  <1>2. sysState' \in 0..MaxKills /\ \A k \in 1..MaxKills : k <= sysState' => Told(k)'
    BY <1>1 DEF CountersTold
  <1>3. ASSUME NEW r \in Recs
        PROVE  /\ rec'[r].pc # "none" => rec'[r].oom \in 0..MaxKills
               /\ rec'[r].pc \in {"status", "inventory", "evaluate"} =>
                     /\ rec'[r].prev \in 0..MaxKills
                     /\ \A k \in 1..MaxKills : k <= rec'[r].prev => Told(k)'
    <2>1. CASE rec'[r].pc = "none"
      BY <2>1
    <2>2. CASE /\ rec'[r].oom = rec[r].oom /\ rec'[r].prev = rec[r].prev /\ rec[r].pc # "none"
               /\ rec'[r].pc \in {"status", "inventory", "evaluate"} => rec[r].pc \in {"status", "inventory", "evaluate"}
      BY <1>1, <2>2 DEF CountersTold
    <2> QED
      BY <2>1, <2>2
  <1> QED
    BY <1>2, <1>3

\* Every statement of Record and every event of the machine.
LEMMA StateNextInv == StateInv /\ [StateNext]_hvars => StateInv'
  <1> SUFFICES ASSUME StateInv, [StateNext]_hvars PROVE StateInv'
    OBVIOUS
  <1> DEFINE RecType == [pc: Steps, oom: Counters, info: BOOLEAN, prev: Counters]
  <1>0. StateTypeOK /\ CountersTold /\ TablesTogether /\ rec \in [Recs -> RecType] /\ MaxKills \in Nat
    BY HostStateAssumption DEF StateInv, StateTypeOK
  <1>a. NoRec \in RecType /\ NoRec.pc = "none"
    BY DEF NoRec, Steps, Counters
  <1>1. ASSUME NEW r \in Recs, NEW oom \in Counters, NEW info \in BOOLEAN, Receive(r, oom, info)
        PROVE  StateInv'
    <2> DEFINE new == [pc |-> "insert", oom |-> oom, info |-> info, prev |-> Unknown]
    <2>1. /\ rec[r].pc = "none" /\ oom \in {kills, Unknown}
          /\ rec' = [rec EXCEPT ![r] = new]
          /\ gap' = (gap \/ oom = Unknown)
          /\ UNCHANGED <<kills, sysState, runtime, inventory, noticed, crossed, torn>>
      BY <1>1 DEF Receive, At
    <2>2. new \in RecType
      BY DEF Steps, Counters
    <2>3. rec' \in [Recs -> RecType] /\ rec'[r] = new /\ \A q \in Recs \ {r} : rec'[q] = rec[q]
      BY <1>0, <2>1, <2>2
    <2>4. StateTypeOK'
      BY <1>0, <2>1, <2>3 DEF StateTypeOK
    <2>5. ASSUME ~gap, NEW k \in 1..MaxKills, Told(k) PROVE Told(k)'
      BY <1>0, <2>1, <2>3, <2>5, ToldStays
    <2>6. CountersTold'
      <3> SUFFICES ASSUME ~gap'
                   PROVE  /\ sysState' \in 0..MaxKills
                          /\ \A k \in 1..MaxKills : k <= sysState' => Told(k)'
                          /\ \A q \in Recs :
                                /\ rec'[q].pc # "none" => rec'[q].oom \in 0..MaxKills
                                /\ rec'[q].pc \in {"status", "inventory", "evaluate"} =>
                                      /\ rec'[q].prev \in 0..MaxKills
                                      /\ \A k \in 1..MaxKills : k <= rec'[q].prev => Told(k)'
        BY DEF CountersTold
      <3>1. ~gap /\ oom = kills
        BY <2>1
      <3>2. kills \in 0..MaxKills
        BY <1>0 DEF StateTypeOK
      <3>3. sysState' \in 0..MaxKills /\ \A k \in 1..MaxKills : k <= sysState' => Told(k)'
        BY <1>0, <2>1, <2>5, <3>1 DEF CountersTold
      <3>4. ASSUME NEW q \in Recs
            PROVE  /\ rec'[q].pc # "none" => rec'[q].oom \in 0..MaxKills
                   /\ rec'[q].pc \in {"status", "inventory", "evaluate"} =>
                         /\ rec'[q].prev \in 0..MaxKills
                         /\ \A k \in 1..MaxKills : k <= rec'[q].prev => Told(k)'
        <4>1. CASE q = r
          BY <2>3, <3>1, <3>2, <4>1
        <4>2. CASE q # r
          BY <1>0, <2>3, <2>5, <3>1, <4>2 DEF CountersTold
        <4> QED
          BY <4>1, <4>2
      <3> QED
        BY <3>3, <3>4
    <2>7. TablesTogether'
      <3>1. Between' = Between
        BY <1>0, <2>1, <2>3 DEF Between, At
      <3> QED
        BY <1>0, <2>1, <3>1 DEF TablesTogether
    <2> QED
      BY <2>4, <2>6, <2>7 DEF StateInv
  <1>2. ASSUME NEW r \in Recs, NEW ok \in BOOLEAN, Insert(r, ok)
        PROVE  StateInv'
    <2>1. /\ rec[r].pc = "insert"
          /\ rec' = [rec EXCEPT ![r] = [rec[r] EXCEPT !.pc = "prev"]] \/ rec' = [rec EXCEPT ![r] = NoRec]
          /\ UNCHANGED <<kills, sysState, runtime, inventory, noticed, gap, crossed, torn>>
      BY <1>2 DEF Insert, At, Step
    <2>2. [rec[r] EXCEPT !.pc = "prev"] \in RecType
      BY <1>0 DEF Steps
    <2>3. /\ rec' \in [Recs -> RecType] /\ \A q \in Recs \ {r} : rec'[q] = rec[q]
          /\ \/ rec'[r].pc = "none"
             \/ rec'[r].pc = "prev" /\ rec'[r].oom = rec[r].oom /\ rec'[r].prev = rec[r].prev
      BY <1>0, <1>a, <2>1, <2>2
    <2>4. StateTypeOK'
      BY <1>0, <2>1, <2>3 DEF StateTypeOK
    <2>5. ASSUME ~gap, NEW k \in 1..MaxKills, Told(k) PROVE Told(k)'
      BY <1>0, <2>1, <2>3, <2>5, ToldStays
    <2>6. CountersTold'
      BY <1>0, <2>1, <2>3, <2>4, <2>5, CountersStay DEF StateTypeOK
    <2>7. TablesTogether'
      <3>1. Between' = Between
        BY <1>0, <2>1, <2>3 DEF Between, At
      <3> QED
        BY <1>0, <2>1, <3>1 DEF TablesTogether
    <2> QED
      BY <2>4, <2>6, <2>7 DEF StateInv
  <1>3. ASSUME NEW r \in Recs, NEW ok \in BOOLEAN, ReadState(r, ok)
        PROVE  StateInv'
    <2> DEFINE seen == IF ok THEN sysState ELSE Unknown
    <2>1. /\ rec[r].pc = "prev"
          /\ rec' = [rec EXCEPT ![r] = [rec[r] EXCEPT !.pc = "status", !.prev = seen]]
          /\ gap' = (gap \/ ~ok)
          /\ UNCHANGED <<kills, sysState, runtime, inventory, noticed, crossed, torn>>
      BY <1>0, <1>3 DEF ReadState, At
    <2>2. seen \in Counters
      BY <1>0 DEF StateTypeOK, Counters
    <2> HIDE DEF seen
    <2>3. /\ rec' \in [Recs -> RecType] /\ \A q \in Recs \ {r} : rec'[q] = rec[q]
          /\ rec'[r].pc = "status" /\ rec'[r].oom = rec[r].oom /\ rec'[r].prev = seen
      BY <1>0, <2>1, <2>2 DEF Steps
    <2>4. StateTypeOK'
      BY <1>0, <2>1, <2>3 DEF StateTypeOK
    <2>5. ASSUME ~gap, NEW k \in 1..MaxKills, Told(k) PROVE Told(k)'
      BY <1>0, <2>1, <2>3, <2>5, ToldStays
    <2>6. CountersTold'
      <3> SUFFICES ASSUME ~gap'
                   PROVE  /\ sysState' \in 0..MaxKills
                          /\ \A k \in 1..MaxKills : k <= sysState' => Told(k)'
                          /\ \A q \in Recs :
                                /\ rec'[q].pc # "none" => rec'[q].oom \in 0..MaxKills
                                /\ rec'[q].pc \in {"status", "inventory", "evaluate"} =>
                                      /\ rec'[q].prev \in 0..MaxKills
                                      /\ \A k \in 1..MaxKills : k <= rec'[q].prev => Told(k)'
        BY DEF CountersTold
      <3>1. ~gap /\ seen = sysState
        BY <2>1 DEF seen
      <3>2. sysState \in 0..MaxKills /\ \A k \in 1..MaxKills : k <= sysState => Told(k)'
        BY <1>0, <2>5, <3>1 DEF CountersTold
      <3>3. ASSUME NEW q \in Recs
            PROVE  /\ rec'[q].pc # "none" => rec'[q].oom \in 0..MaxKills
                   /\ rec'[q].pc \in {"status", "inventory", "evaluate"} =>
                         /\ rec'[q].prev \in 0..MaxKills
                         /\ \A k \in 1..MaxKills : k <= rec'[q].prev => Told(k)'
        <4>1. CASE q = r
          BY <1>0, <2>1, <2>3, <3>1, <3>2, <4>1 DEF CountersTold
        <4>2. CASE q # r
          BY <1>0, <2>3, <2>5, <3>1, <4>2 DEF CountersTold
        <4> QED
          BY <4>1, <4>2
      <3> QED
        BY <2>1, <3>2, <3>3
    <2>7. TablesTogether'
      <3>1. Between' = Between
        BY <1>0, <2>1, <2>3 DEF Between, At
      <3> QED
        BY <1>0, <2>1, <3>1 DEF TablesTogether
    <2> QED
      BY <2>4, <2>6, <2>7 DEF StateInv
  <1>4. ASSUME NEW r \in Recs, UpdateStatus(r, TRUE)
        PROVE  StateInv'
    <2>1. /\ rec[r].pc = "status"
          /\ rec' = [rec EXCEPT ![r] = [rec[r] EXCEPT !.pc = "inventory"]]
          /\ sysState' = rec[r].oom
          /\ runtime' = IF rec[r].info THEN r ELSE runtime
          /\ IF rec[r].info /\ Between # {}
             THEN crossed' = Between \cup {r} /\ torn' = TRUE
             ELSE UNCHANGED <<crossed, torn>>
          /\ UNCHANGED <<kills, inventory, noticed, gap>>
      BY <1>4 DEF UpdateStatus, At, Step, NextSystemState
    <2>3. /\ rec' \in [Recs -> RecType] /\ \A q \in Recs \ {r} : rec'[q] = rec[q]
          /\ rec'[r].pc = "inventory" /\ rec'[r].oom = rec[r].oom /\ rec'[r].prev = rec[r].prev
          /\ rec'[r].info = rec[r].info
      BY <1>0, <2>1 DEF Steps
    <2>4. StateTypeOK'
      <3>1. crossed' \subseteq Recs /\ torn' \in BOOLEAN
        BY <1>0, <2>1 DEF StateTypeOK, Between
      <3>2. sysState' \in Counters /\ runtime' \in Recs \cup {Unknown}
        BY <1>0, <2>1 DEF StateTypeOK
      <3> QED
        BY <1>0, <2>1, <2>3, <3>1, <3>2 DEF StateTypeOK
    <2>5. ASSUME ~gap, NEW k \in 1..MaxKills, Told(k) PROVE Told(k)'
      BY <1>0, <2>1, <2>3, <2>5, ToldStays
    <2>6. CountersTold'
      <3> SUFFICES ASSUME ~gap
                   PROVE  /\ sysState' \in 0..MaxKills
                          /\ \A k \in 1..MaxKills : k <= sysState' => Told(k)'
                          /\ \A q \in Recs :
                                /\ rec'[q].pc # "none" => rec'[q].oom \in 0..MaxKills
                                /\ rec'[q].pc \in {"status", "inventory", "evaluate"} =>
                                      /\ rec'[q].prev \in 0..MaxKills
                                      /\ \A k \in 1..MaxKills : k <= rec'[q].prev => Told(k)'
        BY <2>1 DEF CountersTold
      <3>1. rec[r].oom \in 0..MaxKills /\ rec[r].prev \in 0..MaxKills
        BY <1>0, <2>1 DEF CountersTold
      <3>2. ASSUME NEW k \in 1..MaxKills, k <= rec[r].oom PROVE Told(k)'
        <4>1. CASE k <= rec[r].prev
          BY <1>0, <2>1, <2>5, <4>1 DEF CountersTold
        <4>2. CASE k > rec[r].prev
          <5>1. rec[r].oom > rec[r].prev /\ rec[r].oom # Unknown /\ rec[r].prev # Unknown
            BY <1>0, <3>1, <3>2, <4>2, HostStateAssumption
          <5>2. k \in (rec'[r].prev + 1)..rec'[r].oom /\ Increased(r)'
            BY <1>0, <2>3, <3>1, <3>2, <4>2, <5>1 DEF Increased
          <5> QED
            BY <2>3, <5>2 DEF Told
        <4> QED
          BY <1>0, <3>1, <4>1, <4>2
      <3>3. ASSUME NEW q \in Recs
            PROVE  /\ rec'[q].pc # "none" => rec'[q].oom \in 0..MaxKills
                   /\ rec'[q].pc \in {"status", "inventory", "evaluate"} =>
                         /\ rec'[q].prev \in 0..MaxKills
                         /\ \A k \in 1..MaxKills : k <= rec'[q].prev => Told(k)'
        <4>1. CASE q = r
          BY <1>0, <2>1, <2>3, <2>5, <3>1, <4>1 DEF CountersTold
        <4>2. CASE q # r
          BY <1>0, <2>3, <2>5, <4>2 DEF CountersTold
        <4> QED
          BY <4>1, <4>2
      <3> QED
        BY <2>1, <3>1, <3>2, <3>3
    <2>7. TablesTogether'
      <3>1. Between' = IF rec[r].info THEN Between \cup {r} ELSE Between
        BY <1>0, <2>1, <2>3 DEF Between, At
      <3>2. CASE ~rec[r].info
        BY <1>0, <2>1, <3>1, <3>2 DEF TablesTogether
      <3>3. CASE rec[r].info /\ Between = {}
        BY <1>0, <2>1, <3>1, <3>3 DEF TablesTogether
      <3>4. CASE rec[r].info /\ Between # {}
        <4>1. Between' = crossed' /\ torn'
          BY <1>0, <2>1, <3>1, <3>4
        <4> QED
          BY <4>1 DEF TablesTogether
      <3> QED
        BY <3>2, <3>3, <3>4
    <2> QED
      BY <2>4, <2>6, <2>7 DEF StateInv
  <1>5. ASSUME NEW r \in Recs, UpdateStatus(r, FALSE)
        PROVE  StateInv'
    <2>1. /\ rec[r].pc = "status"
          /\ rec' = [rec EXCEPT ![r] = [rec[r] EXCEPT !.pc = "evaluate"]]
          /\ UNCHANGED <<kills, sysState, runtime, inventory, noticed, gap, crossed, torn>>
      BY <1>5 DEF UpdateStatus, At, Step
    <2>3. /\ rec' \in [Recs -> RecType] /\ \A q \in Recs \ {r} : rec'[q] = rec[q]
          /\ rec'[r].pc = "evaluate" /\ rec'[r].oom = rec[r].oom /\ rec'[r].prev = rec[r].prev
      BY <1>0, <2>1 DEF Steps
    <2>4. StateTypeOK'
      BY <1>0, <2>1, <2>3 DEF StateTypeOK
    <2>5. ASSUME ~gap, NEW k \in 1..MaxKills, Told(k) PROVE Told(k)'
      BY <1>0, <2>1, <2>3, <2>5, ToldStays
    <2>6. CountersTold'
      BY <1>0, <2>1, <2>3, <2>4, <2>5, CountersStay DEF StateTypeOK
    <2>7. TablesTogether'
      <3>1. Between' = Between
        BY <1>0, <2>1, <2>3 DEF Between, At
      <3> QED
        BY <1>0, <2>1, <3>1 DEF TablesTogether
    <2> QED
      BY <2>4, <2>6, <2>7 DEF StateInv
  <1>6. ASSUME NEW r \in Recs, NEW ok \in BOOLEAN, UpdateInventory(r, ok)
        PROVE  StateInv'
    <2>1. /\ rec[r].pc = "inventory"
          /\ inventory' = IF ok /\ rec[r].info THEN r ELSE inventory
          /\ torn' = IF rec[r].info /\ (~ok \/ r \notin crossed) THEN ~ok ELSE torn
          /\ crossed' = crossed \ {r}
          /\ rec' = [rec EXCEPT ![r] = [rec[r] EXCEPT !.pc = "evaluate"]]
          /\ UNCHANGED <<kills, sysState, runtime, noticed, gap>>
      BY <1>6 DEF UpdateInventory, At, Step
    <2>3. /\ rec' \in [Recs -> RecType] /\ \A q \in Recs \ {r} : rec'[q] = rec[q]
          /\ rec'[r].pc = "evaluate" /\ rec'[r].oom = rec[r].oom /\ rec'[r].prev = rec[r].prev
      BY <1>0, <2>1 DEF Steps
    <2>4. StateTypeOK'
      BY <1>0, <2>1, <2>3 DEF StateTypeOK
    <2>5. ASSUME ~gap, NEW k \in 1..MaxKills, Told(k) PROVE Told(k)'
      BY <1>0, <2>1, <2>3, <2>5, ToldStays
    <2>6. CountersTold'
      BY <1>0, <2>1, <2>3, <2>4, <2>5, CountersStay DEF StateTypeOK
    <2>7. TablesTogether'
      <3>1. Between' = Between \ {r}
        BY <1>0, <2>1, <2>3 DEF Between, At
      <3>2. rec[r].info => r \in Between
        BY <2>1 DEF Between, At
      <3>3. CASE ~rec[r].info
        <4>1. r \notin Between
          BY <3>3 DEF Between
        <4> QED
          BY <1>0, <2>1, <3>1, <3>3, <4>1 DEF TablesTogether
      <3>4. CASE rec[r].info /\ ~ok
        BY <1>0, <2>1, <3>1, <3>4 DEF TablesTogether
      <3>5. CASE rec[r].info /\ ok /\ r \notin crossed
        <4>1. Between = {r} /\ runtime = r
          BY <1>0, <3>2, <3>5 DEF TablesTogether
        <4> QED
          BY <1>0, <2>1, <3>1, <3>5, <4>1 DEF TablesTogether
      <3>6. CASE rec[r].info /\ ok /\ r \in crossed
        <4>1. torn /\ torn'
          BY <1>0, <2>1, <3>2, <3>6 DEF TablesTogether, StateTypeOK
        <4> QED
          BY <1>0, <2>1, <3>1, <4>1 DEF TablesTogether
      <3> QED
        BY <3>3, <3>4, <3>5, <3>6
    <2> QED
      BY <2>4, <2>6, <2>7 DEF StateInv
  <1>7. ASSUME NEW r \in Recs, Evaluate(r)
        PROVE  StateInv'
    <2>1. /\ rec[r].pc = "evaluate"
          /\ noticed' = IF Increased(r) THEN noticed \cup (rec[r].prev + 1)..rec[r].oom ELSE noticed
          /\ rec' = [rec EXCEPT ![r] = NoRec]
          /\ UNCHANGED <<kills, sysState, runtime, inventory, gap, crossed, torn>>
      BY <1>7 DEF Evaluate, At
    <2>3. rec' \in [Recs -> RecType] /\ rec'[r].pc = "none" /\ \A q \in Recs \ {r} : rec'[q] = rec[q]
      BY <1>0, <1>a, <2>1
    <2>4. StateTypeOK'
      <3>1. Increased(r) => (rec[r].prev + 1)..rec[r].oom \subseteq 1..MaxKills
        <4>1. rec[r].oom \in Counters /\ rec[r].prev \in Counters
          BY <1>0
        <4> QED
          BY <1>0, <4>1 DEF Increased, Counters
      <3>2. noticed' \subseteq 1..MaxKills
        BY <1>0, <2>1, <3>1 DEF StateTypeOK
      <3> QED
        BY <1>0, <2>1, <2>3, <3>2 DEF StateTypeOK
    <2>5. ASSUME ~gap, NEW k \in 1..MaxKills, Told(k) PROVE Told(k)'
      BY <1>0, <2>1, <2>3, <2>5, ToldStays
    <2>6. CountersTold'
      BY <1>0, <2>1, <2>3, <2>4, <2>5, CountersStay DEF StateTypeOK
    <2>7. TablesTogether'
      <3>1. Between' = Between
        BY <1>0, <2>1, <2>3 DEF Between, At
      <3> QED
        BY <1>0, <2>1, <3>1 DEF TablesTogether
    <2> QED
      BY <2>4, <2>6, <2>7 DEF StateInv
  <1>8. CASE Kill \/ Reboot \/ UNCHANGED hvars
    <2>1. /\ UNCHANGED <<rec, sysState, runtime, inventory, noticed, crossed, torn>>
          /\ kills' \in 0..MaxKills /\ gap' \in {gap, TRUE}
      <3>1. CASE Kill
        BY <1>0, <3>1, HostStateAssumption DEF Kill, StateTypeOK
      <3>2. CASE Reboot
        BY <1>0, <3>2, HostStateAssumption DEF Reboot, StateTypeOK
      <3>3. CASE UNCHANGED hvars
        BY <1>0, <3>3 DEF hvars, StateTypeOK
      <3> QED
        BY <1>8, <3>1, <3>2, <3>3
    <2>2. StateTypeOK'
      BY <1>0, <2>1 DEF StateTypeOK
    <2>3. CountersTold'
      <3>1. ASSUME NEW k \in 1..MaxKills PROVE Told(k)' <=> Told(k)
        BY <2>1 DEF Told, Increased
      <3>2. CASE gap'
        BY <3>2 DEF CountersTold
      <3>3. CASE ~gap'
        <4>1. ~gap
          BY <1>0, <2>1, <3>3 DEF StateTypeOK
        <4> QED
          BY <1>0, <2>1, <2>2, <3>1, <4>1, CountersStay DEF StateTypeOK
      <3> QED
        BY <3>2, <3>3
    <2> QED
      BY <1>0, <2>1, <2>2, <2>3 DEF StateInv, TablesTogether, Between, At
  <1> QED
    BY <1>1, <1>2, <1>3, <1>4, <1>5, <1>6, <1>7, <1>8 DEF StateNext

\* The statements of reports recorded at once, in any order and any of them
\* failing, swallow no OOM kill as long as every report carries the counter,
\* Record can read it and the machine is not restarted: a report that stores the
\* counter tells all kills above the state it has read, and those below were
\* told when that was stored.  The two tables of the inventory stand for one
\* report unless two reports with an inventory crossed between the statements of
\* MarkOnline or one failed there, and again from the next that did neither on.
\* For any number of reports and kills.
THEOREM RecordsWhole == StateSpec => []RecordWhole
  <1>1. StateInit => StateInv
    <2> SUFFICES ASSUME StateInit PROVE StateInv
      OBVIOUS
    <2>1. \A r \in Recs : rec[r].pc = "none"
      BY DEF StateInit, NoRec
    <2>2. StateTypeOK
      <3> DEFINE RecType == [pc: Steps, oom: Counters, info: BOOLEAN, prev: Counters]
      <3>1. NoRec \in RecType
        BY DEF NoRec, Steps, Counters
      <3>2. rec \in [Recs -> RecType]
        BY <3>1 DEF StateInit
      <3>3. 0 \in 0..MaxKills
        BY HostStateAssumption
      <3> QED
        BY <3>2, <3>3 DEF StateInit, StateTypeOK, Counters
    <2>3. sysState = 0 /\ runtime = inventory
      BY DEF StateInit
    <2> QED
      BY <2>1, <2>2, <2>3, HostStateAssumption DEF StateInit, StateInv, CountersTold, TablesTogether, Between, At
  <1>2. StateInv => RecordWhole
    <2> SUFFICES ASSUME StateInv PROVE RecordWhole
      OBVIOUS
    <2>1. KillNoticed
      BY DEF StateInv, CountersTold, KillNoticed, Told
    <2>2. InventoryWhole
      BY DEF StateInv, TablesTogether, InventoryWhole, mergeHostInfo
    <2> QED
      BY <2>1, <2>2 DEF StateInv, RecordWhole
  <1> QED
    BY <1>1, <1>2, StateNextInv, PTL DEF StateSpec

-----------------------------------------------------------------------------
(* The agent's reports                                                     *)

\* No list, sent or stored, counts more restarts than there were, and the
\* history counts no more than the row it belongs to.
RestartsTold ==
    /\ unit.n <= restarted
    /\ cycle.section.item.n <= restarted
    /\ late # NoneYet => late.item.n <= restarted
    /\ IF view = NoneYet THEN history = 0 ELSE history <= view.n /\ view.n <= restarted

Agrees == view = Row(last)

\* Between two cycles the stored list is what was last sent, or the last full
\* list is longer ago than the last fault: the next one is not far.
ListBehind ==
    cycle.pc = "idle" =>
        /\ clean >= 1 => last # NoneYet
        /\ last # NoneYet => fullAge >= 1 /\ (Agrees \/ fullAge >= clean + 1)
        /\ clean >= 1 /\ last # Gone /\ last.st = "failed" => view = last

\* The list on its way is what is remembered as sent; what it leaves out is
\* in no trouble, and has been stored or the next full list is near.
ListSent ==
    cycle.pc # "idle" =>
        /\ last # NoneYet => fullAge >= 1
        /\ cycle.section.known =>
              /\ last # NoneYet
              /\ cycle.section.item \in {last, Gone}
              /\ cycle.section.item = Gone /\ cycle.section.full => last = Gone
              /\ cycle.section.item = Gone /\ ~cycle.section.full =>
                    /\ fullAge >= 2 /\ (Agrees \/ fullAge >= clean + 2)
                    /\ last = Gone \/ last.st = "active"

\* Who has fallen back probes again before the cycles run out.
ProbeNear ==
    /\ oldServer \/ ~compat.degraded => newCycles = 0
    /\ compat.degraded =>
          /\ compat.sinceProbe < ProbeEvery
          /\ newCycles <= ProbeEvery
          /\ cycle.pc = "idle" => newCycles <= compat.sinceProbe + 1
          /\ cycle.pc = "core" => cycle.bad \/ newCycles <= compat.sinceProbe

ReportsInv ==
    /\ ReportsTypeOK
    /\ RestartsTold
    /\ ListBehind /\ ListSent
    /\ ProbeNear
    /\ CoreNotLost

Cycles ==
    [pc: {"idle", "full", "core"}, section: Sections, bad: BOOLEAN, reached: BOOLEAN, core: BOOLEAN]

LEMMA UnitFacts ==
    /\ FullEvery \in Nat /\ ProbeEvery \in Nat /\ MaxRestarts \in Nat
    /\ FullEvery > 0 /\ ProbeEvery > 0
    /\ Gone.n = 0 /\ Gone.st = "gone" /\ Gone \notin Units
    /\ \A u \in Units \cup {Gone} : /\ u.n \in 0..MaxRestarts /\ u # NoneYet
                                    /\ u = Gone \/ u.st \in {"active", "failed"}
  <1>1. FullEvery \in Nat /\ ProbeEvery \in Nat /\ MaxRestarts \in Nat /\ FullEvery > 0 /\ ProbeEvery > 0
    BY ReportsAssumption
  <1>2. Gone.n = 0 /\ Gone.st = "gone" /\ Gone \notin Units
    BY DEF Gone, Units, States
  <1>3. ASSUME NEW u \in Units PROVE u.n \in 0..MaxRestarts /\ u.st \in {"active", "failed"} /\ u # NoneYet
    <2>1. u \in [st: {"active", "failed", "gone"}, n: Nat]
      BY <1>1 DEF Units, States
    <2> QED
      BY <2>1, ReportsAssumption DEF Units, States
  <1>4. Gone.n \in 0..MaxRestarts /\ Gone # NoneYet
    <2>1. Gone \in [st: {"active", "failed", "gone"}, n: Nat]
      BY DEF Gone
    <2> QED
      BY <1>1, <1>2, <2>1, ReportsAssumption
  <1> QED
    BY <1>1, <1>2, <1>3, <1>4

LEMMA SectionFacts ==
    /\ NoSection \in Sections /\ ~NoSection.known /\ ~NoSection.full /\ NoSection.item = Gone
    /\ \A s \in Sections : /\ s.known \in BOOLEAN /\ s.full \in BOOLEAN /\ s.item \in Units \cup {Gone}
                           /\ ~s.known => s = NoSection
  <1>1. NoSection \in Sections /\ NoSection.item = Gone /\ NoSection.known = FALSE /\ NoSection.full = FALSE
    BY DEF Sections, NoSection
  <1>2. ASSUME NEW s \in [known: {TRUE}, full: BOOLEAN, item: Units \cup {Gone}]
        PROVE  s.known = TRUE /\ s.full \in BOOLEAN /\ s.item \in Units \cup {Gone}
    OBVIOUS
  <1>3. ASSUME NEW s \in Sections
        PROVE  s = NoSection \/ s \in [known: {TRUE}, full: BOOLEAN, item: Units \cup {Gone}]
    BY DEF Sections
  <1> QED
    BY <1>1, <1>2, <1>3

\* What a section does to the row.
LEMMA SaveFacts ==
    ASSUME ReportsTypeOK, RestartsTold, NEW s \in Sections, s.item.n <= restarted, SaveServices(s)
    PROVE  /\ view' \in Units \cup {NoneYet} /\ history' \in 0..MaxRestarts
           /\ IF view' = NoneYet THEN history' = 0 ELSE history' <= view'.n /\ view'.n <= restarted
           /\ s.item # Gone => view' = s.item
           /\ s.item = Gone /\ s.full => view' = NoneYet
           /\ s.item = Gone /\ ~s.full => view' = view
  <1>0. /\ view \in Units \cup {NoneYet} /\ history \in 0..MaxRestarts /\ restarted \in 0..MaxRestarts
        /\ IF view = NoneYet THEN history = 0 ELSE history <= view.n /\ view.n <= restarted
        /\ s.item \in Units \cup {Gone} /\ s.item.n \in 0..MaxRestarts /\ MaxRestarts \in Nat
        /\ s.item # Gone => s.known
        /\ view # NoneYet => view.n \in 0..MaxRestarts
    BY UnitFacts, SectionFacts DEF ReportsTypeOK, RestartsTold
  <1>1. CASE s.known /\ s.item # Gone
    <2>1. view' = s.item /\ history' = Grown(view, s.item) /\ view' \in Units /\ view' # NoneYet
      BY <1>0, <1>1, UnitFacts DEF SaveServices
    <2>2. Grown(view, s.item) \in Nat /\ Grown(view, s.item) <= s.item.n
      BY <1>0 DEF Grown
    <2> QED
      BY <1>0, <1>1, <2>1, <2>2
  <1>2. CASE ~(s.known /\ s.item # Gone) /\ s.full
    BY <1>0, <1>2 DEF SaveServices
  <1>3. CASE ~(s.known /\ s.item # Gone) /\ ~s.full
    BY <1>0, <1>3 DEF SaveServices
  <1> QED
    BY <1>1, <1>2, <1>3

LEMMA CountFacts ==
    ASSUME NEW long \in Nat, NEW n \in 0..long
    PROVE  /\ CountUp(n, long) \in 0..long /\ CountUp(n, long) <= n + 1
           /\ long > 0 => CountUp(n, long) >= 1
           /\ n < long => CountUp(n, long) = n + 1
  BY DEF CountUp

\* A cycle ends: what it has stored is what was sent, or counts as a fault.
LEMMA EndsInv ==
    ASSUME ReportsInv, cycle.pc # "idle", UNCHANGED <<unit, restarted, last, fullAge, oldServer>>,
           NEW reached \in BOOLEAN, NEW core \in BOOLEAN, NEW ok \in BOOLEAN, Ends(reached, core, ok),
           compat' \in [degraded: BOOLEAN, sinceProbe: 0..ProbeEvery],
           late' \in Sections \cup {NoneYet}, late' # NoneYet => late'.item.n <= restarted,
           view' \in Units \cup {NoneYet}, history' \in 0..MaxRestarts,
           IF view' = NoneYet THEN history' = 0 ELSE history' <= view'.n /\ view'.n <= restarted,
           ok => /\ last # NoneYet
                 /\ view' = Row(last) \/ fullAge >= clean + 2
                 /\ last # Gone /\ last.st = "failed" => view' = last,
           core \/ ~reached \/ cycle.bad,
           compat'.degraded => /\ compat'.sinceProbe < ProbeEvery
                               /\ oldServer \/ ~reached \/ cycle.bad \/ newCycles <= compat'.sinceProbe
    PROVE  ReportsInv'
  <1> DEFINE both == reached /\ cycle.reached
             c == [pc |-> "idle", section |-> NoSection, bad |-> cycle.bad, reached |-> both, core |-> core]
  <1>0. /\ ReportsTypeOK /\ RestartsTold /\ ListSent /\ ProbeNear
        /\ cycle \in Cycles /\ clean \in 0..FullEvery /\ fullAge \in 0..FullEvery
        /\ newCycles \in 0..(ProbeEvery + 1) /\ last \in Units \cup {Gone, NoneYet}
    BY DEF ReportsInv, ReportsTypeOK, Cycles
  <1>1. cycle' = c
    BY DEF Ends, NoCycle
  <1>2. both \in BOOLEAN /\ (both => reached)
    OBVIOUS
  <1> HIDE DEF both
  <1>3. /\ c \in Cycles /\ c.pc = "idle" /\ c.section = NoSection
        /\ c.bad = cycle.bad /\ c.reached = both /\ c.core = core
    BY <1>0, <1>2, SectionFacts DEF Cycles
  <1> HIDE DEF c
  <1>4. /\ clean' \in 0..FullEvery /\ clean' <= clean + 1 /\ (~ok => clean' = 0)
    BY <1>0, UnitFacts, CountFacts DEF Ends
  <1>5. /\ newCycles' \in 0..(ProbeEvery + 1) /\ newCycles' <= newCycles + 1
        /\ oldServer \/ ~reached \/ cycle.bad \/ ~compat'.degraded => newCycles' = 0
    <2>1. /\ CountUp(newCycles, ProbeEvery + 1) \in 0..(ProbeEvery + 1)
          /\ CountUp(newCycles, ProbeEvery + 1) <= newCycles + 1
      <3>1. ProbeEvery + 1 \in Nat /\ newCycles \in 0..(ProbeEvery + 1)
        BY <1>0, UnitFacts
      <3> QED
        BY <3>1, CountFacts
    <2> QED
      BY <1>0, <2>1, UnitFacts DEF Ends
  <1>6. ReportsTypeOK'
    BY <1>0, <1>1, <1>3, <1>4, <1>5 DEF ReportsTypeOK, Cycles
  <1>7. RestartsTold'
    BY <1>0, <1>1, <1>3, SectionFacts, UnitFacts DEF RestartsTold, ReportsTypeOK
  <1>8. ListBehind'
    <2>1. ASSUME clean' >= 1 PROVE ok
      BY <1>4, <2>1
    <2>2. ASSUME last # NoneYet PROVE fullAge >= 1 /\ (view' = Row(last) \/ fullAge >= clean' + 1)
      <3>1. fullAge >= 1
        BY <1>0, <2>2 DEF ListSent
      <3>2. CASE ok
        BY <1>0, <1>4, <3>1, <3>2
      <3>3. CASE ~ok
        BY <1>0, <1>4, <3>1, <3>3
      <3> QED
        BY <3>1, <3>2, <3>3
    <2>3. Agrees' <=> view' = Row(last)
      BY DEF Agrees, Row
    <2> QED
      BY <2>1, <2>2, <2>3 DEF ListBehind
  <1>9. ListSent'
    BY <1>1, <1>3 DEF ListSent
  <1>10. ProbeNear'
    <2>1. oldServer \/ ~compat'.degraded => newCycles' = 0
      BY <1>5
    <2>2. ASSUME compat'.degraded
          PROVE  /\ compat'.sinceProbe < ProbeEvery /\ newCycles' <= compat'.sinceProbe + 1 /\ newCycles' <= ProbeEvery
      <3>1. compat'.sinceProbe \in 0..ProbeEvery /\ compat'.sinceProbe < ProbeEvery /\ ProbeEvery \in Nat
        BY <2>2, UnitFacts
      <3>2. newCycles' = 0 \/ newCycles <= compat'.sinceProbe
        BY <1>5, <2>2
      <3> QED
        BY <1>0, <1>5, <3>1, <3>2
    <2> QED
      BY <1>1, <1>3, <2>1, <2>2 DEF ProbeNear
  <1>11. CoreNotLost'
    BY <1>1, <1>2, <1>3 DEF CoreNotLost
  <1> QED
    BY <1>6, <1>7, <1>8, <1>9, <1>10, <1>11 DEF ReportsInv

LEMMA StoredInv ==
    ASSUME ReportsInv, NEW saved \in BOOLEAN, FullStored(saved)
    PROVE  ReportsInv'
  <1> DEFINE ok == saved /\ cycle.section.known /\ late = NoneYet
  <1>0. /\ ReportsTypeOK /\ RestartsTold /\ ListSent
        /\ cycle \in Cycles /\ cycle.section \in Sections /\ cycle.section.item.n <= restarted
        /\ view \in Units \cup {NoneYet} /\ history \in 0..MaxRestarts
        /\ late \in Sections \cup {NoneYet} /\ (late # NoneYet => late.item.n <= restarted)
        /\ IF view = NoneYet THEN history = 0 ELSE history <= view.n /\ view.n <= restarted
    BY DEF ReportsInv, ReportsTypeOK, RestartsTold, Cycles
  <1>1. /\ cycle.pc = "full" /\ Ends(TRUE, TRUE, ok) /\ compat' = Healthy
        /\ UNCHANGED <<unit, restarted, last, fullAge, late, oldServer>>
    BY DEF FullStored
  <1>2. compat' \in [degraded: BOOLEAN, sinceProbe: 0..ProbeEvery] /\ compat'.degraded = FALSE
    BY <1>1, UnitFacts DEF Healthy
  <1>3. ok \in BOOLEAN
    BY <1>0, SectionFacts
  <1>4. /\ view' \in Units \cup {NoneYet} /\ history' \in 0..MaxRestarts
        /\ IF view' = NoneYet THEN history' = 0 ELSE history' <= view'.n /\ view'.n <= restarted
    <2>1. CASE saved
      BY <1>0, <2>1, SaveFacts DEF FullStored
    <2>2. CASE ~saved
      BY <1>0, <2>2 DEF FullStored
    <2> QED
      BY <2>1, <2>2
  <1>5. ASSUME ok
        PROVE  /\ last # NoneYet
               /\ view' = Row(last) \/ fullAge >= clean + 2
               /\ last # Gone /\ last.st = "failed" => view' = last
    <2>1. /\ cycle.section.item # Gone => view' = cycle.section.item
          /\ cycle.section.item = Gone /\ cycle.section.full => view' = NoneYet
          /\ cycle.section.item = Gone /\ ~cycle.section.full => view' = view
      BY <1>0, <1>5, SaveFacts DEF FullStored
    <2>2. /\ last # NoneYet /\ cycle.section.item \in {last, Gone}
          /\ cycle.section.item = Gone /\ cycle.section.full => last = Gone
          /\ cycle.section.item = Gone /\ ~cycle.section.full =>
                /\ Agrees \/ fullAge >= clean + 2
                /\ last = Gone \/ last.st = "active"
      BY <1>0, <1>1, <1>5 DEF ListSent
    <2> QED
      BY <2>1, <2>2 DEF Agrees, Row
  <1> HIDE DEF ok
  <1> QED
    BY <1>0, <1>1, <1>2, <1>3, <1>4, <1>5, EndsInv

LEMMA FailsInv ==
    ASSUME ReportsInv, NEW kept \in BOOLEAN, SendFails(kept)
    PROVE  ReportsInv'
  <1>0. /\ ReportsTypeOK /\ RestartsTold /\ ProbeNear
        /\ cycle \in Cycles /\ cycle.section \in Sections /\ cycle.section.item.n <= restarted
        /\ view \in Units \cup {NoneYet} /\ history \in 0..MaxRestarts
        /\ late \in Sections \cup {NoneYet} /\ (late # NoneYet => late.item.n <= restarted)
        /\ IF view = NoneYet THEN history = 0 ELSE history <= view.n /\ view.n <= restarted
        /\ compat \in [degraded: BOOLEAN, sinceProbe: 0..ProbeEvery]
    BY DEF ReportsInv, ReportsTypeOK, RestartsTold, Cycles
  <1>1. /\ cycle.pc # "idle" /\ Ends(FALSE, FALSE, FALSE)
        /\ late' = late \/ late' = cycle.section
        /\ UNCHANGED <<unit, restarted, last, fullAge, oldServer, view, history, compat>>
    BY DEF SendFails
  <1>2. late' \in Sections \cup {NoneYet} /\ (late' # NoneYet => late'.item.n <= restarted)
    BY <1>0, <1>1
  <1>3. compat'.degraded => compat'.sinceProbe < ProbeEvery
    BY <1>0, <1>1 DEF ProbeNear
  <1> QED
    BY <1>0, <1>1, <1>2, <1>3, EndsInv

LEMMA CoreInv ==
    ASSUME ReportsInv, CoreStored \/ CoreRefused
    PROVE  ReportsInv'
  <1>0. /\ ReportsTypeOK /\ RestartsTold /\ ProbeNear
        /\ cycle \in Cycles
        /\ view \in Units \cup {NoneYet} /\ history \in 0..MaxRestarts
        /\ late \in Sections \cup {NoneYet} /\ (late # NoneYet => late.item.n <= restarted)
        /\ IF view = NoneYet THEN history = 0 ELSE history <= view.n /\ view.n <= restarted
        /\ compat \in [degraded: BOOLEAN, sinceProbe: 0..ProbeEvery]
    BY DEF ReportsInv, ReportsTypeOK, RestartsTold, Cycles
  <1>1. CASE CoreStored
    <2>1. /\ cycle.pc = "core" /\ ~cycle.bad /\ Ends(TRUE, TRUE, FALSE)
          /\ compat' = IF compat.degraded THEN compat ELSE [degraded |-> TRUE, sinceProbe |-> 0]
          /\ UNCHANGED <<unit, restarted, last, fullAge, late, oldServer, view, history>>
      BY <1>1 DEF CoreStored
    <2>2. /\ compat' \in [degraded: BOOLEAN, sinceProbe: 0..ProbeEvery]
          /\ compat'.sinceProbe < ProbeEvery /\ newCycles <= compat'.sinceProbe
      <3>1. CASE compat.degraded
        BY <1>0, <2>1, <3>1 DEF ProbeNear
      <3>2. CASE ~compat.degraded
        BY <1>0, <2>1, <3>2, UnitFacts DEF ProbeNear
      <3> QED
        BY <3>1, <3>2
    <2> QED
      BY <1>0, <2>1, <2>2, EndsInv
  <1>2. CASE CoreRefused
    <2>1. /\ cycle.pc = "core" /\ cycle.bad /\ Ends(TRUE, FALSE, FALSE)
          /\ UNCHANGED <<unit, restarted, last, fullAge, late, oldServer, view, history, compat>>
      BY <1>2 DEF CoreRefused
    <2>2. compat'.degraded => compat'.sinceProbe < ProbeEvery
      BY <1>0, <2>1 DEF ProbeNear
    <2> QED
      BY <1>0, <2>1, <2>2, EndsInv
  <1> QED
    BY <1>1, <1>2

LEMMA BuildInv ==
    ASSUME ReportsInv, NEW known \in BOOLEAN, NEW bad \in BOOLEAN, Build(known, bad)
    PROVE  ReportsInv'
  <1> DEFINE label == IF compat.degraded /\ compat.sinceProbe + 1 < ProbeEvery THEN "core" ELSE "full"
             s == IF known THEN section ELSE NoSection
             c == [pc |-> label, section |-> s, bad |-> bad, reached |-> TRUE, core |-> FALSE]
             p == IF compat.degraded
                  THEN [compat EXCEPT !.sinceProbe = IF @ + 1 < ProbeEvery THEN @ + 1 ELSE 0]
                  ELSE compat
  <1>0. /\ ReportsTypeOK /\ RestartsTold /\ ListBehind /\ ProbeNear
        /\ unit \in Units \cup {Gone} /\ last \in Units \cup {Gone, NoneYet}
        /\ clean \in 0..FullEvery /\ fullAge \in 0..FullEvery /\ unit.n <= restarted
        /\ compat \in [degraded: BOOLEAN, sinceProbe: 0..ProbeEvery] /\ restarted \in 0..MaxRestarts
        /\ unit # NoneYet
    BY UnitFacts DEF ReportsInv, ReportsTypeOK, RestartsTold
  <1>1. /\ cycle.pc = "idle" /\ cycle' = c /\ compat' = p
        /\ IF known THEN last' = unit /\ fullAge' = IF fullDue THEN 1 ELSE CountUp(fullAge, FullEvery)
           ELSE UNCHANGED last /\ fullAge' = CountUp(fullAge, FullEvery)
        /\ clean' = IF known /\ unit = Gone /\ last # Gone THEN 0 ELSE clean
        /\ UNCHANGED <<unit, restarted, late, oldServer, view, history, newCycles>>
    BY DEF Build
  <1>2. fullDue \in BOOLEAN
    BY DEF fullDue
  <1>3. /\ section \in Sections /\ section.known = TRUE /\ section.full = fullDue
        /\ section.item = IF inReport(fullDue) THEN unit ELSE Gone
    <2> HIDE DEF fullDue, inReport
    <2>1. section \in [known: {TRUE}, full: BOOLEAN, item: Units \cup {Gone}]
      BY <1>0, <1>2 DEF section
    <2> QED
      BY <2>1 DEF section, Sections
  <1> HIDE DEF section, label
  <1>4. s \in Sections /\ s.item.n <= restarted /\ (s.known => known /\ s = section)
    BY <1>0, <1>3, SectionFacts, UnitFacts
  <1> HIDE DEF s
  <1>5. c \in Cycles /\ c.pc = label /\ label \in {"core", "full"} /\ c.section = s /\ c.bad = bad
    BY <1>4 DEF Cycles, label
  <1> HIDE DEF c
  <1>6. /\ p \in [degraded: BOOLEAN, sinceProbe: 0..ProbeEvery] /\ p.degraded = compat.degraded
        /\ compat.degraded => p.sinceProbe = IF compat.sinceProbe + 1 < ProbeEvery THEN compat.sinceProbe + 1 ELSE 0
    BY <1>0, UnitFacts
  <1> HIDE DEF p
  <1>7. /\ CountUp(fullAge, FullEvery) \in 0..FullEvery /\ CountUp(fullAge, FullEvery) >= 1
        /\ fullAge < FullEvery => CountUp(fullAge, FullEvery) = fullAge + 1
    BY <1>0, CountFacts, UnitFacts
  <1>8. /\ fullAge' \in 0..FullEvery /\ fullAge' >= 1 /\ clean' \in 0..FullEvery
        /\ last' \in Units \cup {Gone, NoneYet}
    BY <1>0, <1>1, <1>7, UnitFacts
  <1>9. ReportsTypeOK'
    BY <1>0, <1>1, <1>5, <1>6, <1>8 DEF ReportsTypeOK, Cycles
  <1>10. RestartsTold'
    BY <1>0, <1>1, <1>4, <1>5 DEF RestartsTold
  <1>11. ListBehind' /\ CoreNotLost'
    BY <1>1, <1>5 DEF ListBehind, CoreNotLost
  <1>12. ListSent'
    <2> SUFFICES ASSUME s.known
                 PROVE  /\ last' # NoneYet
                        /\ s.item \in {last', Gone}
                        /\ s.item = Gone /\ s.full => last' = Gone
                        /\ s.item = Gone /\ ~s.full =>
                              /\ fullAge' >= 2 /\ (Agrees' \/ fullAge' >= clean' + 2)
                              /\ last' = Gone \/ last'.st = "active"
      BY <1>1, <1>5, <1>8 DEF ListSent
    <2>1. /\ known /\ s = section /\ last' = unit /\ last' # NoneYet
          /\ fullAge' = IF fullDue THEN 1 ELSE CountUp(fullAge, FullEvery)
      BY <1>0, <1>1, <1>4
    <2>2. s.item \in {last', Gone} /\ (s.item = Gone /\ s.full => last' = Gone)
      BY <1>3, <2>1 DEF inReport
    <2>3. ASSUME s.item = Gone, ~s.full
          PROVE  /\ fullAge' >= 2 /\ (Agrees' \/ fullAge' >= clean' + 2)
                 /\ last' = Gone \/ last'.st = "active"
      <3>1. ~fullDue /\ last # NoneYet /\ fullAge < FullEvery
        <4>1. ~fullDue
          BY <1>3, <2>1, <2>3
        <4> QED
          BY <1>0, <4>1, UnitFacts DEF fullDue
      <3>2. fullAge' = fullAge + 1 /\ fullAge >= 1
        BY <1>0, <1>1, <1>7, <2>1, <3>1 DEF ListBehind
      <3>3. unit = Gone \/ (unit.st = "active" /\ last = unit)
        <4>1. ~inReport(fullDue) \/ unit = Gone
          BY <1>3, <2>1, <2>3
        <4> QED
          BY <1>0, <3>1, <4>1, UnitFacts DEF inReport, troubled
      <3>4. Agrees' \/ fullAge' >= clean' + 2
        <4>1. CASE last = unit
          <5>1. Agrees' <=> Agrees
            BY <1>1, <2>1, <4>1 DEF Agrees, Row
          <5>2. clean' = clean
            BY <1>1, <4>1
          <5> QED
            BY <1>0, <1>1, <3>1, <3>2, <5>1, <5>2 DEF ListBehind
        <4>2. CASE last # unit
          BY <1>0, <1>1, <2>1, <3>2, <3>3, <4>2
        <4> QED
          BY <4>1, <4>2
      <3> QED
        BY <1>0, <2>1, <3>2, <3>3, <3>4
    <2> QED
      BY <2>1, <2>2, <2>3
  <1>13. ProbeNear'
    <2>1. oldServer' \/ ~compat'.degraded => newCycles' = 0
      BY <1>0, <1>1, <1>6 DEF ProbeNear
    <2>2. ASSUME compat.degraded
          PROVE  /\ p.sinceProbe < ProbeEvery /\ newCycles <= ProbeEvery
                 /\ label = "core" => newCycles <= p.sinceProbe
      BY <1>0, <1>1, <1>6, <2>2, UnitFacts DEF ProbeNear, label
    <2> QED
      BY <1>1, <1>5, <1>6, <2>1, <2>2 DEF ProbeNear
  <1> QED
    BY <1>9, <1>10, <1>11, <1>12, <1>13 DEF ReportsInv

LEMMA RefusedInv ==
    ASSUME ReportsInv, FullRefused
    PROVE  ReportsInv'
  <1> DEFINE c == [cycle EXCEPT !.pc = "core"]
  <1>0. ReportsTypeOK /\ RestartsTold /\ ListSent /\ ProbeNear /\ cycle \in Cycles
    BY DEF ReportsInv, ReportsTypeOK, Cycles
  <1>1. /\ cycle.pc = "full" /\ (oldServer \/ cycle.bad) /\ cycle' = c
        /\ UNCHANGED <<unit, restarted, last, fullAge, compat, late, oldServer, view, history, clean, newCycles>>
    BY DEF FullRefused
  <1>2. c \in Cycles /\ c.pc = "core" /\ c.section = cycle.section /\ c.bad = cycle.bad
    BY <1>0 DEF Cycles
  <1> HIDE DEF c
  <1>3. ReportsTypeOK'
    BY <1>0, <1>1, <1>2 DEF ReportsTypeOK, Cycles
  <1>4. RestartsTold'
    BY <1>0, <1>1, <1>2 DEF RestartsTold
  <1>5. ListBehind' /\ CoreNotLost'
    BY <1>1, <1>2 DEF ListBehind, CoreNotLost
  <1>6. ListSent'
    BY <1>0, <1>1, <1>2 DEF ListSent, Agrees, Row
  <1>7. ProbeNear'
    BY <1>0, <1>1, <1>2 DEF ProbeNear, ReportsTypeOK
  <1> QED
    BY <1>3, <1>4, <1>5, <1>6, <1>7 DEF ReportsInv

LEMMA LateInv ==
    ASSUME ReportsInv, NEW saved \in BOOLEAN, LateStored(saved)
    PROVE  ReportsInv'
  <1>0. /\ ReportsTypeOK /\ RestartsTold /\ ListBehind /\ ListSent /\ ProbeNear /\ CoreNotLost
        /\ late \in Sections /\ late.item.n <= restarted /\ clean \in 0..FullEvery
        /\ view \in Units \cup {NoneYet} /\ history \in 0..MaxRestarts /\ fullAge \in 0..FullEvery
        /\ IF view = NoneYet THEN history = 0 ELSE history <= view.n /\ view.n <= restarted
    BY DEF ReportsInv, ReportsTypeOK, RestartsTold, LateStored
  <1>1. /\ late' = NoneYet /\ clean' = 0
        /\ UNCHANGED <<unit, restarted, last, fullAge, compat, cycle, oldServer, newCycles>>
    BY DEF LateStored
  <1>2. /\ view' \in Units \cup {NoneYet} /\ history' \in 0..MaxRestarts
        /\ IF view' = NoneYet THEN history' = 0 ELSE history' <= view'.n /\ view'.n <= restarted
    <2>1. CASE saved
      BY <1>0, <2>1, SaveFacts DEF LateStored
    <2>2. CASE ~saved
      BY <1>0, <2>2 DEF LateStored
    <2> QED
      BY <2>1, <2>2
  <1>3. ReportsTypeOK'
    BY <1>0, <1>1, <1>2, UnitFacts DEF ReportsTypeOK
  <1>4. RestartsTold'
    BY <1>0, <1>1, <1>2 DEF RestartsTold
  <1>5. ListBehind' /\ ListSent'
    BY <1>0, <1>1 DEF ListBehind, ListSent
  <1>6. ProbeNear' /\ CoreNotLost'
    BY <1>0, <1>1 DEF ProbeNear, CoreNotLost
  <1> QED
    BY <1>3, <1>4, <1>5, <1>6 DEF ReportsInv

LEMMA WorldInv ==
    ASSUME ReportsInv, (\E u \in Units \cup {Gone} : UnitChanges(u)) \/ UnitRestarts \/ Replace \/ UNCHANGED rvars
    PROVE  ReportsInv'
  <1>0. /\ ReportsTypeOK /\ RestartsTold /\ ListBehind /\ ListSent /\ ProbeNear /\ CoreNotLost
        /\ unit \in Units \cup {Gone} /\ restarted \in 0..MaxRestarts /\ unit.n \in 0..MaxRestarts
    BY UnitFacts DEF ReportsInv, ReportsTypeOK
  <1>1. ASSUME UNCHANGED <<last, fullAge, compat, cycle, late, oldServer, view, history, clean, newCycles>>,
               unit' \in Units \cup {Gone}, restarted' \in 0..MaxRestarts, restarted <= restarted', unit'.n <= restarted'
        PROVE  ReportsInv'
    <2>1. ReportsTypeOK'
      BY <1>0, <1>1 DEF ReportsTypeOK
    <2>2. RestartsTold'
      <3>1. cycle.section.item.n \in Nat
        BY <1>0, SectionFacts, UnitFacts DEF ReportsTypeOK
      <3>2. late # NoneYet => late.item.n \in Nat
        BY <1>0, SectionFacts, UnitFacts DEF ReportsTypeOK
      <3>3. view # NoneYet => view.n \in Nat
        BY <1>0, UnitFacts DEF ReportsTypeOK
      <3> QED
        BY <1>0, <1>1, <3>1, <3>2, <3>3, UnitFacts DEF RestartsTold
    <2>3. ListBehind' /\ ListSent'
      BY <1>0, <1>1 DEF ListBehind, ListSent, Agrees, Row
    <2>4. ProbeNear' /\ CoreNotLost'
      BY <1>0, <1>1 DEF ProbeNear, CoreNotLost
    <2> QED
      BY <2>1, <2>2, <2>3, <2>4 DEF ReportsInv
  <1>2. ASSUME NEW u \in Units \cup {Gone}, UnitChanges(u) PROVE ReportsInv'
    <2>1. unit' = u /\ UNCHANGED <<restarted, last, fullAge, compat, cycle, late, oldServer, view, history, clean, newCycles>>
      BY <1>2 DEF UnitChanges
    <2>2. u.n = 0 \/ u.n = unit.n
      BY <1>2, UnitFacts DEF UnitChanges
    <2> QED
      BY <1>0, <1>1, <2>1, <2>2, UnitFacts DEF RestartsTold
  <1>3. CASE UnitRestarts
    <2>1. /\ unit # Gone /\ restarted < MaxRestarts /\ restarted' = restarted + 1
          /\ unit' = [unit EXCEPT !.n = unit.n + 1]
          /\ UNCHANGED <<last, fullAge, compat, cycle, late, oldServer, view, history, clean, newCycles>>
      BY <1>3 DEF UnitRestarts
    <2>2. unit.n + 1 \in 0..MaxRestarts
      BY <1>0, <2>1, UnitFacts DEF RestartsTold
    <2>3. unit' \in Units /\ unit'.n = unit.n + 1
      BY <1>0, <2>1, <2>2 DEF Units
    <2> QED
      BY <1>0, <1>1, <2>1, <2>3, UnitFacts DEF RestartsTold
  <1>4. CASE Replace
    <2>1. /\ oldServer' \in BOOLEAN /\ newCycles' = 0
          /\ UNCHANGED <<unit, restarted, last, fullAge, compat, cycle, late, view, history, clean>>
      BY <1>4 DEF Replace
    <2>2. ReportsTypeOK'
      BY <1>0, <2>1, UnitFacts DEF ReportsTypeOK
    <2>3. RestartsTold'
      BY <1>0, <2>1 DEF RestartsTold
    <2>4. ListBehind' /\ ListSent' /\ CoreNotLost'
      BY <1>0, <2>1 DEF ListBehind, ListSent, CoreNotLost, Agrees, Row
    <2>5. ProbeNear'
      BY <1>0, <2>1, UnitFacts DEF ProbeNear, ReportsTypeOK
    <2> QED
      BY <2>2, <2>3, <2>4, <2>5 DEF ReportsInv
  <1>5. CASE UNCHANGED rvars
    BY <1>0, <1>1, <1>5 DEF rvars, RestartsTold
  <1> QED
    BY <1>2, <1>3, <1>4, <1>5

\* Of one service of a host, for any intervals of full lists and probes and any
\* number of restarts, however reports are lost, stored late or refused:
\* FullEvery reports in a row that are stored bring the stored list back to
\* what the agent sent last; a failed service is shown by the first one stored
\* after a fault; no more restarts are counted than there were; and the fallback
\* ends within ProbeEvery valid cycles that reach an updated server, and loses
\* no core metrics of a valid cycle that was answered (services.go, compat.go).
THEOREM ListsHeal == ReportsSpec => []ReportsHeal
  <1>1. ReportsInit => ReportsInv
    <2> SUFFICES ASSUME ReportsInit PROVE ReportsInv
      OBVIOUS
    <2>1. unit \in Units \cup {Gone} /\ unit.n = 0
      BY UnitFacts DEF ReportsInit, Units, States
    <2>2. NoCycle \in Cycles /\ NoCycle.pc = "idle" /\ NoCycle.section.item = Gone /\ NoCycle.core = TRUE
      BY SectionFacts DEF NoCycle, Cycles
    <2>3. compat \in [degraded: BOOLEAN, sinceProbe: 0..ProbeEvery] /\ compat.degraded = FALSE
      BY UnitFacts DEF ReportsInit
    <2>4. ReportsTypeOK
      BY <2>1, <2>2, <2>3, UnitFacts DEF ReportsInit, ReportsTypeOK, Cycles
    <2>5. RestartsTold
      BY <2>1, <2>2, UnitFacts DEF ReportsInit, RestartsTold
    <2>6. ListBehind /\ ListSent
      BY <2>2 DEF ReportsInit, ListBehind, ListSent
    <2>7. ProbeNear /\ CoreNotLost
      BY <2>2, <2>3 DEF ReportsInit, ProbeNear, CoreNotLost
    <2> QED
      BY <2>4, <2>5, <2>6, <2>7 DEF ReportsInv
  <1>2. ReportsInv /\ [ReportsNext]_rvars => ReportsInv'
    BY BuildInv, StoredInv, FailsInv, CoreInv, RefusedInv, LateInv, WorldInv DEF ReportsNext
  <1>3. ReportsInv => ReportsHeal
    <2> SUFFICES ASSUME ReportsInv PROVE ReportsHeal
      OBVIOUS
    <2>1. ListHeals
      BY UnitFacts DEF ReportsInv, ReportsTypeOK, ListBehind, Agrees, ListHeals
    <2>2. TroubleShown
      BY DEF ReportsInv, ListBehind, TroubleShown
    <2>3. RestartsReal
      BY UnitFacts DEF ReportsInv, ReportsTypeOK, RestartsTold, RestartsReal
    <2>4. DegradedEnds /\ CoreNotLost /\ ReportsTypeOK
      BY DEF ReportsInv, ProbeNear, DegradedEnds
    <2> QED
      BY <2>1, <2>2, <2>3, <2>4 DEF ReportsHeal
  <1> QED
    BY <1>1, <1>2, <1>3, PTL DEF ReportsSpec

-----------------------------------------------------------------------------
(* What is kept of a report: sequences built entry by entry                *)

LEMMA LeastOf ==
    ASSUME NEW S \in SUBSET Nat, S # {}
    PROVE  \E m \in S : \A n \in S : m <= n
  <1> DEFINE R == {p \in Nat \X Nat : p[1] < p[2]}
  <1>1. IsWellFoundedOn(R, Nat)
    BY NatLessThanWellFounded DEF OpToRel
  <1>2. PICK m \in S : \A n \in S : ~(<<n, m>> \in R)
    BY <1>1, WFMin
  <1>3. ASSUME NEW n \in S PROVE m <= n
    <2>1. m \in Nat /\ n \in Nat /\ <<n, m>> \in Nat \X Nat
      OBVIOUS
    <2>2. n < m => <<n, m>> \in R
      BY <2>1
    <2> QED
      BY <1>2, <2>1, <2>2
  <1> QED
    BY <1>3

LEMMA GreatestOf ==
    ASSUME NEW S \in SUBSET Nat, S # {}, NEW limit \in Nat, \A n \in S : n <= limit
    PROVE  \E m \in S : \A n \in S : n <= m
  <1> DEFINE T == {limit - n : n \in S}
  <1>1. T \in SUBSET Nat /\ T # {}
    <2>1. \A n \in S : limit - n \in Nat
      OBVIOUS
    <2> QED
      BY <2>1
  <1>2. PICK t \in T : \A n \in T : t <= n
    <2> HIDE DEF T
    <2> QED
      BY <1>1, LeastOf
  <1>3. PICK m \in S : t = limit - m
    BY <1>2
  <1>4. ASSUME NEW n \in S PROVE n <= m
    <2>1. limit - n \in T /\ n \in Nat /\ m \in Nat
      OBVIOUS
    <2>2. t <= limit - n
      BY <1>2, <2>1
    <2> QED
      BY <1>3, <2>1, <2>2
  <1> QED
    BY <1>4

LEMMA StepByStep ==
    ASSUME NEW n \in Nat, NEW G \in SUBSET (0..n), 0 \in G, \A i \in 1..n : i - 1 \in G => i \in G
    PROVE  \A i \in 0..n : i \in G
  <1> DEFINE Bad == {i \in 0..n : i \notin G}
  <1>1. SUFFICES ASSUME Bad # {} PROVE FALSE
    OBVIOUS
  <1>2. PICK m \in Bad : \A i \in Bad : m <= i
    <2>1. Bad \in SUBSET Nat
      OBVIOUS
    <2> HIDE DEF Bad
    <2> QED
      BY <1>1, <2>1, LeastOf
  <1>3. m \in 0..n /\ m \notin G /\ m # 0
    BY <1>2
  <1>4. m \in 1..n /\ m - 1 \in 0..n /\ m - 1 \notin Bad
    BY <1>2, <1>3
  <1> QED
    BY <1>3, <1>4

IsSteps(f, k, A, b, g) == f \in [0..k -> A] /\ f[0] = b /\ \A i \in 1..k : f[i] = g[<<i, f[i - 1]>>]

\* A function defined step by step exists.
LEMMA StepsExist ==
    ASSUME NEW n \in Nat, NEW A, NEW b \in A, NEW g, \A i \in 1..n, x \in A : g[<<i, x>>] \in A
    PROVE  \E f : IsSteps(f, n, A, b, g)
  <1> DEFINE G == {k \in 0..n : \E f : IsSteps(f, k, A, b, g)}
  <1>1. 0 \in G
    <2> DEFINE f == [i \in 0..0 |-> b]
    <2>1. f \in [0..0 -> A] /\ f[0] = b /\ 1..0 = {}
      OBVIOUS
    <2> HIDE DEF f
    <2>2. IsSteps(f, 0, A, b, g)
      BY <2>1 DEF IsSteps
    <2> QED
      BY <2>2
  <1>2. ASSUME NEW i \in 1..n, i - 1 \in G PROVE i \in G
    <2>1. PICK f : IsSteps(f, i - 1, A, b, g)
      BY <1>2
    <2>2. f \in [0..(i - 1) -> A] /\ f[0] = b /\ \A j \in 1..(i - 1) : f[j] = g[<<j, f[j - 1]>>]
      BY <2>1 DEF IsSteps
    <2> DEFINE h == [j \in 0..i |-> IF j = i THEN g[<<i, f[i - 1]>>] ELSE f[j]]
    <2>3. i - 1 \in 0..(i - 1) /\ f[i - 1] \in A /\ g[<<i, f[i - 1]>>] \in A
      BY <2>2
    <2>4. \A j \in 0..i : h[j] = IF j = i THEN g[<<i, f[i - 1]>>] ELSE f[j]
      OBVIOUS
    <2>5. h \in [0..i -> A]
      BY <2>2, <2>3
    <2>6. h[0] = b
      BY <2>2, <2>4
    <2> HIDE DEF h
    <2>7. ASSUME NEW j \in 1..i PROVE h[j] = g[<<j, h[j - 1]>>]
      <3>1. j - 1 \in 0..(i - 1) /\ j - 1 # i /\ j - 1 \in 0..i /\ j \in 0..i
        OBVIOUS
      <3>2. h[j - 1] = f[j - 1]
        BY <2>4, <3>1
      <3>3. CASE j = i
        BY <2>4, <3>1, <3>2, <3>3
      <3>4. CASE j # i
        <4>1. j \in 1..(i - 1)
          BY <3>4
        <4> QED
          BY <2>2, <2>4, <3>1, <3>2, <3>4, <4>1
      <3> QED
        BY <3>3, <3>4
    <2>8. IsSteps(h, i, A, b, g)
      BY <2>5, <2>6, <2>7 DEF IsSteps
    <2>9. i \in 0..n
      OBVIOUS
    <2> QED
      BY <2>8, <2>9
  <1> HIDE DEF G
  <1>3. \A k \in 0..n : k \in G
    <2>1. G \in SUBSET (0..n)
      BY DEF G
    <2> QED
      BY <1>1, <1>2, <2>1, StepByStep
  <1>4. n \in 0..n
    OBVIOUS
  <1> QED
    BY <1>3, <1>4 DEF G

IsPicked(f, seq, places) ==
    f = [i \in 0..Len(seq) |-> IF i = 0 THEN <<>> ELSE IF i \in places THEN Append(f[i - 1], seq[i]) ELSE f[i - 1]]

PicksUp(f, S, seq, places) ==
    /\ f \in [0..Len(seq) -> Seq(S)]
    /\ Picked(seq, places) = f[Len(seq)]
    /\ f[0] = <<>>
    /\ \A i \in 1..Len(seq) : f[i] = IF i \in places THEN Append(f[i - 1], seq[i]) ELSE f[i - 1]

\* The entries picked, step by step.
LEMMA PickedIs ==
    ASSUME NEW S, NEW seq \in Seq(S), NEW places
    PROVE  \E f : PicksUp(f, S, seq, places)
  <1> DEFINE n == Len(seq)
             A == Seq(S)
             g == [p \in (1..n) \X A |-> IF p[1] \in places THEN Append(p[2], seq[p[1]]) ELSE p[2]]
  <1>1. n \in Nat /\ \A i \in 1..n : seq[i] \in S
    BY LenProperties, ElementOfSeq
  <1>2. <<>> \in A
    BY EmptySeq
  <1>15. \A x \in A, e \in S : Append(x, e) \in A
    BY AppendProperties
  <1>3. \A i \in 1..n, x \in A : g[<<i, x>>] = IF i \in places THEN Append(x, seq[i]) ELSE x
    OBVIOUS
  <1>4. \A i \in 1..n, x \in A : g[<<i, x>>] \in A
    BY <1>1, <1>3, AppendProperties
  <1> HIDE DEF n, A, g
  <1>5. PICK f : IsSteps(f, n, A, <<>>, g)
    BY <1>1, <1>2, <1>4, StepsExist
  <1>6. f \in [0..n -> A] /\ f[0] = <<>> /\ \A i \in 1..n : f[i] = g[<<i, f[i - 1]>>]
    BY <1>5 DEF IsSteps
  <1>7. \A i \in 1..n : i - 1 \in 0..n
    BY <1>1
  <1>8. \A i \in 1..n : f[i] = IF i \in places THEN Append(f[i - 1], seq[i]) ELSE f[i - 1]
    BY <1>3, <1>6, <1>7
  <1>9. IsPicked(f, seq, places)
    <2>1. f = [i \in 0..n |-> f[i]]
      BY <1>6
    <2>2. \A i \in 0..n : f[i] = IF i = 0 THEN <<>> ELSE IF i \in places THEN Append(f[i - 1], seq[i]) ELSE f[i - 1]
      <3>1. \A i \in 0..n : i = 0 \/ i \in 1..n
        BY <1>1
      <3> QED
        BY <1>6, <1>8, <3>1
    <2> QED
      BY <2>1, <2>2 DEF IsPicked, n
  <1> DEFINE c == CHOOSE h : IsPicked(h, seq, places)
  <1>10. IsPicked(c, seq, places)
    BY <1>9
  <1>11. Picked(seq, places) = c[n]
    BY Zenon DEF Picked, IsPicked, n
  <1> HIDE DEF c
  <1>12. c[0] = <<>> /\ \A i \in 1..n : c[i] = IF i \in places THEN Append(c[i - 1], seq[i]) ELSE c[i - 1]
    <2>1. \A i \in 0..n : c[i] = IF i = 0 THEN <<>> ELSE IF i \in places THEN Append(c[i - 1], seq[i]) ELSE c[i - 1]
      BY <1>10 DEF IsPicked, n
    <2>2. 0 \in 0..n /\ \A i \in 1..n : i \in 0..n /\ i # 0
      BY <1>1
    <2> QED
      BY <2>1, <2>2
  <1>13. \A i \in 0..n : c[i] \in A
    <2> DEFINE G == {i \in 0..n : c[i] \in A}
    <2>1. G \in SUBSET (0..n) /\ 0 \in G
      BY <1>1, <1>2, <1>12
    <2>2. ASSUME NEW i \in 1..n, i - 1 \in G PROVE i \in G
      <3>1. c[i - 1] \in A /\ i \in 0..n
        BY <1>1, <2>2
      <3>2. c[i] \in A
        BY <1>1, <1>12, <1>15, <3>1
      <3> QED
        BY <3>1, <3>2
    <2> HIDE DEF G
    <2>3. \A i \in 0..n : i \in G
      BY <1>1, <2>1, <2>2, StepByStep
    <2> QED
      BY <2>3 DEF G
  <1>14. c \in [0..n -> A]
    <2>1. c = [i \in 0..n |-> IF i = 0 THEN <<>> ELSE IF i \in places THEN Append(c[i - 1], seq[i]) ELSE c[i - 1]]
      BY <1>10 DEF IsPicked, n
    <2> QED
      BY <1>13, <2>1
  <1> QED
    BY <1>11, <1>12, <1>14 DEF n, A, PicksUp

Octets == {"a", "sp", "ctl", "w1", "w2"}

\* Bytes in which a second byte follows a first one.
Runes(b) == /\ b \in Seq(Octets)
            /\ b # <<>> => RuneStart(b[1])
            /\ \A j \in 2..Len(b) : ~RuneStart(b[j]) => b[j - 1] = "w1"

IsBytes(f, text) ==
    f = [i \in 0..Len(text) |-> IF i = 0 THEN <<>> ELSE f[i - 1] \o Encoded(text[i])]

LEMMA EncodedIs ==
    ASSUME NEW b, Runes(b), NEW char \in Chars
    PROVE  /\ Runes(b \o Encoded(char))
           /\ Len(b \o Encoded(char)) > 0
           /\ b # <<>> => (b \o Encoded(char))[1] = b[1]
           /\ b = <<>> /\ char # "sp" => (b \o Encoded(char))[1] # "sp"
  <1>1. b \in Seq(Octets) /\ Len(b) \in Nat /\ (b # <<>> => Len(b) >= 1 /\ RuneStart(b[1]))
    BY LenProperties, EmptySeq DEF Runes
  <1>2. \A j \in 2..Len(b) : ~RuneStart(b[j]) => b[j - 1] = "w1"
    BY DEF Runes
  <1> DEFINE e == Encoded(char)
             c == b \o e
  <1>3. CASE char = "w"
    <2>1. e = <<"w1", "w2">>
      BY <1>3 DEF Encoded
    <2>2. Len(c) = Len(b) + 2 /\ c[Len(b) + 1] = "w1" /\ c[Len(b) + 2] = "w2" /\ c \in Seq(Octets)
          /\ \A j \in 1..Len(b) : c[j] = b[j]
      BY <1>1, <2>1 DEF Octets
    <2> HIDE DEF c, e
    <2>3. c # <<>> => RuneStart(c[1])
      <3>1. CASE b = <<>>
        BY <2>2, <3>1 DEF RuneStart
      <3>2. CASE b # <<>>
        BY <1>1, <2>2, <3>2
      <3> QED
        BY <3>1, <3>2
    <2>4. ASSUME NEW j \in 2..Len(c), ~RuneStart(c[j]) PROVE c[j - 1] = "w1"
      <3>1. j \in 2..Len(b) \/ j = Len(b) + 1 \/ j = Len(b) + 2
        BY <1>1, <2>2
      <3>2. CASE j \in 2..Len(b)
        <4>1. j \in 1..Len(b) /\ j - 1 \in 1..Len(b)
          BY <1>1, <3>2
        <4> QED
          BY <1>2, <2>2, <2>4, <3>2, <4>1
      <3>3. CASE j = Len(b) + 1
        BY <2>2, <2>4, <3>3 DEF RuneStart
      <3>4. CASE j = Len(b) + 2
        <4>1. j - 1 = Len(b) + 1
          BY <1>1, <3>4
        <4> QED
          BY <2>2, <4>1
      <3> QED
        BY <3>1, <3>2, <3>3, <3>4
    <2>5. Len(c) > 0 /\ (b # <<>> => c[1] = b[1]) /\ (b = <<>> => c[1] # "sp")
      <3>1. b # <<>> => 1 \in 1..Len(b)
        BY <1>1
      <3>2. b = <<>> => Len(b) = 0
        OBVIOUS
      <3> QED
        BY <1>1, <2>2, <3>1, <3>2
    <2> QED
      BY <2>2, <2>3, <2>4, <2>5 DEF c, e, Runes
  <1>4. CASE char # "w"
    <2>1. e = <<char>> /\ char \in Octets /\ RuneStart(char)
      BY <1>4 DEF Encoded, Chars, Octets, RuneStart
    <2>2. Len(c) = Len(b) + 1 /\ c[Len(b) + 1] = char /\ c \in Seq(Octets)
          /\ \A j \in 1..Len(b) : c[j] = b[j]
      BY <1>1, <2>1
    <2> HIDE DEF c, e
    <2>3. c # <<>> => RuneStart(c[1])
      <3>1. CASE b = <<>>
        BY <2>1, <2>2, <3>1
      <3>2. CASE b # <<>>
        BY <1>1, <2>2, <3>2
      <3> QED
        BY <3>1, <3>2
    <2>4. ASSUME NEW j \in 2..Len(c), ~RuneStart(c[j]) PROVE c[j - 1] = "w1"
      <3>1. j \in 2..Len(b) \/ j = Len(b) + 1
        BY <1>1, <2>2
      <3>2. CASE j \in 2..Len(b)
        <4>1. j \in 1..Len(b) /\ j - 1 \in 1..Len(b)
          BY <1>1, <3>2
        <4> QED
          BY <1>2, <2>2, <2>4, <3>2, <4>1
      <3>3. CASE j = Len(b) + 1
        BY <2>1, <2>2, <2>4, <3>3
      <3> QED
        BY <3>1, <3>2, <3>3
    <2>5. Len(c) > 0 /\ (b # <<>> => c[1] = b[1]) /\ (b = <<>> => c[1] = char)
      <3>1. b # <<>> => 1 \in 1..Len(b)
        BY <1>1
      <3>2. b = <<>> => Len(b) = 0
        OBVIOUS
      <3> QED
        BY <1>1, <2>2, <3>1, <3>2
    <2> QED
      BY <2>2, <2>3, <2>4, <2>5 DEF c, e, Runes
  <1> QED
    BY <1>3, <1>4

\* The bytes of a text: no character of it is lost or torn.
LEMMA BytesIs ==
    ASSUME NEW text \in Seq(Chars)
    PROVE  /\ Runes(Bytes(text))
           /\ text = <<>> <=> Bytes(text) = <<>>
           /\ text # <<>> /\ text[1] # "sp" => Bytes(text)[1] # "sp"
  <1> DEFINE n == Len(text)
             A == {b \in Seq(Octets) : Runes(b)}
             g == [p \in (1..n) \X A |-> p[2] \o Encoded(text[p[1]])]
  <1>1. n \in Nat /\ (\A i \in 1..n : text[i] \in Chars) /\ (text = <<>> <=> n = 0)
    BY LenProperties, ElementOfSeq, EmptySeq
  <1>2. \A b : b \in A <=> Runes(b)
    BY DEF Runes
  <1>3. Runes(<<>>) /\ Len(<<>>) = 0
    BY EmptySeq DEF Runes
  <1>4. \A i \in 1..n, x \in A : g[<<i, x>>] = x \o Encoded(text[i])
    OBVIOUS
  <1> HIDE DEF A, g, n
  <1>5. \A i \in 1..n, x \in A : g[<<i, x>>] \in A
    BY <1>1, <1>2, <1>4, EncodedIs
  <1>6. PICK f : IsSteps(f, n, A, <<>>, g)
    BY <1>1, <1>2, <1>3, <1>5, StepsExist
  <1>7. f \in [0..n -> A] /\ f[0] = <<>> /\ \A i \in 1..n : f[i] = g[<<i, f[i - 1]>>]
    BY <1>6 DEF IsSteps
  <1>8. IsBytes(f, text)
    <2>1. f = [i \in 0..n |-> f[i]]
      BY <1>7
    <2>2. \A i \in 0..n : f[i] = IF i = 0 THEN <<>> ELSE f[i - 1] \o Encoded(text[i])
      <3>1. \A i \in 0..n : i = 0 \/ (i \in 1..n /\ i - 1 \in 0..n)
        BY <1>1
      <3> QED
        BY <1>4, <1>7, <3>1
    <2> QED
      BY <2>1, <2>2 DEF IsBytes, n
  <1> DEFINE c == CHOOSE h : IsBytes(h, text)
  <1>9. IsBytes(c, text)
    BY <1>8
  <1>10. Bytes(text) = c[n]
    BY Zenon DEF Bytes, IsBytes, n
  <1> HIDE DEF c
  <1>11. c[0] = <<>> /\ \A i \in 1..n : c[i] = c[i - 1] \o Encoded(text[i])
    <2>1. \A i \in 0..n : c[i] = IF i = 0 THEN <<>> ELSE c[i - 1] \o Encoded(text[i])
      BY <1>9 DEF IsBytes, n
    <2>2. 0 \in 0..n /\ \A i \in 1..n : i \in 0..n /\ i # 0
      BY <1>1
    <2> QED
      BY <2>1, <2>2
  <1> DEFINE G == {i \in 0..n : /\ Runes(c[i])
                                /\ i = 0 <=> c[i] = <<>>
                                /\ i # 0 /\ text[1] # "sp" => c[i][1] # "sp"}
  <1>12. G \in SUBSET (0..n) /\ 0 \in G
    BY <1>1, <1>3, <1>11
  <1>13. ASSUME NEW i \in 1..n, i - 1 \in G PROVE i \in G
    <2>1. Runes(c[i - 1]) /\ (i - 1 = 0 <=> c[i - 1] = <<>>) /\ i \in 0..n /\ i # 0
          /\ (i - 1 # 0 /\ text[1] # "sp" => c[i - 1][1] # "sp")
      BY <1>1, <1>13
    <2>2. text[i] \in Chars /\ c[i] = c[i - 1] \o Encoded(text[i]) /\ (i = 1 <=> i - 1 = 0)
      <3>1. text[i] \in Chars
        BY <1>1
      <3>2. c[i] = c[i - 1] \o Encoded(text[i])
        BY <1>11
      <3>3. i = 1 <=> i - 1 = 0
        BY <1>1
      <3> QED
        BY <3>1, <3>2, <3>3
    <2>3. Runes(c[i]) /\ Len(c[i]) > 0 /\ (c[i - 1] # <<>> => c[i][1] = c[i - 1][1])
          /\ (c[i - 1] = <<>> /\ text[i] # "sp" => c[i][1] # "sp")
      <3> DEFINE b == c[i - 1]
                 char == text[i]
      <3>1. Runes(b) /\ char \in Chars
        BY <2>1, <2>2
      <3> HIDE DEF b, char
      <3>2. /\ Runes(b \o Encoded(char))
            /\ Len(b \o Encoded(char)) > 0
            /\ b # <<>> => (b \o Encoded(char))[1] = b[1]
            /\ b = <<>> /\ char # "sp" => (b \o Encoded(char))[1] # "sp"
        BY <3>1, EncodedIs
      <3>3. c[i] = b \o Encoded(char)
        BY <2>2 DEF b, char
      <3>4. Runes(c[i]) /\ Len(c[i]) > 0 /\ (b # <<>> => c[i][1] = b[1])
            /\ (b = <<>> /\ char # "sp" => c[i][1] # "sp")
        BY <3>2, <3>3
      <3> QED
        BY <3>4 DEF b, char
    <2>4. c[i] # <<>>
      BY <1>3, <2>3
    <2>5. text[1] # "sp" => c[i][1] # "sp"
      <3>1. CASE i = 1
        BY <2>1, <2>3, <3>1
      <3>2. CASE i # 1
        BY <2>1, <2>3, <3>2
      <3> QED
        BY <3>1, <3>2
    <2> QED
      BY <2>1, <2>3, <2>4, <2>5
  <1> HIDE DEF G
  <1>14. \A i \in 0..n : i \in G
    BY <1>1, <1>12, <1>13, StepByStep
  <1>15. n \in G /\ (text = <<>> <=> n = 0)
    BY <1>1, <1>14
  <1>16. Runes(c[n]) /\ (n = 0 <=> c[n] = <<>>) /\ (n # 0 /\ text[1] # "sp" => c[n][1] # "sp")
    BY <1>15 DEF G
  <1> QED
    BY <1>10, <1>15, <1>16

LEMMA LeastIs ==
    ASSUME NEW S \in SUBSET Nat, S # {}
    PROVE  Min(S) \in S /\ \A n \in S : Min(S) <= n
  <1>1. PICK m \in S : \A n \in S : m <= n
    BY LeastOf
  <1> QED
    BY <1>1 DEF Min

LEMMA GreatestIs ==
    ASSUME NEW S \in SUBSET Nat, S # {}, NEW limit \in Nat, \A n \in S : n <= limit
    PROVE  Max(S) \in S /\ \A n \in S : n <= Max(S)
  <1>1. PICK m \in S : \A n \in S : n <= m
    BY GreatestOf
  <1> QED
    BY <1>1 DEF Max

\* A trimmed text starts with no space.
LEMMA TrimIs ==
    ASSUME NEW text \in Seq(Chars)
    PROVE  /\ Trim(text) \in Seq(Chars)
           /\ Trim(text) # <<>> => Trim(text)[1] # "sp"
  <1> DEFINE solid == {i \in DOMAIN text : text[i] # "sp"}
  <1>1. Len(text) \in Nat /\ DOMAIN text = 1..Len(text) /\ (\A i \in 1..Len(text) : text[i] \in Chars)
    BY LenProperties, ElementOfSeq
  <1>2. CASE solid = {}
    <2>1. Trim(text) = <<>>
      BY <1>2 DEF Trim
    <2> QED
      BY <2>1
  <1>3. CASE solid # {}
    <2>1. solid \in SUBSET Nat /\ (\A i \in solid : i <= Len(text)) /\ solid \subseteq 1..Len(text)
          /\ (\A i \in solid : text[i] # "sp")
      BY <1>1
    <2>2. Trim(text) = SubSeq(text, Min(solid), Max(solid))
      BY <1>3 DEF Trim
    <2> HIDE DEF solid
    <2>3. Min(solid) \in solid /\ Max(solid) \in solid /\ (\A i \in solid : Min(solid) <= i)
      BY <1>1, <1>3, <2>1, LeastIs, GreatestIs
    <2>4. Min(solid) \in 1..Len(text) /\ Max(solid) \in 1..Len(text) /\ Min(solid) <= Max(solid)
          /\ text[Min(solid)] # "sp"
      BY <2>1, <2>3
    <2>5. \A i \in Min(solid)..Max(solid) : text[i] \in Chars
      BY <1>1, <2>4
    <2>6. SubSeq(text, Min(solid), Max(solid)) \in Seq(Chars)
          /\ SubSeq(text, Min(solid), Max(solid))[1] = text[Min(solid)]
      <3> DEFINE m == Min(solid)
                 x == Max(solid)
      <3>1. m \in Int /\ x \in Int /\ (\A i \in m..x : text[i] \in Chars) /\ 1 \in 1..(x - m + 1)
        BY <1>1, <2>4, <2>5
      <3> HIDE DEF m, x
      <3>2. SubSeq(text, m, x) \in Seq(Chars) /\ SubSeq(text, m, x)[1] = text[m + 1 - 1]
        BY <3>1
      <3> QED
        BY <3>1, <3>2 DEF m, x
    <2> QED
      BY <2>2, <2>4, <2>6
  <1> QED
    BY <1>2, <1>3

\* The printable characters of a text are a text.
LEMMA PrintableIs ==
    ASSUME NEW text \in Seq(Chars)
    PROVE  Printable(text) \in Seq(Chars)
  <1>1. PICK f : /\ f \in [0..Len(text) -> Seq(Chars)]
                 /\ Printable(text) = f[Len(text)]
    <2> DEFINE places == {i \in DOMAIN text : text[i] # "ctl"}
    <2>1. Printable(text) = Picked(text, places)
      BY DEF Printable
    <2> HIDE DEF places
    <2> QED
      BY <2>1, PickedIs DEF PicksUp
  <1>2. Len(text) \in 0..Len(text)
    BY LenProperties
  <1> QED
    BY <1>1, <1>2

Whole(full, n) == n = Len(full) \/ RuneStart(full[n + 1])

\* The longest run of whole characters that fits.
Fits(kept, full, max) ==
    /\ IsPrefix(kept, full)
    /\ Whole(full, Len(kept)) /\ Len(kept) <= max
    /\ \A n \in (Len(kept) + 1)..Len(full) : Whole(full, n) => n > max
    /\ full # <<>> /\ max >= 2 => kept # <<>>
    /\ kept # <<>> => Head(kept) # "sp"

Cut(b, max) ==
    CHOOSE n \in 0..max : (n = 0 \/ RuneStart(b[n + 1])) /\ \A m \in (n + 1)..max : ~RuneStart(b[m + 1])

LEMMA CutIs ==
    ASSUME NEW b, NEW max \in Nat
    PROVE  /\ Cut(b, max) \in 0..max
           /\ Cut(b, max) = 0 \/ RuneStart(b[Cut(b, max) + 1])
           /\ \A m \in (Cut(b, max) + 1)..max : ~RuneStart(b[m + 1])
  <1> DEFINE S == {n \in 0..max : n = 0 \/ RuneStart(b[n + 1])}
  <1>1. S \in SUBSET Nat /\ S # {} /\ (\A n \in S : n <= max)
    <2>1. 0 \in S
      OBVIOUS
    <2> QED
      BY <2>1
  <1>2. PICK n \in S : \A m \in S : m <= n
    <2> HIDE DEF S
    <2> QED
      BY <1>1, GreatestOf
  <1>3. n \in 0..max /\ (n = 0 \/ RuneStart(b[n + 1]))
    BY <1>2
  <1>4. ASSUME NEW m \in (n + 1)..max PROVE ~RuneStart(b[m + 1])
    <2>1. m \in 0..max /\ ~(m <= n)
      BY <1>3
    <2>2. m \notin S
      BY <1>2, <2>1
    <2> QED
      BY <2>1, <2>2
  <1> QED
    BY <1>3, <1>4 DEF Cut

\* The bytes kept are the longest run of whole characters that fits.
LEMMA CutFits ==
    ASSUME NEW b, Runes(b), NEW max \in Nat, b # <<>> => b[1] # "sp"
    PROVE  Fits(IF Len(b) <= max THEN b ELSE SubSeq(b, 1, Cut(b, max)), b, max)
  <1>1. b \in Seq(Octets) /\ Len(b) \in Nat /\ (b # <<>> => Len(b) >= 1 /\ RuneStart(b[1]))
    BY LenProperties, EmptySeq DEF Runes
  <1>2. \A j \in 2..Len(b) : ~RuneStart(b[j]) => b[j - 1] = "w1"
    BY DEF Runes
  <1>3. CASE Len(b) <= max
    <2>1. IsPrefix(b, b)
      <3>1. SubSeq(b, 1, Len(b)) = b
        BY <1>1
      <3> QED
        BY <1>1, <3>1 DEF IsPrefix
    <2>2. Whole(b, Len(b)) /\ (Len(b) + 1)..Len(b) = {}
      BY <1>1 DEF Whole
    <2>3. b # <<>> => Head(b) # "sp"
      BY <1>1
    <2> QED
      BY <1>3, <2>1, <2>2, <2>3 DEF Fits
  <1>4. CASE ~(Len(b) <= max)
    <2> DEFINE cut == Cut(b, max)
               kept == SubSeq(b, 1, cut)
    <2>1. cut \in 0..max /\ (cut = 0 \/ RuneStart(b[cut + 1]))
          /\ \A m \in (cut + 1)..max : ~RuneStart(b[m + 1])
      BY CutIs
    <2> HIDE DEF cut
    <2>2. cut \in Nat /\ cut < Len(b) /\ b # <<>> /\ cut <= max
      <3>1. b = <<>> => Len(b) = 0
        OBVIOUS
      <3> QED
        BY <1>1, <1>4, <2>1, <3>1
    <2>3. kept \in Seq(Octets) /\ Len(kept) = cut /\ (\A j \in 1..cut : kept[j] = b[j])
      BY <1>1, <2>2
    <2>4. SubSeq(kept, 1, cut) = kept
      <3> HIDE DEF kept
      <3> QED
        BY <2>2, <2>3
    <2>5. SubSeq(b, 1, cut) = kept
      OBVIOUS
    <2>6. kept # <<>> => cut >= 1 /\ Head(kept) = kept[1]
      <3> HIDE DEF kept
      <3> QED
        BY <2>2, <2>3
    <2> HIDE DEF kept
    <2>7. IsPrefix(kept, b)
      BY <1>1, <2>2, <2>3, <2>4, <2>5 DEF IsPrefix
    <2>8. Whole(b, cut)
      BY <1>1, <2>1, <2>2 DEF Whole
    <2>9. ASSUME NEW n \in (cut + 1)..Len(b), Whole(b, n) PROVE n > max
      BY <1>1, <1>4, <2>1, <2>2, <2>9 DEF Whole
    <2>10. ASSUME max >= 2 PROVE kept # <<>>
      <3>1. SUFFICES ASSUME cut = 0 PROVE FALSE
        <4>1. kept = <<>> => Len(kept) = 0
          OBVIOUS
        <4> QED
          BY <2>3, <4>1
      <3>2. 1 \in (cut + 1)..max /\ 2 \in (cut + 1)..max
        BY <2>10, <3>1
      <3>3. ~RuneStart(b[2]) /\ ~RuneStart(b[3])
        <4>1. ~RuneStart(b[1 + 1]) /\ ~RuneStart(b[2 + 1])
          BY <2>1, <3>2
        <4> QED
          BY <4>1
      <3>4. 3 \in 2..Len(b)
        BY <1>1, <1>4, <2>10
      <3>5. b[3 - 1] = "w1"
        BY <1>2, <3>3, <3>4
      <3> QED
        BY <3>3, <3>5 DEF RuneStart
    <2>11. kept # <<>> => Head(kept) # "sp"
      <3>1. cut >= 1 => kept[1] = b[1]
        BY <2>2, <2>3
      <3> QED
        BY <2>2, <2>6, <3>1
    <2>12. Fits(kept, b, max)
      BY <2>2, <2>3, <2>7, <2>8, <2>9, <2>10, <2>11 DEF Fits
    <2> QED
      BY <1>4, <2>5, <2>12 DEF cut
  <1> QED
    BY <1>3, <1>4

LEMMA CleanTextFits ==
    ASSUME NEW text \in Seq(Chars), NEW max \in Nat
    PROVE  Fits(CleanText(text, max), Bytes(Trim(Printable(text))), max)
  <1> DEFINE t == Trim(Printable(text))
             b == Bytes(t)
  <1>1. t \in Seq(Chars) /\ (t # <<>> => t[1] # "sp")
    BY PrintableIs, TrimIs
  <1>2. CleanText(text, max) = IF Len(b) <= max THEN b ELSE SubSeq(b, 1, Cut(b, max))
    BY DEF CleanText, Cut
  <1> HIDE DEF t
  <1>3. Runes(b) /\ (b # <<>> => b[1] # "sp")
    BY <1>1, BytesIs
  <1> HIDE DEF b
  <1>4. Fits(IF Len(b) <= max THEN b ELSE SubSeq(b, 1, Cut(b, max)), b, max)
    BY <1>3, CutFits
  <1> QED
    BY <1>2, <1>4 DEF b, t

Names == {"", "x", "y"}
Kept == [out: Seq(Entries), seen: SUBSET Names]
KeptAs(e) == [e EXCEPT !.opt = Ranged(@)]

IsKept(f, list) ==
    f = [i \in 0..Len(list) |-> IF i = 0 THEN [out |-> <<>>, seen |-> {}] ELSE AddEntry(f[i - 1], list[i])]

LEMMA KeptAsIs == \A e \in Entries : KeptAs(e) \in Entries
  BY DEF KeptAs, Entries, Ranged, Field

LEMMA AddEntryIs ==
    ASSUME NEW acc \in Kept, NEW e \in Entries
    PROVE  /\ AddEntry(acc, e) \in Kept
           /\ IF Len(acc.out) = ListMax \/ ~e.fit \/ e.name = "" \/ e.name \in acc.seen
              THEN AddEntry(acc, e) = acc
              ELSE /\ AddEntry(acc, e).out = Append(acc.out, KeptAs(e))
                   /\ AddEntry(acc, e).seen = acc.seen \cup {e.name}
  <1>1. CASE Len(acc.out) = ListMax \/ ~e.fit \/ e.name = "" \/ e.name \in acc.seen
    BY <1>1 DEF AddEntry
  <1>2. CASE ~(Len(acc.out) = ListMax \/ ~e.fit \/ e.name = "" \/ e.name \in acc.seen)
    <2>1. AddEntry(acc, e) = [out |-> Append(acc.out, KeptAs(e)), seen |-> acc.seen \cup {e.name}]
      BY <1>2 DEF AddEntry, KeptAs
    <2>2. acc.out \in Seq(Entries) /\ KeptAs(e) \in Entries /\ acc.seen \cup {e.name} \in SUBSET Names
      BY KeptAsIs DEF Kept, Entries, Names
    <2>3. Append(acc.out, KeptAs(e)) \in Seq(Entries)
      BY <2>2, AppendProperties
    <2> QED
      <3> DEFINE o == Append(acc.out, KeptAs(e))
                 t == acc.seen \cup {e.name}
      <3>1. o \in Seq(Entries) /\ t \in SUBSET Names /\ AddEntry(acc, e) = [out |-> o, seen |-> t]
        BY <2>1, <2>2, <2>3
      <3> HIDE DEF o, t
      <3>2. AddEntry(acc, e) \in Kept /\ AddEntry(acc, e).out = o /\ AddEntry(acc, e).seen = t
        BY <3>1 DEF Kept
      <3> QED
        BY <1>2, <3>2 DEF o, t
  <1> QED
    BY <1>1, <1>2

\* The list kept, entry by entry.
LEMMA CleanListIs ==
    ASSUME NEW list \in Seq(Entries)
    PROVE  \E f : /\ f \in [0..Len(list) -> Kept]
                  /\ CleanList(list) = f[Len(list)].out
                  /\ f[0] = [out |-> <<>>, seen |-> {}]
                  /\ \A i \in 1..Len(list) : f[i] = AddEntry(f[i - 1], list[i])
  <1> DEFINE n == Len(list)
             z == [out |-> <<>>, seen |-> {}]
             g == [p \in (1..n) \X Kept |-> AddEntry(p[2], list[p[1]])]
  <1>1. n \in Nat /\ \A i \in 1..n : list[i] \in Entries
    BY LenProperties, ElementOfSeq
  <1>2. z \in Kept
    BY EmptySeq DEF Kept
  <1>3. \A i \in 1..n, x \in Kept : g[<<i, x>>] = AddEntry(x, list[i])
    OBVIOUS
  <1> HIDE DEF n, z, g
  <1>4. \A i \in 1..n, x \in Kept : g[<<i, x>>] \in Kept
    <2>1. ASSUME NEW i \in 1..n, NEW x \in Kept PROVE AddEntry(x, list[i]) \in Kept
      <3>1. list[i] \in Entries
        BY <1>1
      <3> QED
        BY <3>1, AddEntryIs
    <2> QED
      BY <1>3, <2>1
  <1>5. PICK f : IsSteps(f, n, Kept, z, g)
    BY <1>1, <1>2, <1>4, StepsExist
  <1>6. f \in [0..n -> Kept] /\ f[0] = z /\ \A i \in 1..n : f[i] = g[<<i, f[i - 1]>>]
    BY <1>5 DEF IsSteps
  <1>7. IsKept(f, list)
    <2>1. f = [i \in 0..n |-> f[i]]
      BY <1>6
    <2>2. \A i \in 0..n : f[i] = IF i = 0 THEN z ELSE AddEntry(f[i - 1], list[i])
      <3>1. \A i \in 0..n : i = 0 \/ (i \in 1..n /\ i - 1 \in 0..n)
        BY <1>1
      <3> QED
        BY <1>3, <1>6, <3>1
    <2> QED
      BY <2>1, <2>2 DEF IsKept, n, z
  <1> DEFINE c == CHOOSE h : IsKept(h, list)
  <1>8. IsKept(c, list)
    BY <1>7
  <1>9. CleanList(list) = c[n].out
    BY Zenon DEF CleanList, IsKept, n
  <1> HIDE DEF c
  <1>10. c = [i \in 0..n |-> IF i = 0 THEN z ELSE AddEntry(c[i - 1], list[i])]
    BY <1>8 DEF IsKept, n, z
  <1>11. c[0] = z /\ \A i \in 1..n : c[i] = AddEntry(c[i - 1], list[i])
    <2>1. 0 \in 0..n /\ \A i \in 1..n : i \in 0..n /\ i # 0
      BY <1>1
    <2> QED
      BY <1>10, <2>1
  <1> DEFINE G == {i \in 0..n : c[i] \in Kept}
  <1>12. G \in SUBSET (0..n) /\ 0 \in G
    BY <1>1, <1>2, <1>11
  <1>13. ASSUME NEW i \in 1..n, i - 1 \in G PROVE i \in G
    <2>1. c[i - 1] \in Kept /\ i \in 0..n /\ list[i] \in Entries
      BY <1>1, <1>13
    <2>2. AddEntry(c[i - 1], list[i]) \in Kept
      BY <2>1, AddEntryIs
    <2> QED
      BY <1>11, <2>1, <2>2
  <1>14. \A i \in 0..n : i \in G
    <2> HIDE DEF G
    <2> QED
      BY <1>1, <1>12, <1>13, StepByStep
  <1>15. c \in [0..n -> Kept]
    BY <1>10, <1>14
  <1> QED
    BY <1>9, <1>11, <1>15 DEF n, z

\* The first valid entry of its name.
FirstValid(list, i) ==
    list[i].fit /\ list[i].name # "" /\ \A j \in 1..(i - 1) : ~(list[j].fit /\ list[j].name = list[i].name)
Places(list) == {i \in DOMAIN list : FirstValid(list, i)}

\* What is kept after i entries: the first ListMax of the places p passed so far.
KeptSoFar(list, acc, p, i) ==
    /\ Len(acc.out) = IF Len(p) < ListMax THEN Len(p) ELSE ListMax
    /\ \A k \in 1..Len(acc.out) : acc.out[k] = KeptAs(list[p[k]])
    /\ Len(acc.out) < ListMax =>
        \A name \in Names : name \in acc.seen <=> name # "" /\ \E j \in 1..i : list[j].fit /\ list[j].name = name

LEMMA KeptGoesOn ==
    ASSUME NEW list \in Seq(Entries), NEW i \in 1..Len(list), NEW acc \in Kept, NEW p \in Seq(Nat),
           KeptSoFar(list, acc, p, i - 1)
    PROVE  KeptSoFar(list, AddEntry(acc, list[i]), IF i \in Places(list) THEN Append(p, i) ELSE p, i)
  <1> DEFINE e == list[i]
             next == AddEntry(acc, e)
             q == IF i \in Places(list) THEN Append(p, i) ELSE p
             Named(name, m) == \E j \in 1..m : list[j].fit /\ list[j].name = name
  <1>1. /\ e \in Entries /\ Len(list) \in Nat /\ i \in Nat /\ i >= 1 /\ Len(p) \in Nat
        /\ e.name \in Names /\ e.fit \in BOOLEAN /\ DOMAIN list = 1..Len(list)
    <2>1. Len(list) \in Nat /\ DOMAIN list = 1..Len(list) /\ Len(p) \in Nat
      BY LenProperties
    <2>2. e \in Entries
      BY ElementOfSeq
    <2>3. e.name \in Names /\ e.fit \in BOOLEAN
      BY <2>2 DEF Entries, Names
    <2>4. i \in Nat /\ i >= 1
      BY <2>1
    <2> QED
      BY <2>1, <2>2, <2>3, <2>4
  <1>2. acc.out \in Seq(Entries) /\ Len(acc.out) \in Nat /\ acc.seen \in SUBSET Names
    BY LenProperties DEF Kept
  <1>3. ListMax \in Nat /\ ListMax >= 1
    BY IngestAssumption
  <1>4. /\ Len(acc.out) = IF Len(p) < ListMax THEN Len(p) ELSE ListMax
        /\ \A k \in 1..Len(acc.out) : acc.out[k] = KeptAs(list[p[k]])
        /\ Len(acc.out) < ListMax => \A name \in Names : name \in acc.seen <=> name # "" /\ Named(name, i - 1)
    BY DEF KeptSoFar
  <1>5. \A name : Named(name, i) <=> Named(name, i - 1) \/ (e.fit /\ e.name = name)
    <2>1. \A j : j \in 1..i <=> j \in 1..(i - 1) \/ j = i
      BY <1>1
    <2> QED
      BY <2>1
  <1>6. i \in Places(list) <=> e.fit /\ e.name # "" /\ ~Named(e.name, i - 1)
    BY <1>1 DEF Places, FirstValid
  <1>7. IF Len(acc.out) = ListMax \/ ~e.fit \/ e.name = "" \/ e.name \in acc.seen
        THEN next = acc
        ELSE /\ next.out = Append(acc.out, KeptAs(e))
             /\ next.seen = acc.seen \cup {e.name}
    BY <1>1, AddEntryIs
  <1>8. Len(Append(p, i)) = Len(p) + 1 /\ (\A k \in 1..Len(p) : Append(p, i)[k] = p[k]) /\ Append(p, i)[Len(p) + 1] = i
    BY <1>1
  <1>9. KeptAs(e) \in Entries
    BY <1>1, KeptAsIs
  <1>10. /\ Len(Append(acc.out, KeptAs(e))) = Len(acc.out) + 1
         /\ \A k \in 1..Len(acc.out) : Append(acc.out, KeptAs(e))[k] = acc.out[k]
         /\ Append(acc.out, KeptAs(e))[Len(acc.out) + 1] = KeptAs(e)
    BY <1>2, <1>9
  <1>105. Len(p) \in Nat /\ Len(acc.out) = IF Len(p) < ListMax THEN Len(p) ELSE ListMax
    BY <1>1, <1>4
  <1> HIDE DEF next, Named, e
  <1>11. CASE Len(acc.out) = ListMax
    <2>1. next = acc /\ Len(p) >= ListMax
      <3>1. next = acc
        BY <1>7, <1>11
      <3>2. Len(p) >= ListMax
        BY <1>3, <1>11, <1>105
      <3> QED
        BY <3>1, <3>2
    <2>2. Len(q) >= ListMax /\ Len(q) \in Nat /\ (\A k \in 1..Len(p) : q[k] = p[k])
      BY <1>1, <1>3, <1>8, <2>1
    <2> HIDE DEF q
    <2>3. \A k \in 1..Len(acc.out) : acc.out[k] = KeptAs(list[q[k]])
      <3>1. \A k \in 1..Len(acc.out) : k \in 1..Len(p)
        BY <1>1, <1>3, <1>11, <2>1
      <3> QED
        BY <1>4, <2>2, <3>1
    <2>4. Len(acc.out) = (IF Len(q) < ListMax THEN Len(q) ELSE ListMax) /\ ~(Len(acc.out) < ListMax)
      BY <1>3, <1>11, <2>2
    <2>5. KeptSoFar(list, acc, q, i)
      BY <2>3, <2>4 DEF KeptSoFar
    <2> QED
      BY <2>1, <2>5 DEF next, q, e
  <1>12. CASE Len(acc.out) # ListMax
    <2>1. Len(acc.out) = Len(p) /\ Len(p) < ListMax
          /\ \A name \in Names : name \in acc.seen <=> name # "" /\ Named(name, i - 1)
      BY <1>1, <1>3, <1>4, <1>12
    <2>2. CASE i \in Places(list)
      <3>1. next.out = Append(acc.out, KeptAs(e)) /\ next.seen = acc.seen \cup {e.name}
        BY <1>1, <1>6, <1>7, <1>12, <2>1, <2>2
      <3>2. q = Append(p, i)
        BY <2>2
      <3>3. Len(next.out) = Len(q) /\ Len(q) = Len(p) + 1 /\ Len(q) <= ListMax
        <4> DEFINE o == Append(acc.out, KeptAs(e))
        <4>1. next.out = o /\ Len(o) = Len(acc.out) + 1
          BY <1>10, <3>1
        <4> HIDE DEF o
        <4>2. Len(next.out) = Len(p) + 1
          BY <2>1, <4>1
        <4>3. Len(q) = Len(p) + 1
          BY <1>8, <3>2
        <4> QED
          <5> HIDE DEF q
          <5>1. Len(p) + 1 <= ListMax
            <6>1. Len(p) \in Nat /\ Len(p) < ListMax
              BY <1>105, <2>1
            <6> QED
              BY <1>3, <6>1
          <5> QED
            BY <4>2, <4>3, <5>1, Zenon
      <3> HIDE DEF q
      <3>4. ASSUME NEW k \in 1..Len(next.out) PROVE next.out[k] = KeptAs(list[q[k]])
        <4>1. k \in 1..Len(p) \/ k = Len(p) + 1
          BY <1>1, <3>3
        <4>2. CASE k \in 1..Len(p)
          BY <1>4, <1>8, <1>10, <2>1, <3>1, <3>2, <4>2
        <4>3. CASE k = Len(p) + 1
          <5>1. next.out[k] = KeptAs(e) /\ q[k] = i
            BY <1>8, <1>10, <2>1, <3>1, <3>2, <4>3
          <5> QED
            BY <5>1 DEF e
        <4> QED
          BY <4>1, <4>2, <4>3
      <3>5. \A name \in Names : name \in next.seen <=> name # "" /\ Named(name, i)
        <4>1. e.fit /\ e.name # ""
          BY <1>6, <2>2
        <4> QED
          BY <1>5, <2>1, <3>1, <4>1
      <3>6. Len(next.out) = IF Len(q) < ListMax THEN Len(q) ELSE ListMax
        BY <1>1, <1>3, <3>3
      <3> QED
        BY <3>4, <3>5, <3>6 DEF KeptSoFar, next, q, e, Named
    <2>3. CASE i \notin Places(list)
      <3>1. q = p
        BY <2>3
      <3>2. ~e.fit \/ e.name = "" \/ e.name \in acc.seen
        BY <1>1, <1>6, <2>1, <2>3
      <3>3. next = acc
        BY <1>7, <3>2
      <3>4. \A name \in Names : name \in acc.seen <=> name # "" /\ Named(name, i)
        <4>1. ASSUME NEW name \in Names, name # "", e.fit, e.name = name PROVE Named(name, i - 1)
          <5>1. e.name \in acc.seen
            BY <3>2, <4>1
          <5> QED
            BY <2>1, <4>1, <5>1
        <4> QED
          BY <1>5, <2>1, <4>1
      <3>5. KeptSoFar(list, acc, p, i)
        BY <1>4, <3>4 DEF KeptSoFar, Named
      <3> QED
        BY <3>1, <3>3, <3>5 DEF next, q, e
    <2> QED
      BY <2>2, <2>3
  <1> QED
    BY <1>11, <1>12

Numbered(list) == [i \in DOMAIN list |-> i]
Wanted(list) ==
    LET all == Picked(Numbered(list), Places(list))
    IN  SubSeq(all, 1, IF Len(all) < ListMax THEN Len(all) ELSE ListMax)

\* The list kept is the first ListMax names with a valid entry.
LEMMA ListKept ==
    ASSUME NEW list \in Seq(Entries)
    PROVE  CleanList(list) = [i \in DOMAIN Wanted(list) |-> KeptAs(list[Wanted(list)[i]])]
  <1> DEFINE n == Len(list)
             seq == Numbered(list)
             places == Places(list)
             all == Picked(seq, places)
             least == IF Len(all) < ListMax THEN Len(all) ELSE ListMax
             want == SubSeq(all, 1, least)
  <1>1. n \in Nat /\ DOMAIN list = 1..n
    BY LenProperties
  <1>2. seq \in Seq(Nat) /\ Len(seq) = n /\ \A i \in 1..n : seq[i] = i
    BY <1>1 DEF Numbered
  <1> HIDE DEF n, seq, places
  <1>3. PICK p : /\ p \in [0..n -> Seq(Nat)] /\ all = p[n] /\ p[0] = <<>>
                 /\ \A i \in 1..n : p[i] = IF i \in places THEN Append(p[i - 1], seq[i]) ELSE p[i - 1]
    <2>1. all = Picked(seq, places)
      OBVIOUS
    <2> HIDE DEF all
    <2>2. PICK f : PicksUp(f, Nat, seq, places)
      BY <1>2, PickedIs
    <2>3. Len(seq) = n
      BY <1>2
    <2> QED
      BY <2>1, <2>2, <2>3, Zenon DEF PicksUp
  <1>4. PICK f : /\ f \in [0..n -> Kept] /\ CleanList(list) = f[n].out
                 /\ f[0] = [out |-> <<>>, seen |-> {}]
                 /\ \A i \in 1..n : f[i] = AddEntry(f[i - 1], list[i])
    BY CleanListIs DEF n
  <1> HIDE DEF all
  <1> DEFINE G == {i \in 0..n : KeptSoFar(list, f[i], p[i], i)}
  <1>5. G \in SUBSET (0..n) /\ 0 \in G
    <2>1. Len(f[0].out) = 0 /\ Len(p[0]) = 0 /\ f[0].seen = {} /\ ListMax \in Nat /\ ListMax > 0
      BY <1>3, <1>4, IngestAssumption
    <2>2. 1..0 = {}
      OBVIOUS
    <2>3. KeptSoFar(list, f[0], p[0], 0)
      BY <2>1, <2>2 DEF KeptSoFar
    <2>4. 0 \in 0..n
      BY <1>1
    <2> QED
      BY <2>3, <2>4
  <1>6. ASSUME NEW i \in 1..n, i - 1 \in G PROVE i \in G
    <2>1. KeptSoFar(list, f[i - 1], p[i - 1], i - 1) /\ i - 1 \in 0..n /\ i \in 0..n
      BY <1>1, <1>6
    <2>2. f[i - 1] \in Kept /\ p[i - 1] \in Seq(Nat)
      BY <1>3, <1>4, <2>1
    <2>3. f[i] = AddEntry(f[i - 1], list[i]) /\ p[i] = IF i \in places THEN Append(p[i - 1], i) ELSE p[i - 1]
      BY <1>2, <1>3, <1>4
    <2> DEFINE acc == f[i - 1]
               q == p[i - 1]
    <2>4. acc \in Kept /\ q \in Seq(Nat) /\ KeptSoFar(list, acc, q, i - 1) /\ i \in 1..Len(list)
      BY <2>1, <2>2 DEF n
    <2> HIDE DEF acc, q
    <2>5. KeptSoFar(list, AddEntry(acc, list[i]), IF i \in Places(list) THEN Append(q, i) ELSE q, i)
      BY <2>4, KeptGoesOn
    <2>6. KeptSoFar(list, f[i], p[i], i)
      BY <2>3, <2>5 DEF acc, q, places
    <2> QED
      BY <2>1, <2>6
  <1>7. KeptSoFar(list, f[n], all, n)
    <2>1. \A i \in 0..n : i \in G
      <3> HIDE DEF G
      <3> QED
        BY <1>1, <1>5, <1>6, StepByStep
    <2>2. n \in 0..n
      BY <1>1
    <2> QED
      BY <1>3, <2>1, <2>2
  <1> DEFINE out == CleanList(list)
  <1>8. out \in Seq(Entries) /\ all \in Seq(Nat) /\ out = f[n].out
    <2>1. n \in 0..n
      BY <1>1
    <2>2. f[n] \in Kept
      BY <1>4, <2>1
    <2> QED
      BY <1>3, <1>4, <2>1, <2>2 DEF Kept
  <1>9. Len(out) = least /\ \A k \in 1..Len(out) : out[k] = KeptAs(list[all[k]])
    BY <1>7, <1>8 DEF KeptSoFar
  <1>10. least \in Nat /\ least <= Len(all) /\ Len(all) \in Nat
    <2>1. Len(all) \in Nat /\ ListMax \in Nat
      BY <1>8, LenProperties, IngestAssumption
    <2> QED
      BY <2>1
  <1> HIDE DEF out, least
  <1>11. DOMAIN want = 1..least /\ \A k \in 1..least : want[k] = all[k]
    BY <1>8, <1>10
  <1>12. out = [k \in 1..least |-> out[k]]
    BY <1>8, <1>9, <1>10, LenProperties
  <1>13. out = [k \in DOMAIN want |-> KeptAs(list[want[k]])]
    <2> HIDE DEF want
    <2> QED
      BY <1>9, <1>11, <1>12
  <1>14. want = Wanted(list)
    BY DEF Wanted, least, all, seq, places
  <1> QED
    BY <1>13, <1>14 DEF out

-----------------------------------------------------------------------------
(* What is kept of a report: nothing is kept before the one step that       *)
(* computes it, and that step is the function of the input.                 *)

Inputs == [kind: {"text"}, of: Texts] \cup [kind: {"list"}, of: Lists(ListLen)] \cup [kind: {"report"}, of: Wires]

IngestInv ==
    /\ given \in Inputs
    /\ \/ taken = Pending
       \/ given.kind = "text" /\ taken = CleanText(given.of, TextMax)
       \/ given.kind = "list" /\ taken = CleanList(given.of)
       \/ given.kind = "report" /\ taken = Ingest(given.of)

LEMMA InputsAre ==
    ASSUME NEW g \in Inputs
    PROVE  /\ g.kind \in {"text", "list", "report"}
           /\ g.kind = "text" => g.of \in Seq(Chars)
           /\ g.kind = "list" => g.of \in Seq(Entries)
  <1>1. Texts \subseteq Seq(Chars) /\ Lists(ListLen) \subseteq Seq(Entries)
    <2>1. \A n \in Nat : [1..n -> Chars] \subseteq Seq(Chars) /\ [1..n -> Entries] \subseteq Seq(Entries)
      OBVIOUS
    <2>2. 0..TextLen \subseteq Nat /\ 0..ListLen \subseteq Nat
      BY IngestAssumption
    <2> QED
      BY <2>1, <2>2 DEF Texts, Lists
  <1> HIDE DEF Texts, Lists, Wires
  <1> QED
    BY <1>1 DEF Inputs

\* The report is not taken.
Refused(wire) == wire.core # "in" \/ \E name \in InventoryNames : wire[name] = Malformed

LEMMA IngestIs ==
    ASSUME NEW wire
    PROVE  /\ Ingest(wire) = Rejected <=> Refused(wire)
           /\ ~Refused(wire) => /\ DOMAIN Ingest(wire) = PartNames
                               /\ \A name \in PartNames : Ingest(wire)[name] = Decode(wire, name)
  <1>1. CASE Refused(wire)
    BY <1>1 DEF Ingest, Parsed, Refused
  <1>2. CASE ~Refused(wire)
    <2> DEFINE out == [name \in PartNames |-> Decode(wire, name)]
    <2>1. DOMAIN out = PartNames /\ \A name \in PartNames : out[name] = Decode(wire, name)
      OBVIOUS
    <2>2. Ingest(wire) = out
      BY <1>2 DEF Ingest, Parsed, Refused
    <2> HIDE DEF out
    <2>3. DOMAIN Rejected = {"status"} /\ "status" \notin PartNames
      BY DEF Rejected, PartNames, SectionNames, InventoryNames
    <2>4. out # Rejected
      BY <2>1, <2>3
    <2> QED
      BY <1>2, <2>1, <2>2, <2>4
  <1> QED
    BY <1>1, <1>2

LEMMA TextFitsHolds == IngestInv => TextFits
  <1> SUFFICES ASSUME IngestInv, Done("text") PROVE TextFits
    BY DEF TextFits
  <1>1. taken = CleanText(given.of, TextMax) /\ given.of \in Seq(Chars) /\ TextMax \in Nat
    BY InputsAre, IngestAssumption DEF IngestInv, Done
  <1> DEFINE full == Bytes(Trim(Printable(given.of)))
  <1>2. Fits(taken, full, TextMax)
    BY <1>1, CleanTextFits
  <1> HIDE DEF full
  <1>3. /\ IsPrefix(taken, full)
        /\ (Len(taken) = Len(full) \/ RuneStart(full[Len(taken) + 1])) /\ Len(taken) <= TextMax
        /\ \A n \in (Len(taken) + 1)..Len(full) : (n = Len(full) \/ RuneStart(full[n + 1])) => n > TextMax
        /\ full # <<>> /\ TextMax >= 2 => taken # <<>>
        /\ taken # <<>> => Head(taken) # "sp"
    BY <1>2 DEF Fits, Whole
  <1> QED
    BY <1>3, Zenon DEF TextFits, full

LEMMA ListFirstHolds == IngestInv => ListFirstValid
  <1> SUFFICES ASSUME IngestInv, Done("list") PROVE ListFirstValid
    BY DEF ListFirstValid
  <1> DEFINE list == given.of
  <1>1. taken = CleanList(list) /\ list \in Seq(Entries)
    BY InputsAre DEF IngestInv, Done
  <1>2. taken = [i \in DOMAIN Wanted(list) |-> KeptAs(list[Wanted(list)[i]])]
    BY <1>1, ListKept
  <1> QED
    BY <1>2, Zenon DEF ListFirstValid, Wanted, Numbered, Places, FirstValid, KeptAs

LEMMA SectionAloneHolds == IngestInv => SectionAlone
  <1> SUFFICES ASSUME IngestInv, Done("report") PROVE SectionAlone
    BY DEF SectionAlone
  <1> DEFINE wire == given.of
  <1>1. taken = Ingest(wire)
    BY DEF IngestInv, Done
  <1>2. (taken = Rejected) <=> (wire.core # "in" \/ \E name \in InventoryNames : wire[name] = Malformed)
    BY <1>1, IngestIs DEF Refused
  <1>3. ASSUME taken # Rejected, NEW name \in PartNames
        PROVE  taken[name] = Ingest([n \in PartNames \cup {"core"} |->
                                        IF n = "core" THEN "in" ELSE IF n = name THEN wire[n] ELSE Nil])[name]
    <2> DEFINE alone == [n \in PartNames \cup {"core"} |->
                            IF n = "core" THEN "in" ELSE IF n = name THEN wire[n] ELSE Nil]
    <2>1. "core" \notin PartNames /\ InventoryNames \subseteq PartNames
      BY DEF PartNames, SectionNames, InventoryNames
    <2>2. alone.core = "in" /\ alone[name] = wire[name] /\ \A n \in InventoryNames : alone[n] \in {wire[n], Nil}
      BY <2>1
    <2> HIDE DEF alone
    <2>3. ~Refused(wire) /\ ~Refused(alone)
      BY <1>2, <1>3, <2>2, IngestAssumption DEF Refused
    <2>4. Ingest(alone)[name] = Decode(alone, name)
      BY <2>3, IngestIs
    <2>5. Decode(alone, name) = Decode(wire, name)
      BY <2>2 DEF Decode
    <2>6. taken[name] = Decode(wire, name)
      BY <1>1, <2>3, IngestIs
    <2> QED
      BY <2>4, <2>5, <2>6 DEF alone
  <1> QED
    BY <1>2, <1>3, Zenon DEF SectionAlone

LEMMA FullHolds == IngestInv => FullListNotEmpty
  <1> SUFFICES ASSUME IngestInv, Done("report"), taken # Rejected, taken.services # Nil, taken.services.full
               PROVE  taken.services.items # <<>>
    BY DEF FullListNotEmpty
  <1>1. taken = Ingest(given.of)
    BY DEF IngestInv, Done
  <1>2. taken["services"] = Decode(given.of, "services")
    <2>1. "services" \in PartNames
      BY DEF PartNames, SectionNames
    <2> QED
      BY <1>1, <2>1, IngestIs
  <1> DEFINE s == given.of["services"]
             out == [s EXCEPT !.items = CleanList(@)]
  <1>3. Absent("services") = Nil /\ Clean("services", s) = CleanServices(s)
    BY DEF Absent, Clean
  <1>4. taken["services"] = IF out.full /\ out.items = <<>> THEN Nil ELSE out
    BY <1>2, <1>3 DEF Decode, CleanServices
  <1> HIDE DEF out
  <1> QED
    BY <1>4

LEMMA IngestNextInv == IngestInv /\ [IngestNext]_ivars => IngestInv'
  BY DEF IngestInv, IngestNext, IngestText, IngestList, IngestReport, ivars

\* Whatever is reported, a text is cut to whole characters, a list of protocol
\* 4 keeps the first valid entry of each name, a report is taken exactly when
\* its core is good and its inventory decodes, each part of a report that is
\* taken comes out as it would alone, and no report empties the stored
\* services (model/ingest_v4.go, model.go).
THEOREM SectionsStand == IngestSpec => []SectionsClean
  <1>1. IngestInit => IngestInv
    BY DEF IngestInit, IngestInv, Inputs
  <1>2. IngestInv => SectionsClean
    <2>1. IngestInv => IngestTypeOK
      <3> SUFFICES ASSUME IngestInv PROVE IngestTypeOK
        OBVIOUS
      <3>1. given.kind \in {"text", "list", "report"}
        BY InputsAre DEF IngestInv
      <3>2. taken = Pending \/ given.kind # "report" \/ taken = Ingest(given.of)
        BY DEF IngestInv
      <3> QED
        BY <3>1, <3>2, IngestIs DEF IngestTypeOK
    <2> QED
      BY <2>1, TextFitsHolds, ListFirstHolds, SectionAloneHolds, FullHolds DEF SectionsClean
  <1> QED
    BY <1>1, <1>2, IngestNextInv, PTL DEF IngestSpec
=============================================================================
