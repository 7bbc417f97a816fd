---------------------------- MODULE AgentReports ----------------------------
(***************************************************************************)
(* What the server knows of a machine's systemd services: the agent's      *)
(* partial and full lists (report/services.go), the fallback for an old    *)
(* server (pusher/compat.go, pusher.go), the push cycle (cmd/agent),       *)
(* the ingest of the report (metrics_handlers.go, ingest/ingest.go) and    *)
(* the stored list (store/host_services.go).                               *)
(*                                                                         *)
(* One service of the machine; the other services are always running and   *)
(* never change, so a full list is never empty.  A cycle is the agent's    *)
(* report interval.  A report may be lost, be stored while its answer is   *)
(* lost, be stored in part, or be stored late, after the next ones.        *)
(***************************************************************************)
EXTENDS Naturals

CONSTANTS
    NoneYet,       \* nothing reported, nothing stored
    FullEvery,     \* fullServicesEvery, in cycles
    ProbeEvery,    \* probeEvery
    MaxRestarts    \* bound: restarts of the service

ASSUME ReportsAssumption ==
    /\ {FullEvery, ProbeEvery, MaxRestarts} \subseteq Nat \ {0}
    /\ NoneYet \notin [st: {"active", "failed", "gone"}, n: Nat]

VARIABLES
    unit,        \* the service on the machine: state and NRestarts
    restarted,   \* how often it has been restarted
    last,        \* serviceReporter.last
    fullAge,     \* cycles since serviceReporter.lastFull
    compat,      \* Compat.degraded, Compat.sinceProbe
    cycle,       \* the push cycle in progress
    late,        \* a report the agent has given up and the server still holds
    oldServer,   \* the server refuses fields it does not know
    view,        \* the host_services row
    history,     \* the sum of the increases in restart_history
    clean,       \* cycles stored since the last fault, or since the service was removed
    newCycles    \* valid cycles, since the agent fell back, that reached a server that takes all

rvars == <<unit, restarted, last, fullAge, compat, cycle, late, oldServer, view, history, clean, newCycles>>

States == {"active", "failed"}
Units == [st: States, n: 0..MaxRestarts]
Gone == [st |-> "gone", n |-> 0]
\* a services section: nothing known, or full or not, with the service or without
NoSection == [known |-> FALSE, full |-> FALSE, item |-> Gone]
Sections == [known: {TRUE}, full: BOOLEAN, item: Units \cup {Gone}] \cup {NoSection}
NoCycle == [pc |-> "idle", section |-> NoSection, bad |-> FALSE, reached |-> TRUE, core |-> TRUE]

ReportsTypeOK ==
    /\ unit \in Units \cup {Gone} /\ restarted \in 0..MaxRestarts
    /\ last \in Units \cup {Gone, NoneYet} /\ fullAge \in 0..FullEvery
    /\ compat \in [degraded: BOOLEAN, sinceProbe: 0..ProbeEvery]
    /\ cycle \in [pc: {"idle", "full", "core"}, section: Sections, bad: BOOLEAN,
                  reached: BOOLEAN, core: BOOLEAN]
    /\ late \in Sections \cup {NoneYet}
    /\ oldServer \in BOOLEAN
    /\ view \in Units \cup {NoneYet} /\ history \in 0..MaxRestarts
    /\ clean \in 0..FullEvery /\ newCycles \in 0..(ProbeEvery + 1)

ReportsInit ==
    /\ unit \in {Gone, [st |-> "active", n |-> 0]} /\ restarted = 0
    /\ last = NoneYet /\ fullAge = 0
    /\ compat = [degraded |-> FALSE, sinceProbe |-> 0]
    /\ cycle = NoCycle /\ late = NoneYet
    /\ oldServer \in BOOLEAN
    /\ view = NoneYet /\ history = 0
    /\ clean = 0 /\ newCycles = 0

-----------------------------------------------------------------------------
(* The machine.  A cycle reads it once, when it begins: what happens to it  *)
(* during a cycle is seen by the next one, and is put between the two.      *)

UnitChanges(u) ==
    /\ cycle.pc = "idle" /\ u # unit
    /\ \/ u = Gone                           \* removed
       \/ u.n = unit.n                       \* failed, running again, installed
       \/ u = [st |-> "active", n |-> 0]     \* started by hand: the counter begins again
    /\ unit' = u
    /\ UNCHANGED <<restarted, last, fullAge, compat, cycle, late, oldServer, view, history, clean, newCycles>>

\* systemd restarts the service.
UnitRestarts ==
    /\ cycle.pc = "idle" /\ unit # Gone /\ restarted < MaxRestarts
    /\ unit' = [unit EXCEPT !.n = @ + 1] /\ restarted' = restarted + 1
    /\ UNCHANGED <<last, fullAge, compat, cycle, late, oldServer, view, history, clean, newCycles>>

-----------------------------------------------------------------------------
(* The agent's cycle. *)

troubled(u) == u.st = "failed"

inReport(full) == unit # Gone /\ (full \/ troubled(unit) \/ last = NoneYet \/ last = Gone \/ last # unit)

fullDue == last = NoneYet \/ fullAge >= FullEvery

section == [known |-> TRUE, full |-> fullDue, item |-> IF inReport(fullDue) THEN unit ELSE Gone]

CountUp(n, long) == IF n = long THEN long ELSE n + 1

\* runPushCycle: Build with serviceReporter.next.  known is FALSE when the
\* collector has no list or a stale one: next returns nil and remembers nothing.
Build(known, bad) ==
    /\ cycle.pc = "idle"
    /\ cycle' = [pc |-> IF compat.degraded /\ compat.sinceProbe + 1 < ProbeEvery THEN "core" ELSE "full",
                 section |-> IF known THEN section ELSE NoSection,
                 bad |-> bad, reached |-> TRUE, core |-> FALSE]
    /\ IF known THEN last' = unit /\ fullAge' = IF fullDue THEN 1 ELSE CountUp(fullAge, FullEvery)
       ELSE UNCHANGED last /\ fullAge' = CountUp(fullAge, FullEvery)
    /\ compat' = IF compat.degraded
                 THEN [compat EXCEPT !.sinceProbe = IF @ + 1 < ProbeEvery THEN @ + 1 ELSE 0]
                 ELSE compat
    /\ clean' = IF known /\ unit = Gone /\ last # Gone THEN 0 ELSE clean
    /\ UNCHANGED <<unit, restarted, late, oldServer, view, history, newCycles>>

\* SaveServices: the row and its history after a section.
Grown(old, item) ==
    CASE old = NoneYet -> 0
      [] item.n < old.n -> 0
      [] OTHER -> history + (item.n - old.n)

\* (mutant) a full list only adds and updates
SaveServicesUpsert(s) ==
    IF s.known /\ s.item # Gone
    THEN view' = s.item /\ history' = Grown(view, s.item)
    ELSE UNCHANGED <<view, history>>

SaveServices(s) ==
    IF s.known /\ s.item # Gone
    THEN view' = s.item /\ history' = Grown(view, s.item)
    ELSE IF s.full THEN view' = NoneYet /\ history' = 0
    ELSE UNCHANGED <<view, history>>

\* The end of a cycle: what the agent and the counters of the past take from it.
Ends(reached, core, ok) ==
    /\ cycle' = [NoCycle EXCEPT !.bad = cycle.bad, !.reached = reached /\ cycle.reached, !.core = core]
    /\ clean' = IF ok THEN CountUp(clean, FullEvery) ELSE 0
    /\ newCycles' = IF oldServer \/ ~reached \/ cycle.bad \/ ~compat'.degraded THEN 0 ELSE CountUp(newCycles, ProbeEvery + 1)

Healthy == [degraded |-> FALSE, sinceProbe |-> 0]

\* The full payload is stored (204).  A stored report is a fault of the list
\* when it carries none, or when SaveServices fails, which is only logged.
FullStored(saved) ==
    /\ cycle.pc = "full" /\ ~oldServer /\ ~cycle.bad
    /\ IF saved THEN SaveServices(cycle.section) ELSE UNCHANGED <<view, history>>
    /\ compat' = Healthy
    /\ Ends(TRUE, TRUE, saved /\ cycle.section.known /\ late = NoneYet)
    /\ UNCHANGED <<unit, restarted, last, fullAge, late, oldServer>>

\* No connection, a timeout, 401, 429 or 5xx: not a matter of compatibility.
\* What the server had taken may still be stored later.
SendFails(kept) ==
    /\ cycle.pc \in {"full", "core"}
    /\ late' = IF kept /\ cycle.pc = "full" /\ ~oldServer /\ ~cycle.bad THEN cycle.section ELSE late
    /\ UNCHANGED compat
    /\ Ends(FALSE, FALSE, FALSE)
    /\ UNCHANGED <<unit, restarted, last, fullAge, oldServer, view, history>>

\* 400 to the full payload: in the same cycle the core payload.
FullRefused ==
    /\ cycle.pc = "full" /\ (oldServer \/ cycle.bad)
    /\ cycle' = [cycle EXCEPT !.pc = "core"]
    /\ UNCHANGED <<unit, restarted, last, fullAge, compat, late, oldServer, view, history, clean, newCycles>>

\* The core payload is taken by every server; it has no services section.
CoreStored ==
    /\ cycle.pc = "core" /\ ~cycle.bad
    /\ compat' = IF compat.degraded THEN compat ELSE [degraded |-> TRUE, sinceProbe |-> 0]
    /\ Ends(TRUE, TRUE, FALSE)
    /\ UNCHANGED <<unit, restarted, last, fullAge, late, oldServer, view, history>>

\* 400 to the core payload too: the values are at fault, the mode stays.
CoreRefused ==
    /\ cycle.pc = "core" /\ cycle.bad
    /\ UNCHANGED compat
    /\ Ends(TRUE, FALSE, FALSE)
    /\ UNCHANGED <<unit, restarted, last, fullAge, late, oldServer, view, history>>

-----------------------------------------------------------------------------
(* The server. *)

\* The report the agent has given up is stored now, or its query is cancelled.
LateStored(saved) ==
    /\ late # NoneYet
    /\ IF saved THEN SaveServices(late) ELSE UNCHANGED <<view, history>>
    /\ late' = NoneYet /\ clean' = 0
    /\ UNCHANGED <<unit, restarted, last, fullAge, compat, cycle, oldServer, newCycles>>

\* The server is updated, or rolled back.
Replace ==
    /\ oldServer' = ~oldServer /\ newCycles' = 0
    /\ UNCHANGED <<unit, restarted, last, fullAge, compat, cycle, late, view, history, clean>>

ReportsNext ==
    \/ \E u \in Units \cup {Gone} : UnitChanges(u)
    \/ UnitRestarts
    \/ \E known \in BOOLEAN, bad \in BOOLEAN : Build(known, bad)
    \/ \E saved \in BOOLEAN : FullStored(saved) \/ LateStored(saved)
    \/ \E kept \in BOOLEAN : SendFails(kept)
    \/ FullRefused \/ CoreStored \/ CoreRefused \/ Replace

ReportsSpec == ReportsInit /\ [][ReportsNext]_rvars

-----------------------------------------------------------------------------
Row(u) == IF u = Gone THEN NoneYet ELSE u

\* Whatever was lost, refused, stored out of order or removed, FullEvery
\* reports in a row that are stored bring the stored list back to what the
\* agent last sent: lastFull counts lists that were built, not lists that arrived
\* (serviceReporter.next, services.go:38-58; SaveServices, host_services.go:74-78).
ListHeals ==
    cycle.pc = "idle" /\ clean = FullEvery => view = Row(last)

\* A service in trouble is shown in trouble by the first report that is stored
\* after a fault, full list or not (troubled, services.go:60-67).
TroubleShown ==
    cycle.pc = "idle" /\ clean >= 1 /\ last # Gone /\ last.st = "failed" => view = last

\* The restarts an alert counts are restarts of the service, also when its
\* counter begins again or an older report is stored after a newer one
\* (restart_history, host_services.go:48-66).
RestartsReal == history <= restarted

\* An agent that fell back to the core payload sends everything again within
\* ProbeEvery valid cycles that reach an updated server (Compat.Push, compat.go:46-56).
DegradedEnds == compat.degraded => newCycles <= ProbeEvery

\* A cycle whose sends were all answered, and whose values are valid, has
\* stored the core metrics, whichever server answered (compat.go:57-73).
CoreNotLost == cycle.pc = "idle" /\ cycle.reached /\ ~cycle.bad => cycle.core

\* What the server knows of the services becomes true again after lost, late
\* and refused reports, at once for a service in trouble; and the fallback for
\* an old server loses no core metrics and ends (services.go, compat.go,
\* host_services.go).
ReportsHeal ==
    ReportsTypeOK /\ ListHeals /\ TroubleShown /\ RestartsReal /\ DegradedEnds /\ CoreNotLost
=============================================================================
