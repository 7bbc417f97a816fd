----------------------------- MODULE HostState -----------------------------
(***************************************************************************)
(* A report recorded by the server (ingest/ingest.go Record): the order of *)
(* its steps, the instant state and its OOM counter (model NextSystemState,*)
(* oomIncreased) and the inventory kept in two tables (store/hosts.go      *)
(* MarkOnline, splitHostInfo, mergeHostInfo).                              *)
(*                                                                         *)
(* Two reports of one host may be recorded at once: a pull answer and a    *)
(* push, or a push the agent gave up and its next one.  Each step of       *)
(* Record is a statement of its own.                                       *)
(***************************************************************************)
EXTENDS Naturals, FiniteSets

CONSTANTS
    Recs,      \* reports being recorded
    Unknown,   \* a field that a report does not carry
    MaxKills   \* bound: OOM kills

ASSUME HostStateAssumption == MaxKills \in Nat /\ Unknown \notin Nat /\ Unknown \notin Recs

VARIABLES
    kills,      \* the machine's OOM counter
    rec,        \* the reports: step, payload and what Record has read
    sysState,   \* host_status.system_state
    runtime,    \* host_status.runtime: the report it came from
    inventory,  \* host_inventory: the report the hostname and the info came from
    noticed,    \* the kills that an evaluation was told of
    gap,        \* the counter was once not known to Record, or began again
    crossed,    \* the reports with an inventory that are between the two statements
                \* of MarkOnline at once with another one
    torn        \* reports with an inventory have crossed there, or one failed there,
                \* and none has passed since that did neither

hvars == <<kills, rec, sysState, runtime, inventory, noticed, gap, crossed, torn>>

Counters == 0..MaxKills \cup {Unknown}
NoRec == [pc |-> "none", oom |-> Unknown, info |-> FALSE, prev |-> Unknown]
Steps == {"none", "insert", "prev", "status", "inventory", "evaluate"}

StateTypeOK ==
    /\ kills \in 0..MaxKills
    /\ rec \in [Recs -> [pc: Steps, oom: Counters, info: BOOLEAN, prev: Counters]]
    /\ sysState \in Counters
    /\ runtime \in Recs \cup {Unknown}
    /\ inventory \in Recs \cup {Unknown}
    /\ noticed \subseteq 1..MaxKills
    /\ gap \in BOOLEAN /\ crossed \subseteq Recs /\ torn \in BOOLEAN

\* A host that has reported: the counter is stored, the inventory is not yet.
StateInit ==
    /\ kills = 0 /\ rec = [r \in Recs |-> NoRec]
    /\ sysState = 0 /\ runtime = Unknown
    /\ inventory = Unknown
    /\ noticed = {} /\ gap = FALSE /\ crossed = {} /\ torn = FALSE

At(r, pc) == rec[r].pc = pc
Step(r, pc) == rec' = [rec EXCEPT ![r].pc = pc]

-----------------------------------------------------------------------------
\* The agent sends: the counter unless memory could not be read, and the
\* inventory unless it is an old agent or a core payload.
Receive(r, oom, info) ==
    /\ At(r, "none") /\ oom \in {kills, Unknown}
    /\ rec' = [rec EXCEPT ![r] = [pc |-> "insert", oom |-> oom, info |-> info, prev |-> Unknown]]
    /\ gap' = (gap \/ oom = Unknown)
    /\ UNCHANGED <<kills, sysState, runtime, inventory, noticed, crossed, torn>>

\* metrics.Insert; when it fails nothing else is done.  The containers are
\* replaced next, and a failure there is only logged.
Insert(r, ok) ==
    /\ At(r, "insert")
    /\ IF ok THEN Step(r, "prev") ELSE rec' = [rec EXCEPT ![r] = NoRec]
    /\ UNCHANGED <<kills, sysState, runtime, inventory, noticed, gap, crossed, torn>>

\* hosts.SystemState; when it fails the new state is built from this report alone.
ReadState(r, ok) ==
    /\ At(r, "prev")
    /\ rec' = [rec EXCEPT ![r].pc = "status", ![r].prev = IF ok THEN sysState ELSE Unknown]
    /\ gap' = (gap \/ ~ok)
    /\ UNCHANGED <<kills, sysState, runtime, inventory, noticed, crossed, torn>>

\* NextSystemState: of the counter only what this report says is kept.
NextSystemState(r) == rec[r].oom

\* The reports with an inventory that are between the statements of MarkOnline.
Between == {r \in Recs : At(r, "inventory") /\ rec[r].info}

\* MarkOnline, first statement; the second is not tried when it fails.
UpdateStatus(r, ok) ==
    /\ At(r, "status")
    /\ IF ok
       THEN /\ sysState' = NextSystemState(r)
            /\ runtime' = IF rec[r].info THEN r ELSE runtime
            /\ Step(r, "inventory")
            /\ IF rec[r].info /\ Between # {}
               THEN crossed' = Between \cup {r} /\ torn' = TRUE
               ELSE UNCHANGED <<crossed, torn>>
       ELSE Step(r, "evaluate") /\ UNCHANGED <<sysState, runtime, crossed, torn>>
    /\ UNCHANGED <<kills, inventory, noticed, gap>>

\* MarkOnline, second statement (splitHostInfo, the CASE expressions): a
\* reported inventory replaces the stored one whole, without one everything is
\* kept.  SaveServices follows.
UpdateInventory(r, ok) ==
    /\ At(r, "inventory")
    /\ inventory' = IF ok /\ rec[r].info THEN r ELSE inventory
    /\ torn' = IF rec[r].info /\ (~ok \/ r \notin crossed) THEN ~ok ELSE torn
    /\ crossed' = crossed \ {r}
    /\ Step(r, "evaluate")
    /\ UNCHANGED <<kills, sysState, runtime, noticed, gap>>

\* (mutant) the increase is looked for in the state as it is by now
IncreasedByNow(r) == rec[r].oom # Unknown /\ sysState # Unknown /\ rec[r].oom > sysState

\* oomIncreased: the counter is above the one Record has read.
Increased(r) == rec[r].oom # Unknown /\ rec[r].prev # Unknown /\ rec[r].oom > rec[r].prev

\* engine.EvaluateReport, whatever the steps before came to.
Evaluate(r) ==
    /\ At(r, "evaluate")
    /\ noticed' = IF Increased(r) THEN noticed \cup (rec[r].prev + 1)..rec[r].oom ELSE noticed
    /\ rec' = [rec EXCEPT ![r] = NoRec]
    /\ UNCHANGED <<kills, sysState, runtime, inventory, gap, crossed, torn>>

\* The machine: a process is killed; a restart sets the counter to zero.
Kill ==
    /\ kills < MaxKills
    /\ kills' = kills + 1
    /\ UNCHANGED <<rec, sysState, runtime, inventory, noticed, gap, crossed, torn>>

Reboot ==
    /\ kills > 0
    /\ kills' = 0 /\ gap' = TRUE
    /\ UNCHANGED <<rec, sysState, runtime, inventory, noticed, crossed, torn>>

StateNext ==
    \/ \E r \in Recs, oom \in Counters, info \in BOOLEAN : Receive(r, oom, info)
    \/ \E r \in Recs, ok \in BOOLEAN : Insert(r, ok) \/ ReadState(r, ok) \/ UpdateStatus(r, ok) \/ UpdateInventory(r, ok)
    \/ \E r \in Recs : Evaluate(r)
    \/ Kill \/ Reboot

StateSpec == StateInit /\ [][StateNext]_hvars

-----------------------------------------------------------------------------
\* The inventory a reader is given: the part split off into host_status is
\* put together again with the part in host_inventory.
mergeHostInfo == [info |-> inventory, runtime |-> runtime]

\* While every report carries the counter and the machine is not restarted,
\* every kill the stored counter stands for was told to an evaluation, or will
\* be by a report that is past the statement that stored it: also when two
\* reports read the same previous state, or the older one is stored last
\* (Record, ingest.go:80-98; NextSystemState, ingest_v4.go:789-805).
KillNoticed ==
    ~gap =>
        \A k \in 1..MaxKills :
            sysState >= k =>
                k \in noticed
                \/ \E r \in Recs : rec[r].pc \in {"inventory", "evaluate"} /\ Increased(r)
                                   /\ k \in (rec[r].prev + 1)..rec[r].oom

\* MarkOnline writes the two tables in two statements and no transaction, so
\* two reports may leave the runtime of one beside the information of the
\* other.  That takes two reports with an inventory between the statements at
\* once, or a failure of the second statement, and lasts no longer than until a
\* report with an inventory passes both without either: then, and as long as
\* nothing of the kind happens, the tables stand for one report, whatever
\* reports without an inventory, and failures elsewhere in Record, come between
\* (MarkOnline, hosts.go:467-515; mergeHostInfo, hosts.go:71-93).
InventoryWhole ==
    ~torn /\ Between = {} => mergeHostInfo.runtime = mergeHostInfo.info

\* The statements of two reports in any order and any of them failing swallow
\* no OOM kill while the counter is known; inventories are mixed by crossed or
\* half failed reports only, and until the next whole one (ingest.go, hosts.go).
RecordWhole == StateTypeOK /\ KillNoticed /\ InventoryWhole
=============================================================================
