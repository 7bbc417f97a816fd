----------------------------- MODULE Migrations -----------------------------
(***************************************************************************)
(* Schema migrations (internal/migrate, cmd/server/migrate.go).  Server    *)
(* copies that start together and operators' commands (up, status,         *)
(* baseline) run against one database, possibly with binaries of different *)
(* versions; each holds the advisory lock of its connection.  A statement  *)
(* may fail and a process or its connection may be cut at any point: the   *)
(* database then rolls back and frees the lock.  The database may be       *)
(* empty or set up by hand before there was a history.                     *)
(***************************************************************************)
EXTENDS Integers, Sequences, FiniteSets, FiniteSetsExt, SequencesExt

CONSTANTS
    Runners,      \* processes
    NoRunner,     \* the lock is free
    Binaries,     \* the scripts a binary embeds: version |-> contents (checksum)
    ByHand,       \* what a schema set up by hand may contain, in the same form
    NoTable,      \* there is no history table
    MaxCommands,  \* bound: commands
    MaxCuts       \* bound: failures

Versions == UNION {DOMAIN b : b \in Binaries \cup ByHand}
Checksums == UNION {{b[v] : v \in DOMAIN b} : b \in Binaries \cup ByHand}

\* Every binary embeds 000001_baseline, and a schema set up by hand is that of
\* a release: it lacks no script below the ones it has.
ASSUME MigrationsAssumption ==
    /\ \A b \in Binaries \cup ByHand :
          b = [v \in DOMAIN b |-> b[v]] /\ IsFiniteSet(DOMAIN b) /\ DOMAIN b \subseteq Nat \ {0}
    /\ Binaries # {} /\ \A b \in Binaries : 1 \in DOMAIN b
    /\ \A f \in ByHand, b \in Binaries : \A w \in DOMAIN f, v \in DOMAIN b : v < w => v \in DOMAIN f
    /\ MaxCommands \in Nat /\ MaxCuts \in Nat
    /\ NoRunner \notin Runners
    /\ \A D \in SUBSET Versions : NoTable \notin [D -> Checksums]

VARIABLES
    dbSchema,   \* the scripts whose changes are in the schema, in the order they ran
    dbHistory,  \* healthbeat_migrations
    advisory,   \* holder of the advisory lock
    runner,     \* the commands under way
    commands, cuts,
    misled      \* a baseline named something else than the schema contains

mvars == <<dbSchema, dbHistory, advisory, runner, commands, cuts, misled>>

Script(v, c) == [v |-> v, c |-> c]
Contents(schema) == [v \in {s.v : s \in ToSet(schema)} |-> (CHOOSE s \in ToSet(schema) : s.v = v).c]
Ascending(S) ==
    CHOOSE s \in [1..Cardinality(S) -> S] :
        ToSet(s) = S /\ \A i, j \in DOMAIN s : i < j => s[i] < s[j]
InOrderOf(f) == LET vs == Ascending(DOMAIN f) IN [i \in DOMAIN vs |-> Script(vs[i], f[vs[i]])]

NoCommand == [pc |-> "idle"]
Goes(r, pc) == [runner EXCEPT ![r].pc = pc]

-----------------------------------------------------------------------------
(* A command begins and takes the lock *)

Command(r, op, b, v) ==
    /\ runner[r] = NoCommand /\ commands < MaxCommands
    /\ runner' = [runner EXCEPT ![r] = [pc |-> "wait", op |-> op, bin |-> b, upto |-> v, todo |-> <<>>]]
    /\ commands' = commands + 1
    /\ UNCHANGED <<dbSchema, dbHistory, advisory, cuts, misled>>

\* lock
Lock(r) ==
    /\ runner[r].pc = "wait" /\ advisory = NoRunner
    /\ advisory' = r
    /\ runner' = Goes(r, "locked")
    /\ UNCHANGED <<dbSchema, dbHistory, commands, cuts, misled>>

\* release: the deferred unlock, after success and after an error.
Release(r) ==
    /\ runner[r].pc \in {"ok", "refused"}
    /\ advisory' = IF advisory = r THEN NoRunner ELSE advisory
    /\ runner' = [runner EXCEPT ![r] = NoCommand]
    /\ UNCHANGED <<dbSchema, dbHistory, commands, cuts, misled>>

-----------------------------------------------------------------------------
(* What is read and decided under the lock *)

HistoryRows == IF dbHistory = NoTable THEN <<>> ELSE dbHistory

\* appliedRows: tables without a history.
Legacy == dbHistory = NoTable /\ dbSchema # <<>>

Pending(b) == DOMAIN b \ DOMAIN HistoryRows

\* plan: no newer database, no edited script, nothing out of order.
PlanAccepts(b) ==
    /\ DOMAIN HistoryRows \subseteq DOMAIN b
    /\ \A v \in DOMAIN HistoryRows : HistoryRows[v] = b[v]
    /\ \A v \in Pending(b), a \in DOMAIN HistoryRows : v > a

\* Up, RequireUpToDate, Status
Plan(r) ==
    /\ runner[r].pc = "locked" /\ runner[r].op # "baseline"
    /\ LET b == runner[r].bin
           refused == Legacy \/ ~PlanAccepts(b) \/ (runner[r].op = "require" /\ Pending(b) # {})
           todo == IF refused \/ runner[r].op # "up" THEN <<>> ELSE Ascending(Pending(b))
       IN  runner' = [runner EXCEPT ![r].todo = todo,
                                    ![r].pc = CASE refused -> "refused"
                                                [] ~refused /\ todo # <<>> -> "ensure"
                                                [] OTHER -> "ok"]
    /\ UNCHANGED <<dbSchema, dbHistory, advisory, commands, cuts, misled>>

\* Baseline up to ensureHistoryTable: a known version, and no history yet.
PlanBaseline(r) ==
    /\ runner[r].pc = "locked" /\ runner[r].op = "baseline"
    /\ runner' = Goes(r, IF runner[r].upto \in DOMAIN runner[r].bin /\ HistoryRows = <<>> THEN "ensure" ELSE "refused")
    /\ UNCHANGED <<dbSchema, dbHistory, advisory, commands, cuts, misled>>

\* ensureHistoryTable, a statement of its own.
EnsureHistoryTable(r) ==
    /\ runner[r].pc = "ensure"
    /\ dbHistory' = HistoryRows
    /\ runner' = Goes(r, IF runner[r].op = "baseline" THEN "mark" ELSE "next")
    /\ UNCHANGED <<dbSchema, advisory, commands, cuts, misled>>

-----------------------------------------------------------------------------
(* apply: the script, its row in the history, the commit *)

\* The script of an open transaction; it fails where its tables exist.
RunScript(r) ==
    /\ runner[r].pc = "next"
    /\ runner' = Goes(r, IF Head(runner[r].todo) \in DOMAIN Contents(dbSchema) THEN "refused" ELSE "ran")
    /\ UNCHANGED <<dbSchema, dbHistory, advisory, commands, cuts, misled>>

Recorded(v, c) == [x \in DOMAIN HistoryRows \cup {v} |-> IF x = v THEN c ELSE HistoryRows[x]]

\* (mutant) the row is committed before the script runs
CommitScriptRowFirst(r) ==
    /\ runner[r].pc = "ran"
    /\ LET v == Head(runner[r].todo)
           c == runner[r].bin[v]
       IN  IF v \in DOMAIN HistoryRows
           THEN /\ dbSchema' = Append(dbSchema, Script(v, c))
                /\ runner' = [runner EXCEPT ![r].todo = Tail(@), ![r].pc = IF Len(runner[r].todo) = 1 THEN "ok" ELSE "next"]
                /\ UNCHANGED dbHistory
           ELSE dbHistory' = Recorded(v, c) /\ UNCHANGED <<dbSchema, runner>>
    /\ UNCHANGED <<advisory, commands, cuts, misled>>

\* The row and the commit; the version is the history's primary key.
CommitScript(r) ==
    /\ runner[r].pc = "ran"
    /\ LET v == Head(runner[r].todo)
           c == runner[r].bin[v]
       IN  IF v \in DOMAIN HistoryRows
           THEN runner' = Goes(r, "refused") /\ UNCHANGED <<dbSchema, dbHistory>>
           ELSE /\ dbSchema' = Append(dbSchema, Script(v, c))
                /\ dbHistory' = Recorded(v, c)
                /\ runner' = [runner EXCEPT ![r].todo = Tail(@), ![r].pc = IF Len(runner[r].todo) = 1 THEN "ok" ELSE "next"]
    /\ UNCHANGED <<advisory, commands, cuts, misled>>

\* Baseline's transaction: the rows up to the version, no script.
Mark(r) ==
    /\ runner[r].pc = "mark"
    /\ dbHistory' = [v \in {x \in DOMAIN runner[r].bin : x <= runner[r].upto} |-> runner[r].bin[v]]
    /\ misled' = (misled \/ dbHistory' # Contents(dbSchema))
    /\ runner' = Goes(r, "ok")
    /\ UNCHANGED <<dbSchema, advisory, commands, cuts>>

-----------------------------------------------------------------------------
(* Failures *)

\* A statement fails: the transaction is rolled back and an error returned.
StatementFails(r) ==
    /\ runner[r].pc \in {"locked", "ensure", "next", "ran", "mark"} /\ cuts < MaxCuts
    /\ cuts' = cuts + 1
    /\ runner' = Goes(r, "refused")
    /\ UNCHANGED <<dbSchema, dbHistory, advisory, commands, misled>>

\* The process or its connection ends.
Cut(r) ==
    /\ runner[r] # NoCommand /\ cuts < MaxCuts
    /\ cuts' = cuts + 1
    /\ runner' = [runner EXCEPT ![r] = NoCommand]
    /\ advisory' = IF advisory = r THEN NoRunner ELSE advisory
    /\ UNCHANGED <<dbSchema, dbHistory, commands, misled>>

MigInit ==
    /\ dbSchema \in {<<>>} \cup {InOrderOf(f) : f \in ByHand}
    /\ dbHistory = NoTable /\ advisory = NoRunner
    /\ runner = [r \in Runners |-> NoCommand]
    /\ commands = 0 /\ cuts = 0 /\ misled = FALSE

MigNext ==
    \/ \E r \in Runners, b \in Binaries :
          (\E op \in {"up", "require", "status"} : Command(r, op, b, 0)) \/ \E v \in 1..3 : Command(r, "baseline", b, v)
    \/ \E r \in Runners :
          \/ Lock(r) \/ Plan(r) \/ PlanBaseline(r) \/ EnsureHistoryTable(r) \/ RunScript(r) \/ CommitScript(r) \/ Mark(r)
          \/ Release(r) \/ StatementFails(r) \/ Cut(r)

MigSpec == MigInit /\ [][MigNext]_mvars

MigTypeOK ==
    /\ \A s \in ToSet(dbSchema) : s.v \in Nat
    /\ advisory \in Runners \cup {NoRunner}
    /\ \A r \in Runners :
          runner[r].pc \in {"idle", "wait", "locked", "ensure", "next", "ran", "mark", "ok", "refused"}
    /\ commands \in 0..MaxCommands /\ cuts \in 0..MaxCuts /\ misled \in BOOLEAN

-----------------------------------------------------------------------------
(* Properties *)

\* The history says what the schema is: whatever fails or is cut, no script
\* is left half done or done without its row, and none has a row that it did
\* not earn, unless an operator's baseline claimed it wrongly.
HistoryTrue == (~misled /\ HistoryRows # <<>>) => HistoryRows = Contents(dbSchema)

\* Scripts reach the schema in the order of their versions and each once,
\* also when copies with different binaries start at the same time.
ScriptsInOrder == \A i, j \in DOMAIN dbSchema : i < j => dbSchema[i].v < dbSchema[j].v

\* A server that has come through prepareSchema stands on the schema its
\* binary was written for, to the contents of every script.
ReadyOnOwnSchema ==
    \A r \in Runners : runner[r].pc = "ok" =>
        (runner[r].op \in {"up", "require"} /\ ~misled => Contents(dbSchema) = runner[r].bin)

\* "a database that has tables but no migration history is never taken for
\* empty" (package comment of migrate.go): no script is tried on it.
LegacyNeverTakenForEmpty ==
    \A r \in Runners : runner[r].pc \in {"next", "ran"} => (HistoryRows = <<>> => dbSchema = <<>>)

\* Copies of the server that start together, with any binaries, cut at any
\* point, keep schema and history together (migrate.go: lock, apply, Up,
\* RequireUpToDate, Baseline): the history is true, scripts run in order, and
\* whoever goes on to serve has the schema it was written for.
SchemaTrusted == MigTypeOK /\ HistoryTrue /\ ScriptsInOrder /\ ReadyOnOwnSchema
=============================================================================
