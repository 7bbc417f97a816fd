--------------------------- MODULE AlertLifecycle ---------------------------
(***************************************************************************)
(* The life of the alerts of one key (host, alert type, subject):          *)
(* alertengine/engine.go and dispatch.go over table alerts.                *)
(*                                                                         *)
(* Every report of a host is evaluated by a goroutine of its own, and      *)
(* nothing serialises two reports of one host: an evaluator reads the      *)
(* active alert once (loadState), later reads the maintenance windows and  *)
(* the recipients (prepare), and only then changes the alert and queues    *)
(* the notification, in one transaction (change).  Meanwhile a user may    *)
(* acknowledge the alert, a maintenance window may begin or end, and the   *)
(* deferred-notification job (FlushDeferred) of every replica looks for    *)
(* marked alerts.  A transaction is one action; statements outside a       *)
(* transaction are actions of their own.                                   *)
(*                                                                         *)
(* mail[a] is the sequence of notifications queued for alert a; what       *)
(* becomes of them is module Outbox.  Left out: measured values and        *)
(* message texts, the other keys of the host, the duration condition       *)
(* (module AlertDuration), and removal of old resolved alerts.             *)
(***************************************************************************)
EXTENDS Integers, Sequences

CONSTANTS
    AlertIds,     \* alert ids (UUIDs, never reused)
    Evaluators,   \* goroutines that evaluate reports of the host
    Flushers,     \* replicas that run the deferred-notification job
    Levels,       \* the levels readings can reach
    Routed,       \* levels for which some deliverable recipient exists
    NoAlert,      \* "no active alert"
    MaxReports,   \* bound on the reports evaluated
    MaxWindows,   \* bound on the maintenance windows begun
    MaxFaults     \* bound on failed statements, aborted transactions, crashes

AllLevels == {"info", "warning", "critical"}
Normal == "normal"    \* a reading below every threshold

ASSUME LevelsAssumption == Levels \subseteq AllLevels /\ Levels # {} /\ Routed \subseteq Levels
ASSUME ActorsAssumption == Evaluators \cap Flushers = {}
ASSUME LimitsAssumption == MaxReports \in Nat /\ MaxWindows \in Nat /\ MaxFaults \in Nat

Actors == Evaluators \cup Flushers
Snapshot == [id : AlertIds, status : {"open", "acknowledged"}, level : Levels, marked : BOOLEAN]
Message == [event : {"opened", "level_changed", "resolved"}, level : Levels]
Plans == {"deferred", "nobody", "told"}

\* NULL is no row.
ASSUME NoAlertAssumption == NoAlert \notin Snapshot

VARIABLES
    status,   \* alerts.status, "none" before the alert is created
    level,    \* alerts.level
    marked,   \* alerts with notify_pending set
    mail,     \* notifications queued per alert, in the order they were queued
    maint,    \* is the host in maintenance?
    pc,       \* where each evaluator and each flusher is
    want,     \* the level of the reading an evaluator works on
    snap,     \* the alert row it (or a flusher) has read
    plan,     \* what prepare found: "deferred", "nobody" or "told"
    reports, windows, faults

table == <<status, level, marked, mail>>
local == <<pc, want, snap, plan>>
vars == <<status, level, marked, mail, maint, pc, want, snap, plan, reports, windows, faults>>

TypeOK ==
    /\ status \in [AlertIds -> {"none", "open", "acknowledged", "resolved"}]
    /\ level \in [AlertIds -> Levels]
    /\ marked \in SUBSET AlertIds
    /\ mail \in [AlertIds -> Seq(Message)]
    /\ maint \in BOOLEAN
    /\ pc \in [Actors -> {"idle", "loaded", "ready", "conflict", "fix", "read"}]
    /\ want \in [Actors -> Levels \cup {Normal}]
    /\ snap \in [Actors -> Snapshot \cup {NoAlert}]
    /\ plan \in [Actors -> Plans]
    /\ reports \in 0..MaxReports /\ windows \in 0..MaxWindows /\ faults \in 0..MaxFaults

\* Whoever goes on to change an alert holds the row it has read.
Shape ==
    /\ \A e \in Evaluators :
          /\ pc[e] \in {"loaded", "ready"} => (want[e] = Normal => snap[e] # NoAlert)
          /\ pc[e] \in {"conflict", "fix"} => want[e] # Normal
          /\ pc[e] = "fix" => snap[e] # NoAlert
    /\ \A f \in Flushers : pc[f] \in {"loaded", "ready", "read"} => snap[f] # NoAlert

-----------------------------------------------------------------------------
(* Reading and writing the table                                           *)

LevelRank(l) == IF l = "critical" THEN 2 ELSE IF l = "warning" THEN 1 ELSE 0

Active(a) == status[a] \in {"open", "acknowledged"}

NoneActive == \A a \in AlertIds : ~Active(a)

RowOf(a) == [id |-> a, status |-> status[a], level |-> level[a], marked |-> a \in marked]

\* SELECT ... WHERE status <> 'resolved'
ActiveRow == IF NoneActive THEN NoAlert ELSE RowOf(CHOOSE a \in AlertIds : Active(a))

\* Only a rise takes the acknowledgement away.
ReopensOnLevelChange(s, l) ==
    s.status = "acknowledged" /\ LevelRank(l) > LevelRank(s.level)

\* (mutant) UPDATE without "AND status <> 'resolved'"
UpdateLevelAny(a, l, reopen) ==
    /\ level' = [level EXCEPT ![a] = l]
    /\ status' = [status EXCEPT ![a] = IF reopen THEN "open" ELSE @]

\* UPDATE alerts SET level = l, ... WHERE id = a AND status <> 'resolved'
UpdateLevel(a, l, reopen) ==
    /\ level' = IF Active(a) THEN [level EXCEPT ![a] = l] ELSE level
    /\ status' = IF Active(a) /\ reopen THEN [status EXCEPT ![a] = "open"] ELSE status

-----------------------------------------------------------------------------
(* The notification half of change().  known is the notify_pending of the  *)
(* alert value that the change returned, p what prepare had found.         *)

\* n failures happen, as far as the bound allows.
Faulty(n) == faults' = faults + n /\ faults' <= MaxFaults

Silent(event, known, p) == p = "deferred" \/ (event = "resolved" /\ known) \/ p = "nobody"

MarkAfter(a, event, known, p) ==
    IF p = "deferred" /\ event # "resolved" THEN marked \cup {a}
    ELSE IF p = "nobody" /\ ~known THEN marked
    ELSE marked \ {a}

\* (mutant) a resolution is told although the alert itself never was
NotifyUntold(a, event, l, known, p) ==
    /\ marked' = MarkAfter(a, event, known, p)
    /\ mail' = IF p # "told" THEN mail
               ELSE [mail EXCEPT ![a] = Append(@, [event |-> event, level |-> l])]
    /\ UNCHANGED faults

\* Marks and rows are written at a savepoint: when that fails the change of
\* the alert is committed all the same.
Notify(a, event, l, known, p) ==
    \/ /\ marked' = MarkAfter(a, event, known, p)
       /\ mail' = IF Silent(event, known, p) THEN mail
                  ELSE [mail EXCEPT ![a] = Append(@, [event |-> event, level |-> l])]
       /\ UNCHANGED faults
    \/ Faulty(1) /\ UNCHANGED <<marked, mail>>

-----------------------------------------------------------------------------
(* One report: loadState, apply, resolveAndNotify / changeLevel / open     *)

Init ==
    /\ status = [a \in AlertIds |-> "none"]
    /\ level = [a \in AlertIds |-> CHOOSE l \in Levels : TRUE]
    /\ marked = {}
    /\ mail = [a \in AlertIds |-> <<>>]
    /\ maint \in IF MaxWindows > 0 THEN BOOLEAN ELSE {FALSE}
    /\ pc = [x \in Actors |-> "idle"]
    /\ want = [x \in Actors |-> Normal]
    /\ snap = [x \in Actors |-> NoAlert]
    /\ plan = [x \in Actors |-> "nobody"]
    /\ reports = 0 /\ windows = 0 /\ faults = 0

\* The evaluation, or the pass over one marked alert, is over and its local
\* variables are gone.
Return(x) ==
    /\ pc' = [pc EXCEPT ![x] = "idle"]
    /\ want' = [want EXCEPT ![x] = Normal]
    /\ snap' = [snap EXCEPT ![x] = NoAlert]
    /\ plan' = [plan EXCEPT ![x] = "nobody"]

Done(x) == Return(x) /\ UNCHANGED <<maint, reports, windows>>

\* Does a reading of level l call for a change, given the alert that was read?
Changes(s, l) == IF s = NoAlert THEN l # Normal ELSE l # s.level

\* loadState; a reading that changes nothing ends the evaluation.
Load(e, l) ==
    /\ pc[e] = "idle" /\ reports < MaxReports
    /\ reports' = reports + 1
    /\ IF Changes(ActiveRow, l)
       THEN /\ want' = [want EXCEPT ![e] = l]
            /\ snap' = [snap EXCEPT ![e] = ActiveRow]
            /\ pc' = [pc EXCEPT ![e] = "loaded"]
       ELSE UNCHANGED <<want, snap, pc>>
    /\ UNCHANGED <<table, maint, plan, windows, faults>>

\* What prepare finds for level l.  Windows that cannot be read count as no
\* maintenance, recipients that cannot be read as no recipients.
Prepared(l) ==
    LET read == IF l \in Routed THEN "told" ELSE "nobody"
    IN  {[fault |-> 0, plan |-> IF maint THEN "deferred" ELSE read],
         [fault |-> 1, plan |-> IF maint THEN read ELSE "nobody"]}

\* prepare before the transaction: for the new level, or for the level of
\* the alert that is about to be resolved.
PrepareChange(e) ==
    /\ pc[e] = "loaded"
    /\ \E p \in Prepared(IF want[e] = Normal THEN snap[e].level ELSE want[e]) :
          /\ Faulty(p.fault)
          /\ plan' = [plan EXCEPT ![e] = p.plan]
    /\ pc' = [pc EXCEPT ![e] = "ready"]
    /\ UNCHANGED <<table, maint, want, snap, reports, windows>>

\* (mutant) Resolve without "AND status <> 'resolved'"
CommitResolveAgain(e) ==
    /\ pc[e] = "ready" /\ want[e] = Normal
    /\ LET a == snap[e].id
       IN  /\ status' = [status EXCEPT ![a] = "resolved"]
           /\ Notify(a, "resolved", level[a], a \in marked, plan[e])
    /\ UNCHANGED level
    /\ Done(e)

\* resolveAndNotify; an alert somebody else resolved is left alone.
CommitResolve(e) ==
    /\ pc[e] = "ready" /\ want[e] = Normal
    /\ LET a == snap[e].id
       IN  IF Active(a)
           THEN /\ status' = [status EXCEPT ![a] = "resolved"]
                /\ Notify(a, "resolved", level[a], a \in marked, plan[e])
           ELSE UNCHANGED <<status, marked, mail, faults>>
    /\ UNCHANGED level
    /\ Done(e)

\* (mutant) apply goes on to changeLevel after a reading below the thresholds
CommitLevelBelow(e) ==
    /\ pc[e] = "ready" /\ snap[e] # NoAlert
    /\ LET s == snap[e]
       IN  /\ UpdateLevel(s.id, want[e], ReopensOnLevelChange(s, want[e]))
           /\ Notify(s.id, "level_changed", want[e], s.marked, plan[e])
    /\ Done(e)

\* changeLevel: decided and notified by the snapshot, whatever the row says
\* now and even when the UPDATE finds no active row.
CommitLevel(e) ==
    /\ pc[e] = "ready" /\ want[e] # Normal /\ snap[e] # NoAlert
    /\ LET s == snap[e]
       IN  /\ UpdateLevel(s.id, want[e], ReopensOnLevelChange(s, want[e]))
           /\ Notify(s.id, "level_changed", want[e], s.marked, plan[e])
    /\ Done(e)

\* (mutant) the alert is inserted without looking for an active one
CommitOpenAlways(e) ==
    /\ pc[e] = "ready" /\ want[e] # Normal /\ snap[e] = NoAlert
    /\ \E a \in AlertIds :
          /\ status[a] = "none"
          /\ status' = [status EXCEPT ![a] = "open"]
          /\ level' = [level EXCEPT ![a] = want[e]]
          /\ Notify(a, "opened", want[e], FALSE, plan[e])
    /\ Done(e)

\* open: INSERT ... ON CONFLICT DO NOTHING decides who opened the alert.
CommitOpen(e) ==
    /\ pc[e] = "ready" /\ want[e] # Normal /\ snap[e] = NoAlert
    /\ NoneActive
    /\ \E a \in AlertIds :
          /\ status[a] = "none"
          /\ status' = [status EXCEPT ![a] = "open"]
          /\ level' = [level EXCEPT ![a] = want[e]]
          /\ Notify(a, "opened", want[e], FALSE, plan[e])
    /\ Done(e)

CommitConflict(e) ==
    /\ pc[e] = "ready" /\ want[e] # Normal /\ snap[e] = NoAlert
    /\ ~NoneActive
    /\ pc' = [pc EXCEPT ![e] = "conflict"]
    /\ UNCHANGED <<table, maint, want, snap, plan, reports, windows, faults>>

\* The loser of that race reads the winner's alert ...
ConflictRead(e) ==
    /\ pc[e] = "conflict"
    /\ IF ~NoneActive /\ Changes(ActiveRow, want[e])
       THEN /\ snap' = [snap EXCEPT ![e] = ActiveRow]
            /\ pc' = [pc EXCEPT ![e] = "fix"]
            /\ UNCHANGED <<want, plan>>
       ELSE Return(e)
    /\ UNCHANGED <<table, maint, reports, windows, faults>>

\* ... and writes its own level over it, without a notification.
FixLevel(e) ==
    /\ pc[e] = "fix"
    /\ UpdateLevel(snap[e].id, want[e], ReopensOnLevelChange(snap[e], want[e]))
    /\ UNCHANGED <<marked, mail, faults>>
    /\ Done(e)

-----------------------------------------------------------------------------
(* FlushDeferred.  The list and the maintenance check come before the      *)
(* transaction; inside it the alert is read without a lock, so the write   *)
(* is a step of its own.                                                   *)

FlushList(f) ==
    /\ pc[f] = "idle"
    /\ \E a \in marked :
          /\ Active(a)
          /\ snap' = [snap EXCEPT ![f] = RowOf(a)]
    /\ pc' = [pc EXCEPT ![f] = "loaded"]
    /\ UNCHANGED <<table, maint, want, plan, reports, windows, faults>>

FlushPrepare(f) ==
    /\ pc[f] = "loaded"
    /\ \E p \in Prepared(snap[f].level) :
          /\ Faulty(p.fault)
          /\ IF p.plan = "deferred"
             THEN Return(f)
             ELSE /\ plan' = [plan EXCEPT ![f] = p.plan]
                  /\ pc' = [pc EXCEPT ![f] = "ready"]
                  /\ UNCHANGED <<want, snap>>
    /\ UNCHANGED <<table, maint, reports, windows>>

\* (mutant) only an open alert is told, not an acknowledged one
FlushReadOpen(f) ==
    /\ pc[f] = "ready"
    /\ LET a == snap[f].id
       IN  IF status[a] = "open" /\ a \in marked
           THEN /\ snap' = [snap EXCEPT ![f] = RowOf(a)]
                /\ pc' = [pc EXCEPT ![f] = "read"]
                /\ UNCHANGED <<want, plan>>
           ELSE Return(f)
    /\ UNCHANGED <<table, maint, reports, windows, faults>>

FlushRead(f) ==
    /\ pc[f] = "ready"
    /\ LET a == snap[f].id
       IN  IF Active(a) /\ a \in marked
           THEN /\ snap' = [snap EXCEPT ![f] = RowOf(a)]
                /\ pc' = [pc EXCEPT ![f] = "read"]
                /\ UNCHANGED <<want, plan>>
           ELSE Return(f)
    /\ UNCHANGED <<table, maint, reports, windows, faults>>

FlushWrite(f) ==
    /\ pc[f] = "read"
    /\ Notify(snap[f].id, "opened", snap[f].level, TRUE, plan[f])
    /\ UNCHANGED <<status, level>>
    /\ Done(f)

-----------------------------------------------------------------------------
(* The surroundings                                                        *)

\* A user acknowledges an open alert.
Acknowledge(a) ==
    /\ status[a] = "open"
    /\ status' = [status EXCEPT ![a] = "acknowledged"]
    /\ UNCHANGED <<level, marked, mail, maint, local, reports, windows, faults>>

BeginMaintenance ==
    /\ ~maint /\ windows < MaxWindows
    /\ maint' = TRUE /\ windows' = windows + 1
    /\ UNCHANGED <<table, local, reports, faults>>

EndMaintenance ==
    /\ maint
    /\ maint' = FALSE
    /\ UNCHANGED <<table, local, reports, windows, faults>>

\* A transaction is rolled back, a statement fails or the process stops: the
\* evaluator or the flusher gives up, what it had not committed is gone.
Abandon(x) ==
    /\ pc[x] # "idle"
    /\ Faulty(1)
    /\ UNCHANGED table
    /\ Done(x)

EvaluatorStep(e) ==
    \/ \E l \in Levels \cup {Normal} : Load(e, l)
    \/ PrepareChange(e) \/ CommitResolve(e) \/ CommitLevel(e)
    \/ CommitOpen(e) \/ CommitConflict(e) \/ ConflictRead(e) \/ FixLevel(e)

FlusherStep(f) == FlushList(f) \/ FlushPrepare(f) \/ FlushRead(f) \/ FlushWrite(f)

Next ==
    \/ \E e \in Evaluators : EvaluatorStep(e)
    \/ \E f \in Flushers : FlusherStep(f)
    \/ \E a \in AlertIds : Acknowledge(a)
    \/ BeginMaintenance \/ EndMaintenance
    \/ \E x \in Actors : Abandon(x)

Spec == Init /\ [][Next]_vars

\* RunDeferred ticks every 30 seconds for as long as the server runs, and a
\* statement returns or fails.
FairSpec == Spec /\ \A f \in Flushers : WF_vars(FlusherStep(f))

-----------------------------------------------------------------------------
(* Properties                                                              *)

\* At most one alert of the key is active, however evaluators interleave:
\* the unique index decides the race of two openings, and a late change of
\* level does not bring a resolved alert back.
OneActive == \A a, b \in AlertIds : Active(a) /\ Active(b) => a = b

\* A resolved alert never becomes active again, whatever an evaluator that
\* read it before its resolution still writes.
ResolvedIsFinal ==
    [][\A a \in AlertIds : status[a] = "resolved" => status'[a] = "resolved"]_vars

Told(a, event) == {i \in DOMAIN mail[a] : mail[a][i].event = event}

\* Two evaluators that both saw the reading fall back do not tell the
\* resolution twice, and nobody is told of a resolution that did not happen
\* (the ErrNotFound convention of Alerts.Resolve).
ResolvedToldOnce ==
    \A a \in AlertIds :
        /\ \A i, j \in Told(a, "resolved") : i = j
        /\ Told(a, "resolved") # {} => status[a] = "resolved"

\* As long as nothing has failed and when every level is routed, nobody
\* hears that an alert is over who has not heard that it began (the second
\* case of change()), however flushes and maintenance windows come between.
NewsBeforeResolution ==
    faults = 0 /\ Routed = Levels =>
        \A a \in AlertIds : \A i \in Told(a, "resolved") :
            \E j \in 1..(i - 1) : mail[a][j].event # "resolved"

\* Nobody is at work.
Quiet == \A x \in Actors : pc[x] = "idle"

\* When nobody is at work, an active alert has been told at the level it has,
\* or is marked to be told after the maintenance (changeLevel, FlushDeferred).
CurrentLevelTold ==
    Quiet => \A a \in AlertIds : Active(a) =>
        a \in marked \/ (mail[a] # <<>> /\ mail[a][Len(mail[a])].level = level[a])

\* An acknowledgement is taken away only by a rise of the level.  It is not:
\* an evaluation decides from the row it has read that the alert is to be
\* reopened, and the UPDATE takes away whatever acknowledgement it finds, also
\* one that was given after another evaluation had raised the level.
AckLostOnlyOnRise ==
    [][\A a \in AlertIds :
          status[a] = "acknowledged" /\ status'[a] = "open"
              => LevelRank(level'[a]) > LevelRank(level[a])]_vars

\* The resolution, outside maintenance, of an alert that recipients have
\* been told of is told too.
ResolutionTold ==
    [][\A e \in Evaluators, a \in AlertIds :
          (/\ pc[e] = "ready" /\ plan[e] = "told" /\ pc'[e] = "idle"
           /\ Active(a) /\ status'[a] = "resolved" /\ mail[a] # <<>>)
              => mail'[a] # mail[a]]_vars

\* A deferred notification goes out: while the host stays out of maintenance
\* a marked active alert does not stay marked.
DeferredTold ==
    \A a \in AlertIds :
        (a \in marked /\ Active(a) /\ ~maint) ~> (a \notin marked \/ ~Active(a) \/ maint)

=============================================================================
