------------------------- MODULE MaintenanceWindows -------------------------
(***************************************************************************)
(* Maintenance windows (store/maintenance.go, internal/maintenance,        *)
(* httpapi/maintenance_handlers.go): create, update, end, delete, "end     *)
(* this occurrence" and "skip the next one".  A handler reads the window,  *)
(* checks the caller and the window, and writes in a later statement; in   *)
(* between other requests write, time passes, and the installation's time  *)
(* zone may be changed.  Whether a host is in maintenance is asked by the  *)
(* alert engine (ForHost) and by the host lists (Open).                    *)
(***************************************************************************)
EXTENDS MaintenanceCalendar

CONSTANTS
    Wids,         \* windows that may be created
    NoWindow,     \* no such row
    Forms,        \* valid windows a request may send; starts and ends in local time
    WHosts,       \* hosts
    HostOrg,      \* the organization of each host
    Scopes,       \* sets of hosts and organizations a window may cover
    Branch,       \* organizations a branch administrator manages
    WReqs,        \* concurrent requests
    Skipped,      \* an override with ended_at NULL
    Horizon,      \* ActiveAt's limit
    MaxInstant,   \* bound: instants
    MaxCalls,     \* bound: requests
    LastDay       \* bound: days at which an occurrence is looked for

\* The windows for a single time.
OnceWindows ==
    [kind: {"once"}, starts: Int, ends: Int, minute: {NoField}, dur: {NoField}, every: Nat, days: {NoField},
     mday: {NoField}, mweek: {NoField}, mwd: {NoField}, from: {NoField}, until: {NoField}]

\* A zone is a day at most from the database's, its clocks go forward by a day
\* at most, and they never go back to the day before.
ASSUME WindowsAssumption ==
    /\ {Horizon, MaxInstant, MaxCalls, LastDay} \subseteq Nat \ {0}
    /\ IsFiniteSet(Wids) /\ Skipped \notin Int /\ Skipped # NoField
    /\ DOMAIN HostOrg = WHosts
    /\ {} \notin Scopes
    /\ \A form \in Forms : form \in OnceWindows \/ form \in RecurringWindows(1..(MaxSpan * DayTicks), Nat, Nat)
    /\ \A z \in Zones :
          /\ {z.before, z.after} \subseteq (-DayTicks)..DayTicks /\ z.after <= z.before + DayTicks
          /\ DateOf(z.at - 1, z) <= DateOf(z.at, z)
          /\ DateOf(MaxInstant + Horizon, z) <= LastDay

VARIABLES
    rowsW,   \* maintenance_windows with scope and overrides
    wreq,    \* the requests between their read and their write
    calls,   \* requests so far
    now,     \* the clock
    zone     \* the location in force

wvars == <<rowsW, wreq, calls, now, zone>>

-----------------------------------------------------------------------------
(* Occurrences.  Each is [start, end), start being the override's key. *)

Planned(w, d, z) ==
    LET s == WallInstant(d, w.minute, z) IN [start |-> s, end |-> s + w.dur]

\* apply: the override of this start and the end of the window.
Apply(row, o) ==
    LET early == IF o.start \in DOMAIN row.over THEN row.over[o.start] ELSE NoField
        cut == {o.end} \cup (IF early \in {NoField, Skipped} THEN {} ELSE {early})
                       \cup (IF row.ended = NoField THEN {} ELSE {row.ended})
    IN  [o EXCEPT !.end = IF early = Skipped THEN o.start ELSE Min(cut)]

Live(o) == o.end > o.start

\* The days from d to the last that nextStartDate finds one after another.
StartDays(w, d, last) ==
    LET walk[x \in Int] == LET n == NextStartDate(w, x)
                           IN  IF n = NoDay THEN {} ELSE IF n > last THEN {} ELSE {n} \cup walk[n + 1]
    IN  walk[d]

\* (mutant) the search begins at the day of "from": longer occurrences are lost
OccurrencesToday(row, z, from, to) ==
    LET w == row.win
        all == IF w.kind = "once" THEN {[start |-> w.starts, end |-> w.ends]}
               ELSE {Planned(w, d, z) : d \in StartDays(w, DateOf(from, z), DateOf(to, z))}
    IN  {o \in {Apply(row, p) : p \in all} : Live(o) /\ o.start < to /\ o.end > from}

\* Occurrences: those that touch [from, to).
Occurrences(row, z, from, to) ==
    LET w == row.win
        first == DateOf(from - MaxSpan * DayTicks, z) - 1
        all == IF w.kind = "once" THEN {[start |-> w.starts, end |-> w.ends]}
               ELSE {Planned(w, d, z) : d \in StartDays(w, first, DateOf(to, z))}
    IN  {o \in {Apply(row, p) : p \in all} : Live(o) /\ o.start < to /\ o.end > from}

Current(row, z, t) == {o \in Occurrences(row, z, t, t + 1) : o.start <= t /\ o.end > t}

\* Next: the occurrences that start after an instant.
NextOccurrence(row, z, after) ==
    LET w == row.win
        all == IF w.kind = "once" THEN {[start |-> w.starts, end |-> w.ends]}
               ELSE {Planned(w, d, z) : d \in StartDays(w, DateOf(after, z) - 1, LastDay)}
    IN  {o \in {Apply(row, p) : p \in all} : Live(o) /\ o.start > after}

Earliest(os) == CHOOSE o \in os : \A p \in os : o.start <= p.start

\* The occurrences in order of start.
StartsBefore(a, b) == a.start < b.start \/ (a.start = b.start /\ a.end < b.end)
RankIn(os, o) == Cardinality({p \in os : StartsBefore(p, o)})
InOrder(os) == [i \in 1..Cardinality(os) |-> CHOOSE o \in os : RankIn(os, o) = i - 1]

\* One turn of ActiveAt's second loop.
Extend(until, o) == IF o.start <= until /\ o.end > until THEN o.end ELSE until

\* The end of the occurrences that run at t and of those that follow them
\* without a gap, NoField when none runs.
Uninterrupted(all, t) ==
    LET running == {o.end : o \in {p \in all : p.start <= t /\ p.end > t}}
        sorted == InOrder(all)
        until[i \in 0..Cardinality(all)] == IF i = 0 THEN Max(running) ELSE Extend(until[i - 1], sorted[i])
    IN  IF running = {} THEN NoField ELSE Min({t + Horizon, until[Cardinality(all)]})

ActiveAt(rows, z, t) == Uninterrupted(UNION {Occurrences(row, z, t, t + Horizon) : row \in rows}, t)

\* The status in maintenanceView.
Status(row, z, t) ==
    IF Current(row, z, t) # {} THEN "active"
    ELSE IF NextOccurrence(row, z, t) # {} THEN "scheduled" ELSE "past"

-----------------------------------------------------------------------------
(* The store *)

Rows == {rowsW[i] : i \in {j \in Wids : rowsW[j] # NoWindow}}

\* Open: the windows not left behind; the date is the database's (UTC).
OpenWindows == {row \in Rows :
    /\ row.ended = NoField \/ row.ended > now
    /\ row.win.kind # "once" \/ row.win.ends > now
    /\ row.win.until = NoField \/ row.win.until >= (now - (MaxSpan + 1) * DayTicks) \div DayTicks}

Covers(row, h) == h \in row.scope \/ HostOrg[h] \in row.scope

\* ForHost, and maintenanceUntil for one host.
ForHost(h) == {row \in OpenWindows : Covers(row, h)}

NewRow(w, scope) == [win |-> w, scope |-> scope, ended |-> NoField, over |-> <<>>]

\* SetOverride: the last one written for a start holds.
SetOverride(row, key, value) ==
    [row EXCEPT !.over = [k \in DOMAIN @ \cup {key} |-> IF k = key THEN value ELSE @[k]]]

-----------------------------------------------------------------------------
(* The handlers *)

\* window: local times become instants of the zone in force.
Window(form) ==
    IF form.kind = "once" THEN [form EXCEPT !.starts = FromLocal(@, zone), !.ends = FromLocal(@, zone)] ELSE form

OrgOf(x) == IF x \in WHosts THEN HostOrg[x] ELSE x

\* A caller manages everything (super_admin) or a branch, and sees the hosts
\* and the organizations of the branch.
Visible(all, scope) == all \/ \E x \in scope : OrgOf(x) \in Branch
Manageable(all, scope) == all \/ \A x \in scope : OrgOf(x) \in Branch

NoReq == [op |-> "none"]
Called == calls < MaxCalls /\ calls' = calls + 1

\* handleCreateMaintenance
CreateWindow(i) ==
    /\ Called /\ rowsW[i] = NoWindow
    /\ \E form \in Forms, scope \in Scopes, all \in BOOLEAN :
        /\ Validate(Window(form)) /\ Manageable(all, scope)
        /\ rowsW' = [rowsW EXCEPT ![i] = NewRow(Window(form), scope)]
        /\ UNCHANGED <<wreq, now, zone>>

\* loadMaintenance for a request that will change the window.
Loaded(r, i, all) ==
    /\ wreq[r] = NoReq
    /\ rowsW[i] # NoWindow
    /\ Visible(all, rowsW[i].scope) /\ Manageable(all, rowsW[i].scope)

\* handleUpdateMaintenance up to the statement: loaded, not ended, valid, in scope.
LoadUpdate(r, i) ==
    /\ Called
    /\ \E form \in Forms, scope \in Scopes, all \in BOOLEAN :
        /\ Loaded(r, i, all) /\ rowsW[i].ended = NoField
        /\ Validate(Window(form)) /\ Manageable(all, scope)
        /\ wreq' = [wreq EXCEPT ![r] = [op |-> "update", id |-> i, win |-> Window(form), scope |-> scope]]
        /\ UNCHANGED <<rowsW, now, zone>>

\* handleDeleteMaintenance and handleEndMaintenance do not look at ended_at.
LoadDeleteOrEnd(r, i) ==
    /\ Called
    /\ \E op \in {"delete", "end"}, all \in BOOLEAN :
        /\ Loaded(r, i, all)
        /\ wreq' = [wreq EXCEPT ![r] = [op |-> op, id |-> i]]
        /\ UNCHANGED <<rowsW, now, zone>>

\* handleEndOccurrence up to SetOverride.
LoadEndOccurrence(r, i) ==
    /\ Called
    /\ \E all \in BOOLEAN, o \in (IF rowsW[i] = NoWindow THEN {} ELSE Current(rowsW[i], zone, now)) :
        /\ Loaded(r, i, all) /\ rowsW[i].ended = NoField
        /\ o = Earliest(Current(rowsW[i], zone, now))
        /\ wreq' = [wreq EXCEPT ![r] = [op |-> "override", id |-> i, key |-> o.start, value |-> now]]
        /\ UNCHANGED <<rowsW, now, zone>>

\* handleSkipNext up to SetOverride.
LoadSkipNext(r, i) ==
    /\ Called
    /\ \E all \in BOOLEAN :
        /\ Loaded(r, i, all) /\ rowsW[i].ended = NoField
        /\ NextOccurrence(rowsW[i], zone, now) # {}
        /\ wreq' = [wreq EXCEPT ![r] = [op |-> "override", id |-> i,
                       key |-> Earliest(NextOccurrence(rowsW[i], zone, now)).start, value |-> Skipped]]
        /\ UNCHANGED <<rowsW, now, zone>>

\* (mutant) Update trusts the handler's check of ended_at
WrittenUnlocked(q, row) ==
    CASE q.op = "update" -> [row EXCEPT !.win = q.win, !.scope = q.scope]
      [] q.op = "delete" -> NoWindow
      [] q.op = "end" -> IF row.ended = NoField THEN [row EXCEPT !.ended = now] ELSE row
      [] q.op = "override" -> SetOverride(row, q.key, q.value)

\* Update, Delete, End and SetOverride on a row that exists.
Written(q, row) ==
    CASE q.op = "update" -> IF row.ended = NoField THEN [row EXCEPT !.win = q.win, !.scope = q.scope] ELSE row
      [] q.op = "delete" -> NoWindow
      [] q.op = "end" -> IF row.ended = NoField THEN [row EXCEPT !.ended = now] ELSE row
      [] q.op = "override" -> SetOverride(row, q.key, q.value)

\* The statement, which answers 404 when the row is gone.
Commit(r) ==
    /\ wreq[r] # NoReq
    /\ rowsW' = [rowsW EXCEPT ![wreq[r].id] = IF @ = NoWindow THEN @ ELSE Written(wreq[r], @)]
    /\ wreq' = [wreq EXCEPT ![r] = NoReq]
    /\ UNCHANGED <<calls, now, zone>>

Pass ==
    /\ now < MaxInstant
    /\ now' = now + 1
    /\ UNCHANGED <<rowsW, wreq, calls, zone>>

\* The time zone setting is changed.
ChangeZone ==
    /\ zone' \in Zones \ {zone}
    /\ UNCHANGED <<rowsW, wreq, calls, now>>

WindowsInit ==
    /\ rowsW = [i \in Wids |-> NoWindow]
    /\ wreq = [r \in WReqs |-> NoReq]
    /\ now = 0 /\ calls = 0
    /\ zone \in Zones

WindowsNext ==
    \/ \E i \in Wids : CreateWindow(i)
    \/ \E r \in WReqs, i \in Wids :
          LoadUpdate(r, i) \/ LoadDeleteOrEnd(r, i) \/ LoadEndOccurrence(r, i) \/ LoadSkipNext(r, i)
    \/ \E r \in WReqs : Commit(r)
    \/ Pass \/ ChangeZone

WindowsSpec == WindowsInit /\ [][WindowsNext]_wvars

-----------------------------------------------------------------------------
(* Properties *)

WindowsTypeOK ==
    /\ \A row \in Rows : Validate(row.win) /\ row.scope \in Scopes /\ row.ended \in {NoField} \cup 0..MaxInstant
    /\ \A r \in WReqs : wreq[r].op \in {"none", "update", "delete", "end", "override"}
    /\ now \in 0..MaxInstant /\ calls \in 0..MaxCalls /\ zone \in Zones

\* The instants around which some day on which the window starts has an
\* occurrence that was neither skipped nor ended before.
Covered(row, z) ==
    LET begins == IF row.win.kind = "once" THEN {row.win.starts}
                  ELSE {WallInstant(d, row.win.minute, z) : d \in {x \in 0..LastDay : StartsOn(row.win, x)}}
        length == IF row.win.kind = "once" THEN row.win.ends - row.win.starts ELSE row.win.dur
        stopped(k, t) == k \in DOMAIN row.over /\ (row.over[k] = Skipped \/ row.over[k] <= t)
    IN  {t \in UNION {{k + n : n \in {m \in 0..(length - 1) : ~stopped(k, k + m)}} : k \in begins} :
            row.ended = NoField \/ t < row.ended}

\* The end of the maintenance given for a host (dispatch's inMaintenance and
\* the host lists) is the first instant none of the windows covers, over
\* every row of the table: the rows the query leaves out, the days the search
\* does not look at and the way occurrences are joined lose nothing.
UntilRight ==
    \A h \in WHosts :
        LET covered == UNION {Covered(row, zone) : row \in {x \in Rows : Covers(x, h)}}
            free == {t \in now..(now + Horizon) : t = now + Horizon \/ t \notin covered}
        IN  ActiveAt(ForHost(h), zone, now) = (IF Min(free) = now THEN NoField ELSE Min(free))

\* The status shown for a window (maintenanceView): "active" when it runs,
\* "past" only when it will never run again.
StatusRight ==
    \A row \in Rows :
        LET ahead == {t \in Covered(row, zone) : t >= now}
        IN  Status(row, zone, now) = (IF now \in ahead THEN "active" ELSE IF ahead = {} THEN "past" ELSE "scheduled")

\* A window that was ended stays as it was when it ended, whatever requests
\* had read it before: Update checks again under the row's lock.
EndedIsFinal ==
    [][\A i \in Wids : rowsW[i] # NoWindow => (rowsW[i].ended # NoField =>
          \/ rowsW'[i] = NoWindow
          \/ rowsW'[i].win = rowsW[i].win /\ rowsW'[i].scope = rowsW[i].scope /\ rowsW'[i].ended = rowsW[i].ended)]_wvars

StoppedAt(row, k, t) == row # NoWindow /\ k \in DOMAIN row.over /\ (row.over[k] = Skipped \/ row.over[k] <= t)

\* An occurrence that was skipped or ended early is not running again,
\* whichever of the requests that read the window before it writes later.
StoppedStaysStopped ==
    [][\A i \in Wids : rowsW[i] # NoWindow => \A k \in DOMAIN rowsW[i].over :
          StoppedAt(rowsW[i], k, now) => rowsW'[i] = NoWindow \/ StoppedAt(rowsW'[i], k, now')]_wvars

\* Whether and until when a host is in maintenance, and what the panel says of
\* a window, is what the calendar says, after any sequence of requests
\* (maintenance.go ActiveAt, Status; store/maintenance.go ForHost).
WindowsRight == WindowsTypeOK /\ UntilRight /\ StatusRight

\* No request that read a window before it, or one of its occurrences, was
\* stopped brings it back (maintenance_handlers.go, store/maintenance.go).
StopsAreFinal == EndedIsFinal /\ StoppedStaysStopped
=============================================================================
