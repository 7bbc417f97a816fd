------------------------ MODULE AlertLifecycleProofs ------------------------
(***************************************************************************)
(* Proofs about AlertLifecycle, for any number of evaluators, flushers,    *)
(* alerts, reports, windows and faults: type correctness, at most one      *)
(* active alert, finality and single announcement of a resolution, and no  *)
(* resolution told before any other news of its alert.                     *)
(***************************************************************************)
EXTENDS AlertLifecycle, TLAPS

Inv == TypeOK /\ Shape

\* The row read for an active alert is a well-formed snapshot.
LEMMA RowType ==
    ASSUME TypeOK, NEW a \in AlertIds, Active(a)
    PROVE  RowOf(a) \in Snapshot /\ RowOf(a) # NoAlert
  <1>1. RowOf(a) \in Snapshot
    BY DEF TypeOK, Active, RowOf, Snapshot
  <1> QED BY <1>1, NoAlertAssumption

\* SELECT returns the row of an active alert, or none when there is none.
LEMMA ActiveRowType ==
    ASSUME TypeOK
    PROVE  /\ ActiveRow \in Snapshot \cup {NoAlert}
           /\ ~NoneActive => ActiveRow \in Snapshot /\ ActiveRow # NoAlert
  <1>1. CASE NoneActive
    BY <1>1 DEF ActiveRow
  <1>2. CASE ~NoneActive
    <2> DEFINE c == CHOOSE a \in AlertIds : Active(a)
    <2>1. \E a \in AlertIds : Active(a)
      BY <1>2 DEF NoneActive
    <2>2. c \in AlertIds /\ Active(c)
      BY <2>1
    <2>3. ActiveRow = RowOf(c)
      BY <1>2 DEF ActiveRow
    <2> HIDE DEF c
    <2> QED BY <2>2, <2>3, RowType
  <1> QED BY <1>1, <1>2

\* The notification half of a change keeps marks, mail and faults well-formed.
LEMMA NotifyType ==
    ASSUME TypeOK, NEW a \in AlertIds, NEW ev \in {"opened", "level_changed", "resolved"},
           NEW l \in Levels, NEW known, NEW p, Notify(a, ev, l, known, p)
    PROVE  /\ marked' \in SUBSET AlertIds
           /\ mail' \in [AlertIds -> Seq(Message)]
           /\ faults' \in 0..MaxFaults
  <1>1. marked' \in SUBSET AlertIds
    BY DEF Notify, MarkAfter, Faulty, TypeOK
  <1>2. faults' \in 0..MaxFaults
    BY LimitsAssumption DEF Notify, Faulty, TypeOK
  <1>3. mail' \in [AlertIds -> Seq(Message)]
    <2> DEFINE m == [event |-> ev, level |-> l]
    <2>1. m \in Message
      BY DEF Message
    <2>2. mail[a] \in Seq(Message)
      BY DEF TypeOK
    <2> HIDE DEF m
    <2>3. Append(mail[a], m) \in Seq(Message)
      BY <2>1, <2>2
    <2>4. [mail EXCEPT ![a] = Append(mail[a], m)] \in [AlertIds -> Seq(Message)]
      BY <2>3 DEF TypeOK
    <2>5. mail' = mail \/ mail' = [mail EXCEPT ![a] = Append(mail[a], m)]
      BY DEF Notify, m
    <2> QED BY <2>4, <2>5 DEF TypeOK
  <1> QED BY <1>1, <1>2, <1>3

\* The UPDATE keeps the table well-formed and touches only active alerts.
LEMMA UpdateType ==
    ASSUME TypeOK, NEW a \in AlertIds, NEW l \in Levels, NEW reopen, UpdateLevel(a, l, reopen)
    PROVE  /\ status' \in [AlertIds -> {"none", "open", "acknowledged", "resolved"}]
           /\ level' \in [AlertIds -> Levels]
           /\ \A b \in AlertIds : (Active(b))' <=> Active(b)
           /\ \A b \in AlertIds : ~Active(b) => status'[b] = status[b]
  BY DEF UpdateLevel, TypeOK, Active

\* Returning resets the actor's local variables.
LEMMA ReturnType ==
    ASSUME Inv, NEW x \in Actors, Return(x)
    PROVE  /\ pc' \in [Actors -> {"idle", "loaded", "ready", "conflict", "fix", "read"}]
           /\ want' \in [Actors -> Levels \cup {Normal}]
           /\ snap' \in [Actors -> Snapshot \cup {NoAlert}]
           /\ plan' \in [Actors -> Plans]
           /\ Shape'
  <1>1. /\ pc' \in [Actors -> {"idle", "loaded", "ready", "conflict", "fix", "read"}]
        /\ want' \in [Actors -> Levels \cup {Normal}]
        /\ snap' \in [Actors -> Snapshot \cup {NoAlert}]
        /\ plan' \in [Actors -> Plans]
    BY DEF Inv, TypeOK, Return, Plans
  <1>2. pc'[x] = "idle"
    BY DEF Inv, TypeOK, Return
  <1>3. \A y \in Actors : y # x => pc'[y] = pc[y] /\ want'[y] = want[y] /\ snap'[y] = snap[y]
    BY DEF Inv, TypeOK, Return
  <1>4. Shape'
    BY <1>2, <1>3 DEF Shape, Inv, Actors
  <1> QED BY <1>1, <1>4

-----------------------------------------------------------------------------
LEMMA InvInit == Init => Inv
  <1> SUFFICES ASSUME Init PROVE Inv
    OBVIOUS
  <1>1. (CHOOSE l \in Levels : TRUE) \in Levels
    BY LevelsAssumption
  <1>2. level \in [AlertIds -> Levels]
    BY <1>1 DEF Init
  <1>3. mail \in [AlertIds -> Seq(Message)]
    BY DEF Init
  <1>m. maint \in BOOLEAN
    <2>1. maint \in IF MaxWindows > 0 THEN BOOLEAN ELSE {FALSE}
      BY DEF Init
    <2> QED BY <2>1, Zenon
  <1>n. /\ status \in [AlertIds -> {"none", "open", "acknowledged", "resolved"}]
        /\ marked \in SUBSET AlertIds
        /\ pc \in [Actors -> {"idle", "loaded", "ready", "conflict", "fix", "read"}]
        /\ want \in [Actors -> Levels \cup {Normal}]
        /\ snap \in [Actors -> Snapshot \cup {NoAlert}]
        /\ plan \in [Actors -> Plans]
    BY DEF Init, Plans
  <1>o. reports \in 0..MaxReports /\ windows \in 0..MaxWindows /\ faults \in 0..MaxFaults
    BY LimitsAssumption DEF Init
  <1>4. TypeOK
    BY <1>2, <1>3, <1>m, <1>n, <1>o DEF TypeOK
  <1>5. Shape
    BY DEF Init, Shape, Actors
  <1> QED BY <1>4, <1>5 DEF Inv

\* A step of actor x that moves it to label l, with row s in hand, keeps the
\* shape of the others.
LEMMA MoveShape ==
    ASSUME Inv, NEW x \in Actors,
           \A y \in Actors : y # x => pc'[y] = pc[y] /\ want'[y] = want[y] /\ snap'[y] = snap[y],
           x \in Evaluators =>
              /\ pc'[x] \in {"loaded", "ready"} => (want'[x] = Normal => snap'[x] # NoAlert)
              /\ pc'[x] \in {"conflict", "fix"} => want'[x] # Normal
              /\ pc'[x] = "fix" => snap'[x] # NoAlert,
           x \in Flushers => (pc'[x] \in {"loaded", "ready", "read"} => snap'[x] # NoAlert)
    PROVE  Shape'
  BY DEF Shape, Inv, Actors

LEMMA LoadInv ==
    ASSUME Inv, NEW e \in Evaluators, NEW l \in Levels \cup {Normal}, Load(e, l)
    PROVE  Inv'
  <1> USE DEF Inv
  <1>1. e \in Actors /\ e \notin Flushers
    BY ActorsAssumption DEF Actors
  <1>2. reports' \in 0..MaxReports
    BY LimitsAssumption DEF Load, TypeOK
  <1>3. CASE ~Changes(ActiveRow, l)
    <2>1. TypeOK'
      BY <1>2, <1>3 DEF Load, TypeOK, table
    <2>2. Shape'
      BY <1>3 DEF Load, Shape, table
    <2> QED BY <2>1, <2>2
  <1>4. CASE Changes(ActiveRow, l)
    <2>1. ActiveRow \in Snapshot \cup {NoAlert}
      BY ActiveRowType
    <2>2. /\ want' = [want EXCEPT ![e] = l]
          /\ snap' = [snap EXCEPT ![e] = ActiveRow]
          /\ pc' = [pc EXCEPT ![e] = "loaded"]
      BY <1>4 DEF Load
    <2>3. TypeOK'
      BY <1>1, <1>2, <2>1, <2>2 DEF Load, TypeOK, table
    <2>4. l = Normal => ActiveRow # NoAlert
      BY <1>4 DEF Changes
    <2>5. pc'[e] = "loaded" /\ want'[e] = l /\ snap'[e] = ActiveRow
      BY <1>1, <2>2 DEF TypeOK
    <2>6. \A y \in Actors : y # e => pc'[y] = pc[y] /\ want'[y] = want[y] /\ snap'[y] = snap[y]
      BY <2>2 DEF TypeOK
    <2>7. Shape'
      BY <1>1, <2>4, <2>5, <2>6, MoveShape
    <2> QED BY <2>3, <2>7
  <1> QED BY <1>3, <1>4

\* What prepare may find is a plan.
LEMMA PreparedType ==
    ASSUME NEW l, NEW p \in Prepared(l)
    PROVE  p.plan \in Plans /\ p.fault \in Nat
  BY DEF Prepared, Plans

LEMMA PrepareChangeInv ==
    ASSUME Inv, NEW e \in Evaluators, PrepareChange(e)
    PROVE  Inv'
  <1> USE DEF Inv
  <1>1. e \in Actors /\ e \notin Flushers
    BY ActorsAssumption DEF Actors
  <1>2. PICK p \in Prepared(IF want[e] = Normal THEN snap[e].level ELSE want[e]) :
            Faulty(p.fault) /\ plan' = [plan EXCEPT ![e] = p.plan]
    BY DEF PrepareChange
  <1>3. p.plan \in Plans /\ p.fault \in Nat
    BY PreparedType
  <1>4. faults' \in 0..MaxFaults
    BY <1>2, <1>3, LimitsAssumption DEF Faulty, TypeOK
  <1>5. plan' \in [Actors -> Plans]
    BY <1>2, <1>3 DEF TypeOK
  <1>6. pc[e] = "loaded" /\ pc' = [pc EXCEPT ![e] = "ready"] /\ UNCHANGED <<table, maint, want, snap, reports, windows>>
    BY DEF PrepareChange
  <1>7. TypeOK'
    BY <1>1, <1>4, <1>5, <1>6 DEF TypeOK, table
  <1>8. pc'[e] = "ready" /\ \A y \in Actors : y # e => pc'[y] = pc[y]
    BY <1>1, <1>6 DEF TypeOK
  <1>9. want[e] = Normal => snap[e] # NoAlert
    BY <1>6 DEF Shape
  <1>10. Shape'
    BY <1>1, <1>6, <1>8, <1>9, MoveShape
  <1> QED BY <1>7, <1>10

\* A commit leaves a well-formed table and its actor idle.
LEMMA DoneInv ==
    ASSUME Inv, NEW x \in Actors, Done(x),
           status' \in [AlertIds -> {"none", "open", "acknowledged", "resolved"}],
           level' \in [AlertIds -> Levels],
           marked' \in SUBSET AlertIds, mail' \in [AlertIds -> Seq(Message)],
           faults' \in 0..MaxFaults
    PROVE  Inv'
  <1>1. Return(x) /\ UNCHANGED <<maint, reports, windows>>
    BY DEF Done
  <1>2. /\ pc' \in [Actors -> {"idle", "loaded", "ready", "conflict", "fix", "read"}]
        /\ want' \in [Actors -> Levels \cup {Normal}]
        /\ snap' \in [Actors -> Snapshot \cup {NoAlert}]
        /\ plan' \in [Actors -> Plans]
        /\ Shape'
    BY <1>1, ReturnType
  <1>3. TypeOK'
    BY <1>1, <1>2 DEF TypeOK, Inv
  <1> QED BY <1>2, <1>3 DEF Inv

LEMMA CommitInv ==
    ASSUME Inv, NEW e \in Evaluators,
           CommitResolve(e) \/ CommitLevel(e) \/ CommitOpen(e) \/ FixLevel(e)
    PROVE  Inv'
  <1> USE DEF Inv
  <1>1. e \in Actors
    BY DEF Actors
  <1>2. want[e] \in Levels \cup {Normal} /\ snap[e] \in Snapshot \cup {NoAlert}
    BY <1>1 DEF TypeOK
  <1>3. CASE CommitResolve(e)
    <2> DEFINE a == snap[e].id
    <2>1. a \in AlertIds
      BY <1>2, <1>3 DEF CommitResolve, Shape, Snapshot
    <2>2. Done(e) /\ level' = level
      BY <1>3 DEF CommitResolve
    <2>3. CASE Active(a)
      <3>1. status' = [status EXCEPT ![a] = "resolved"]
        BY <1>3, <2>3 DEF CommitResolve
      <3>2. Notify(a, "resolved", level[a], a \in marked, plan[e])
        BY <1>3, <2>3 DEF CommitResolve
      <3>3. level[a] \in Levels
        BY <2>1 DEF TypeOK
      <3> HIDE DEF a
      <3>4. /\ marked' \in SUBSET AlertIds
            /\ mail' \in [AlertIds -> Seq(Message)]
            /\ faults' \in 0..MaxFaults
        BY <2>1, <3>2, <3>3, NotifyType
      <3>5. status' \in [AlertIds -> {"none", "open", "acknowledged", "resolved"}]
        BY <2>1, <3>1 DEF TypeOK
      <3>6. level' \in [AlertIds -> Levels]
        BY <2>2 DEF TypeOK
      <3> QED BY <1>1, <2>2, <3>4, <3>5, <3>6, DoneInv
    <2>4. CASE ~Active(a)
      <3>1. UNCHANGED <<status, marked, mail, faults>>
        BY <1>3, <2>4 DEF CommitResolve
      <3>2. /\ status' \in [AlertIds -> {"none", "open", "acknowledged", "resolved"}]
            /\ level' \in [AlertIds -> Levels]
            /\ marked' \in SUBSET AlertIds /\ mail' \in [AlertIds -> Seq(Message)]
            /\ faults' \in 0..MaxFaults
        BY <2>2, <3>1 DEF TypeOK
      <3> QED BY <1>1, <2>2, <3>2, DoneInv
    <2> QED BY <2>3, <2>4
  <1>4. CASE CommitLevel(e)
    <2> DEFINE s == snap[e]
               r == ReopensOnLevelChange(s, want[e])
    <2>1. s.id \in AlertIds /\ want[e] \in Levels
      BY <1>2, <1>4 DEF CommitLevel, Snapshot
    <2>2. /\ UpdateLevel(s.id, want[e], r)
          /\ Notify(s.id, "level_changed", want[e], s.marked, plan[e])
          /\ Done(e)
      BY <1>4 DEF CommitLevel
    <2> HIDE DEF s, r
    <2>3. /\ status' \in [AlertIds -> {"none", "open", "acknowledged", "resolved"}]
          /\ level' \in [AlertIds -> Levels]
      BY <2>1, <2>2, UpdateType
    <2>4. /\ marked' \in SUBSET AlertIds
          /\ mail' \in [AlertIds -> Seq(Message)]
          /\ faults' \in 0..MaxFaults
      BY <2>1, <2>2, NotifyType
    <2> QED BY <1>1, <2>2, <2>3, <2>4, DoneInv
  <1>5. CASE CommitOpen(e)
    <2>1. PICK a \in AlertIds :
             /\ status' = [status EXCEPT ![a] = "open"]
             /\ level' = [level EXCEPT ![a] = want[e]]
             /\ Notify(a, "opened", want[e], FALSE, plan[e])
      BY <1>5 DEF CommitOpen
    <2>2. want[e] \in Levels /\ Done(e)
      BY <1>2, <1>5 DEF CommitOpen
    <2>3. /\ marked' \in SUBSET AlertIds
          /\ mail' \in [AlertIds -> Seq(Message)]
          /\ faults' \in 0..MaxFaults
      BY <2>1, <2>2, NotifyType
    <2>4. /\ status' \in [AlertIds -> {"none", "open", "acknowledged", "resolved"}]
          /\ level' \in [AlertIds -> Levels]
      BY <2>1, <2>2 DEF TypeOK
    <2> QED BY <1>1, <2>2, <2>3, <2>4, DoneInv
  <1>6. CASE FixLevel(e)
    <2> DEFINE a == snap[e].id
               r == ReopensOnLevelChange(snap[e], want[e])
    <2>1. a \in AlertIds /\ want[e] \in Levels
      BY <1>2, <1>6 DEF FixLevel, Shape, Snapshot
    <2>2. UpdateLevel(a, want[e], r) /\ UNCHANGED <<marked, mail, faults>> /\ Done(e)
      BY <1>6 DEF FixLevel
    <2> HIDE DEF a, r
    <2>3. /\ status' \in [AlertIds -> {"none", "open", "acknowledged", "resolved"}]
          /\ level' \in [AlertIds -> Levels]
      BY <2>1, <2>2, UpdateType
    <2>4. /\ marked' \in SUBSET AlertIds
          /\ mail' \in [AlertIds -> Seq(Message)]
          /\ faults' \in 0..MaxFaults
      BY <2>2 DEF TypeOK
    <2> QED BY <1>1, <2>2, <2>3, <2>4, DoneInv
  <1> QED BY <1>3, <1>4, <1>5, <1>6

LEMMA ConflictInv ==
    ASSUME Inv, NEW e \in Evaluators, CommitConflict(e) \/ ConflictRead(e)
    PROVE  Inv'
  <1> USE DEF Inv
  <1>1. e \in Actors /\ e \notin Flushers
    BY ActorsAssumption DEF Actors
  <1>2. CASE CommitConflict(e)
    <2>1. /\ want[e] # Normal /\ pc' = [pc EXCEPT ![e] = "conflict"]
          /\ UNCHANGED <<table, maint, want, snap, plan, reports, windows, faults>>
      BY <1>2 DEF CommitConflict
    <2>2. TypeOK'
      BY <1>1, <2>1 DEF TypeOK, table
    <2>3. pc'[e] = "conflict" /\ \A y \in Actors : y # e => pc'[y] = pc[y]
      BY <1>1, <2>1 DEF TypeOK
    <2>4. Shape'
      BY <1>1, <2>1, <2>3, MoveShape
    <2> QED BY <2>2, <2>4
  <1>3. CASE ConflictRead(e)
    <2>1. UNCHANGED <<table, maint, reports, windows, faults>>
      BY <1>3 DEF ConflictRead
    <2>2. CASE Return(e)
      <3>1. Done(e)
        BY <2>1, <2>2 DEF Done
      <3>2. /\ status' \in [AlertIds -> {"none", "open", "acknowledged", "resolved"}]
            /\ level' \in [AlertIds -> Levels]
            /\ marked' \in SUBSET AlertIds /\ mail' \in [AlertIds -> Seq(Message)]
            /\ faults' \in 0..MaxFaults
        BY <2>1 DEF TypeOK, table
      <3> QED BY <1>1, <3>1, <3>2, DoneInv
    <2>3. CASE ~Return(e)
      <3>1. /\ ~NoneActive
            /\ snap' = [snap EXCEPT ![e] = ActiveRow]
            /\ pc' = [pc EXCEPT ![e] = "fix"]
            /\ UNCHANGED <<want, plan>>
        BY <1>3, <2>3 DEF ConflictRead
      <3>2. ActiveRow \in Snapshot /\ ActiveRow # NoAlert
        BY <3>1, ActiveRowType
      <3>3. TypeOK'
        BY <1>1, <2>1, <3>1, <3>2 DEF TypeOK, table
      <3>4. pc'[e] = "fix" /\ snap'[e] # NoAlert /\ want'[e] = want[e]
        BY <1>1, <3>1, <3>2 DEF TypeOK
      <3>5. want[e] # Normal
        BY <1>3 DEF ConflictRead, Shape
      <3>6. \A y \in Actors : y # e => pc'[y] = pc[y] /\ want'[y] = want[y] /\ snap'[y] = snap[y]
        BY <3>1 DEF TypeOK
      <3>7. Shape'
        BY <1>1, <3>4, <3>5, <3>6, MoveShape
      <3> QED BY <3>3, <3>7
    <2> QED BY <2>2, <2>3
  <1> QED BY <1>2, <1>3

LEMMA FlushInv ==
    ASSUME Inv, NEW f \in Flushers, FlusherStep(f)
    PROVE  Inv'
  <1> USE DEF Inv
  <1>1. f \in Actors /\ f \notin Evaluators
    BY ActorsAssumption DEF Actors
  <1>2. CASE FlushList(f)
    <2>1. PICK a \in marked : Active(a) /\ snap' = [snap EXCEPT ![f] = RowOf(a)]
      BY <1>2 DEF FlushList
    <2>2. RowOf(a) \in Snapshot /\ RowOf(a) # NoAlert
      BY <2>1, RowType DEF TypeOK
    <2>3. /\ pc' = [pc EXCEPT ![f] = "loaded"]
          /\ UNCHANGED <<table, maint, want, plan, reports, windows, faults>>
      BY <1>2 DEF FlushList
    <2>4. TypeOK'
      BY <1>1, <2>1, <2>2, <2>3 DEF TypeOK, table
    <2>5. pc'[f] = "loaded" /\ snap'[f] # NoAlert
      BY <1>1, <2>1, <2>2, <2>3 DEF TypeOK
    <2>6. \A y \in Actors : y # f => pc'[y] = pc[y] /\ want'[y] = want[y] /\ snap'[y] = snap[y]
      BY <2>1, <2>3 DEF TypeOK
    <2>7. Shape'
      BY <1>1, <2>5, <2>6, MoveShape
    <2> QED BY <2>4, <2>7
  <1>3. CASE FlushPrepare(f)
    <2>1. PICK p \in Prepared(snap[f].level) :
             /\ Faulty(p.fault)
             /\ IF p.plan = "deferred"
                THEN Return(f)
                ELSE /\ plan' = [plan EXCEPT ![f] = p.plan]
                     /\ pc' = [pc EXCEPT ![f] = "ready"]
                     /\ UNCHANGED <<want, snap>>
      BY <1>3 DEF FlushPrepare
    <2>2. p.plan \in Plans /\ p.fault \in Nat
      BY PreparedType
    <2>3. faults' \in 0..MaxFaults
      BY <2>1, <2>2, LimitsAssumption DEF Faulty, TypeOK
    <2>4. UNCHANGED <<table, maint, reports, windows>>
      BY <1>3 DEF FlushPrepare
    <2>5. CASE p.plan = "deferred"
      <3>1. Done(f)
        BY <2>1, <2>4, <2>5 DEF Done
      <3>2. /\ status' \in [AlertIds -> {"none", "open", "acknowledged", "resolved"}]
            /\ level' \in [AlertIds -> Levels]
            /\ marked' \in SUBSET AlertIds /\ mail' \in [AlertIds -> Seq(Message)]
        BY <2>4 DEF TypeOK, table
      <3> QED BY <1>1, <2>3, <3>1, <3>2, DoneInv
    <2>6. CASE p.plan # "deferred"
      <3>1. plan' \in [Actors -> Plans] /\ pc' = [pc EXCEPT ![f] = "ready"] /\ UNCHANGED <<want, snap>>
        BY <2>1, <2>2, <2>6 DEF TypeOK
      <3>2. TypeOK'
        BY <1>1, <2>3, <2>4, <3>1 DEF TypeOK, table
      <3>3. pc'[f] = "ready" /\ snap[f] # NoAlert /\ \A y \in Actors : y # f => pc'[y] = pc[y]
        BY <1>1, <1>3, <3>1 DEF TypeOK, FlushPrepare, Shape
      <3>4. Shape'
        BY <1>1, <3>1, <3>3, MoveShape
      <3> QED BY <3>2, <3>4
    <2> QED BY <2>5, <2>6
  <1>4. CASE FlushRead(f)
    <2> DEFINE a == snap[f].id
    <2>1. a \in AlertIds
      BY <1>1, <1>4 DEF FlushRead, Shape, TypeOK, Snapshot
    <2>2. UNCHANGED <<table, maint, reports, windows, faults>>
      BY <1>4 DEF FlushRead
    <2>3. CASE Active(a) /\ a \in marked
      <3>1. /\ snap' = [snap EXCEPT ![f] = RowOf(a)]
            /\ pc' = [pc EXCEPT ![f] = "read"]
            /\ UNCHANGED <<want, plan>>
        BY <1>4, <2>3 DEF FlushRead
      <3> HIDE DEF a
      <3>2. RowOf(a) \in Snapshot /\ RowOf(a) # NoAlert
        BY <2>1, <2>3, RowType
      <3>3. TypeOK'
        BY <1>1, <2>2, <3>1, <3>2 DEF TypeOK, table
      <3>4. pc'[f] = "read" /\ snap'[f] # NoAlert
        BY <1>1, <3>1, <3>2 DEF TypeOK
      <3>5. \A y \in Actors : y # f => pc'[y] = pc[y] /\ want'[y] = want[y] /\ snap'[y] = snap[y]
        BY <3>1 DEF TypeOK
      <3>6. Shape'
        BY <1>1, <3>4, <3>5, MoveShape
      <3> QED BY <3>3, <3>6
    <2>4. CASE ~(Active(a) /\ a \in marked)
      <3>1. Done(f)
        BY <1>4, <2>2, <2>4 DEF FlushRead, Done
      <3>2. /\ status' \in [AlertIds -> {"none", "open", "acknowledged", "resolved"}]
            /\ level' \in [AlertIds -> Levels]
            /\ marked' \in SUBSET AlertIds /\ mail' \in [AlertIds -> Seq(Message)]
            /\ faults' \in 0..MaxFaults
        BY <2>2 DEF TypeOK, table
      <3> QED BY <1>1, <3>1, <3>2, DoneInv
    <2> QED BY <2>3, <2>4
  <1>5. CASE FlushWrite(f)
    <2>1. snap[f] \in Snapshot
      BY <1>1, <1>5 DEF FlushWrite, Shape, TypeOK
    <2>2. snap[f].id \in AlertIds /\ snap[f].level \in Levels
      BY <2>1 DEF Snapshot
    <2>3. /\ Notify(snap[f].id, "opened", snap[f].level, TRUE, plan[f])
          /\ UNCHANGED <<status, level>> /\ Done(f)
      BY <1>5 DEF FlushWrite
    <2>4. /\ marked' \in SUBSET AlertIds
          /\ mail' \in [AlertIds -> Seq(Message)]
          /\ faults' \in 0..MaxFaults
      BY <2>2, <2>3, NotifyType
    <2>5. /\ status' \in [AlertIds -> {"none", "open", "acknowledged", "resolved"}]
          /\ level' \in [AlertIds -> Levels]
      BY <2>3 DEF TypeOK
    <2> QED BY <1>1, <2>3, <2>4, <2>5, DoneInv
  <1> QED BY <1>2, <1>3, <1>4, <1>5 DEF FlusherStep

\* Steps of users, clocks and faults.
LEMMA SurroundingsInv ==
    ASSUME Inv,
           \/ \E a \in AlertIds : Acknowledge(a)
           \/ BeginMaintenance \/ EndMaintenance
           \/ \E x \in Actors : Abandon(x)
           \/ UNCHANGED vars
    PROVE  Inv'
  <1> USE DEF Inv
  <1>1. CASE \E a \in AlertIds : Acknowledge(a)
    <2>1. TypeOK'
      BY <1>1 DEF Acknowledge, TypeOK, local
    <2>2. Shape'
      BY <1>1 DEF Acknowledge, Shape, local
    <2> QED BY <2>1, <2>2
  <1>2. CASE BeginMaintenance \/ EndMaintenance
    <2>1. UNCHANGED <<status, level, marked, mail, pc, want, snap, plan, reports, faults>>
      BY <1>2 DEF BeginMaintenance, EndMaintenance, table, local
    <2>2. maint' \in BOOLEAN
      BY <1>2 DEF BeginMaintenance, EndMaintenance
    <2>3. windows' \in 0..MaxWindows
      BY <1>2, LimitsAssumption DEF BeginMaintenance, EndMaintenance, TypeOK
    <2>4. TypeOK'
      BY <2>1, <2>2, <2>3 DEF TypeOK
    <2>5. Shape'
      BY <2>1 DEF Shape
    <2> QED BY <2>4, <2>5
  <1>3. CASE \E x \in Actors : Abandon(x)
    <2>1. PICK x \in Actors : Faulty(1) /\ UNCHANGED table /\ Done(x)
      BY <1>3 DEF Abandon
    <2>2. faults' \in 0..MaxFaults
      BY <2>1, LimitsAssumption DEF Faulty, TypeOK
    <2>3. /\ status' \in [AlertIds -> {"none", "open", "acknowledged", "resolved"}]
          /\ level' \in [AlertIds -> Levels]
          /\ marked' \in SUBSET AlertIds /\ mail' \in [AlertIds -> Seq(Message)]
      BY <2>1 DEF TypeOK, table
    <2> QED BY <2>1, <2>2, <2>3, DoneInv
  <1>4. CASE UNCHANGED vars
    <2>1. TypeOK'
      BY <1>4 DEF TypeOK, vars
    <2>2. Shape'
      BY <1>4 DEF Shape, vars
    <2> QED BY <2>1, <2>2
  <1> QED BY <1>1, <1>2, <1>3, <1>4

LEMMA InvNext == Inv /\ [Next]_vars => Inv'
  <1> SUFFICES ASSUME Inv, [Next]_vars PROVE Inv'
    OBVIOUS
  <1>1. CASE \E e \in Evaluators : EvaluatorStep(e)
    <2>1. PICK e \in Evaluators : EvaluatorStep(e)
      BY <1>1
    <2> QED BY <2>1, LoadInv, PrepareChangeInv, CommitInv, ConflictInv DEF EvaluatorStep
  <1>2. CASE \E f \in Flushers : FlusherStep(f)
    BY <1>2, FlushInv
  <1>3. CASE \/ \E a \in AlertIds : Acknowledge(a)
             \/ BeginMaintenance \/ EndMaintenance
             \/ \E x \in Actors : Abandon(x)
             \/ UNCHANGED vars
    BY <1>3, SurroundingsInv
  <1> QED BY <1>1, <1>2, <1>3 DEF Next

\* The alert table, the evaluators and the flushers always hold values of
\* their types: in particular no stale snapshot makes a writer put a level
\* or a status into the table that does not belong there.
THEOREM TypeCorrect == Spec => []TypeOK
  <1>1. Inv => TypeOK
    BY DEF Inv
  <1> QED BY <1>1, InvInit, InvNext, PTL DEF Spec

-----------------------------------------------------------------------------
(* What a step does to the alerts.  Only CommitOpen activates one, and only *)
(* when none is active; only CommitResolve announces a resolution, and only *)
(* of an alert it resolves in the same transaction.                         *)

\* An addition to the mail of alert b announces a resolution only when the
\* alert is resolved by this very step.
Added(b) ==
    \/ mail'[b] = mail[b]
    \/ \E m \in Message :
          /\ mail'[b] = Append(mail[b], m)
          /\ m.event = "resolved" => Active(b) /\ status'[b] = "resolved"

Activated ==
    \/ \A b \in AlertIds : (Active(b))' => Active(b)
    \/ NoneActive /\ \E a \in AlertIds : \A b \in AlertIds : (Active(b))' => b = a

StepFacts ==
    /\ \A b \in AlertIds : status[b] = "resolved" => status'[b] = "resolved"
    /\ \A b \in AlertIds : Added(b)
    /\ Activated

\* A notification that is no announcement of a resolution.
LEMMA NotifyAdds ==
    ASSUME TypeOK, NEW a \in AlertIds, NEW ev \in {"opened", "level_changed", "resolved"},
           NEW l \in Levels, NEW known, NEW p, Notify(a, ev, l, known, p),
           ev = "resolved" => Active(a) /\ status'[a] = "resolved"
    PROVE  \A b \in AlertIds : Added(b)
  <1> DEFINE m == [event |-> ev, level |-> l]
  <1>1. m \in Message /\ m.event = ev
    BY DEF Message
  <1>2. mail' = mail \/ mail' = [mail EXCEPT ![a] = Append(mail[a], m)]
    BY DEF Notify
  <1> HIDE DEF m
  <1> SUFFICES ASSUME NEW b \in AlertIds PROVE Added(b)
    OBVIOUS
  <1>3. CASE mail'[b] = mail[b]
    BY <1>3 DEF Added
  <1>4. CASE mail'[b] # mail[b]
    <2>1. b = a /\ mail'[b] = Append(mail[b], m)
      BY <1>2, <1>4 DEF TypeOK
    <2> QED BY <1>1, <2>1 DEF Added
  <1> QED BY <1>3, <1>4

\* A step that leaves statuses and mail alone.
LEMMA QuietStep ==
    ASSUME UNCHANGED <<status, mail>> PROVE StepFacts
  BY DEF StepFacts, Added, Activated, Active

LEMMA CommitFacts ==
    ASSUME Inv, NEW e \in Evaluators,
           CommitResolve(e) \/ CommitLevel(e) \/ CommitOpen(e) \/ FixLevel(e)
    PROVE  StepFacts
  <1> USE DEF Inv
  <1>1. e \in Actors
    BY DEF Actors
  <1>2. want[e] \in Levels \cup {Normal} /\ snap[e] \in Snapshot \cup {NoAlert}
    BY <1>1 DEF TypeOK
  <1>3. CASE CommitResolve(e)
    <2> DEFINE a == snap[e].id
    <2>1. a \in AlertIds
      BY <1>2, <1>3 DEF CommitResolve, Shape, Snapshot
    <2>2. CASE Active(a)
      <3>1. /\ status' = [status EXCEPT ![a] = "resolved"]
            /\ Notify(a, "resolved", level[a], a \in marked, plan[e])
        BY <1>3, <2>2 DEF CommitResolve
      <3>2. level[a] \in Levels
        BY <2>1 DEF TypeOK
      <3> HIDE DEF a
      <3>3. status'[a] = "resolved"
        BY <2>1, <3>1 DEF TypeOK
      <3>4. \A b \in AlertIds : Added(b)
        BY <2>1, <2>2, <3>1, <3>2, <3>3, NotifyAdds
      <3>5. Activated
        BY <2>1, <3>1 DEF Activated, Active, TypeOK
      <3>6. \A b \in AlertIds : status[b] = "resolved" => status'[b] = "resolved"
        BY <2>1, <3>1 DEF TypeOK
      <3> QED BY <3>4, <3>5, <3>6 DEF StepFacts
    <2>3. CASE ~Active(a)
      BY <1>3, <2>3, QuietStep DEF CommitResolve
    <2> QED BY <2>2, <2>3
  <1>4. CASE CommitLevel(e)
    <2> DEFINE s == snap[e]
               r == ReopensOnLevelChange(s, want[e])
    <2>1. s.id \in AlertIds /\ want[e] \in Levels
      BY <1>2, <1>4 DEF CommitLevel, Snapshot
    <2>2. /\ UpdateLevel(s.id, want[e], r)
          /\ Notify(s.id, "level_changed", want[e], s.marked, plan[e])
      BY <1>4 DEF CommitLevel
    <2> HIDE DEF s, r
    <2>3. /\ \A b \in AlertIds : (Active(b))' <=> Active(b)
          /\ \A b \in AlertIds : ~Active(b) => status'[b] = status[b]
      BY <2>1, <2>2, UpdateType
    <2>4. \A b \in AlertIds : Added(b)
      BY <2>1, <2>2, NotifyAdds
    <2>5. Activated
      BY <2>3 DEF Activated
    <2>6. \A b \in AlertIds : status[b] = "resolved" => status'[b] = "resolved"
      BY <2>3 DEF Active
    <2> QED BY <2>4, <2>5, <2>6 DEF StepFacts
  <1>5. CASE CommitOpen(e)
    <2>1. PICK a \in AlertIds :
             /\ status[a] = "none"
             /\ status' = [status EXCEPT ![a] = "open"]
             /\ Notify(a, "opened", want[e], FALSE, plan[e])
      BY <1>5 DEF CommitOpen
    <2>2. want[e] \in Levels /\ NoneActive
      BY <1>2, <1>5 DEF CommitOpen
    <2>3. \A b \in AlertIds : Added(b)
      BY <2>1, <2>2, NotifyAdds
    <2>4. \A b \in AlertIds : (Active(b))' => b = a
      BY <2>1, <2>2 DEF NoneActive, Active, TypeOK
    <2>5. Activated
      BY <2>2, <2>4 DEF Activated
    <2>6. \A b \in AlertIds : status[b] = "resolved" => status'[b] = "resolved"
      BY <2>1 DEF TypeOK
    <2> QED BY <2>3, <2>5, <2>6 DEF StepFacts
  <1>6. CASE FixLevel(e)
    <2> DEFINE a == snap[e].id
               r == ReopensOnLevelChange(snap[e], want[e])
    <2>1. a \in AlertIds /\ want[e] \in Levels
      BY <1>2, <1>6 DEF FixLevel, Shape, Snapshot
    <2>2. UpdateLevel(a, want[e], r) /\ mail' = mail
      BY <1>6 DEF FixLevel
    <2> HIDE DEF a, r
    <2>3. /\ \A b \in AlertIds : (Active(b))' <=> Active(b)
          /\ \A b \in AlertIds : ~Active(b) => status'[b] = status[b]
      BY <2>1, <2>2, UpdateType
    <2>4. \A b \in AlertIds : Added(b)
      BY <2>2 DEF Added
    <2>5. \A b \in AlertIds : status[b] = "resolved" => status'[b] = "resolved"
      BY <2>3 DEF Active
    <2> QED BY <2>3, <2>4, <2>5 DEF StepFacts, Activated
  <1> QED BY <1>3, <1>4, <1>5, <1>6

LEMMA NextFacts == Inv /\ [Next]_vars => StepFacts
  <1> SUFFICES ASSUME Inv, [Next]_vars PROVE StepFacts
    OBVIOUS
  <1>1. ASSUME NEW e \in Evaluators, EvaluatorStep(e) PROVE StepFacts
    <2>1. CASE \E l \in Levels \cup {Normal} : Load(e, l)
      BY <2>1, QuietStep DEF Load, table
    <2>2. CASE PrepareChange(e) \/ CommitConflict(e) \/ ConflictRead(e)
      BY <2>2, QuietStep DEF PrepareChange, CommitConflict, ConflictRead, table
    <2> QED BY <1>1, <2>1, <2>2, CommitFacts DEF EvaluatorStep
  <1>2. ASSUME NEW f \in Flushers, FlusherStep(f) PROVE StepFacts
    <2>1. CASE FlushList(f) \/ FlushPrepare(f) \/ FlushRead(f)
      BY <2>1, QuietStep DEF FlushList, FlushPrepare, FlushRead, table
    <2>2. CASE FlushWrite(f)
      <3>1. snap[f] \in Snapshot
        BY <2>2 DEF FlushWrite, Shape, TypeOK, Actors, Inv
      <3>2. snap[f].id \in AlertIds /\ snap[f].level \in Levels
        BY <3>1 DEF Snapshot
      <3>3. Notify(snap[f].id, "opened", snap[f].level, TRUE, plan[f]) /\ status' = status
        BY <2>2 DEF FlushWrite
      <3>4. \A b \in AlertIds : Added(b)
        BY <3>2, <3>3, NotifyAdds DEF Inv
      <3> QED BY <3>3, <3>4 DEF StepFacts, Activated, Active
    <2> QED BY <1>2, <2>1, <2>2 DEF FlusherStep
  <1>3. ASSUME NEW a \in AlertIds, Acknowledge(a) PROVE StepFacts
    <2>1. mail' = mail /\ status[a] = "open" /\ status' = [status EXCEPT ![a] = "acknowledged"]
      BY <1>3 DEF Acknowledge
    <2>2. \A b \in AlertIds : (Active(b))' => Active(b)
      BY <2>1 DEF Active, TypeOK, Inv
    <2>3. \A b \in AlertIds : status[b] = "resolved" => status'[b] = "resolved"
      BY <2>1 DEF TypeOK, Inv
    <2> QED BY <2>1, <2>2, <2>3 DEF StepFacts, Added, Activated
  <1>4. CASE BeginMaintenance \/ EndMaintenance \/ UNCHANGED vars
    BY <1>4, QuietStep DEF BeginMaintenance, EndMaintenance, table, vars
  <1>5. ASSUME NEW x \in Actors, Abandon(x) PROVE StepFacts
    BY <1>5, QuietStep DEF Abandon, table
  <1> QED BY <1>1, <1>2, <1>3, <1>4, <1>5 DEF Next

-----------------------------------------------------------------------------
\* At most one alert of a key is active in every reachable state: two
\* evaluators that both found none cannot both open one, and an evaluator
\* that is late with a change of level does not revive a resolved alert.
THEOREM AtMostOneActive == Spec => []OneActive
  <1>1. Init => OneActive
    BY DEF Init, OneActive, Active
  <1>2. Inv /\ OneActive /\ [Next]_vars => OneActive'
    <2> SUFFICES ASSUME Inv, OneActive, [Next]_vars PROVE OneActive'
      OBVIOUS
    <2>1. Activated
      BY NextFacts DEF StepFacts
    <2>2. CASE \A b \in AlertIds : (Active(b))' => Active(b)
      BY <2>2 DEF OneActive
    <2>3. CASE \E a \in AlertIds : \A b \in AlertIds : (Active(b))' => b = a
      BY <2>3 DEF OneActive
    <2> QED BY <2>1, <2>2, <2>3 DEF Activated
  <1> QED BY <1>1, <1>2, InvInit, InvNext, PTL DEF Spec

\* No interleaving, fault or restart makes a resolved alert active again.
THEOREM ResolutionIsFinal == Spec => ResolvedIsFinal
  <1>1. Inv /\ [Next]_vars =>
           [\A a \in AlertIds : status[a] = "resolved" => status'[a] = "resolved"]_vars
    BY NextFacts DEF StepFacts
  <1> QED BY <1>1, InvInit, InvNext, PTL DEF Spec, ResolvedIsFinal

\* However many evaluators see the reading fall back, the resolution of an
\* alert is announced at most once, and only if it happened.
THEOREM ResolutionAnnouncedOnce == Spec => []ResolvedToldOnce
  <1>1. Init => ResolvedToldOnce
    <2> SUFFICES ASSUME Init, NEW a \in AlertIds PROVE Told(a, "resolved") = {}
      BY DEF ResolvedToldOnce
    <2>1. mail[a] = <<>>
      BY DEF Init
    <2> QED BY <2>1 DEF Told
  <1>2. Inv /\ ResolvedToldOnce /\ [Next]_vars => ResolvedToldOnce'
    <2> SUFFICES ASSUME Inv, ResolvedToldOnce, [Next]_vars, NEW a \in AlertIds
                 PROVE  /\ \A i, j \in (Told(a, "resolved"))' : i = j
                        /\ (Told(a, "resolved"))' # {} => status'[a] = "resolved"
      BY DEF ResolvedToldOnce
    <2>1. /\ status[a] = "resolved" => status'[a] = "resolved"
          /\ Added(a)
      BY NextFacts DEF StepFacts
    <2>2. CASE mail'[a] = mail[a]
      <3>1. (Told(a, "resolved"))' = Told(a, "resolved")
        BY <2>2 DEF Told
      <3> QED BY <2>1, <3>1 DEF ResolvedToldOnce
    <2>3. CASE mail'[a] # mail[a]
      <3>1. PICK m \in Message :
               /\ mail'[a] = Append(mail[a], m)
               /\ m.event = "resolved" => Active(a) /\ status'[a] = "resolved"
        BY <2>1, <2>3 DEF Added
      <3>2. mail[a] \in Seq(Message)
        BY DEF Inv, TypeOK
      <3>3. \A i \in (Told(a, "resolved"))' :
               i \in Told(a, "resolved") \/ (i = Len(mail[a]) + 1 /\ m.event = "resolved")
        BY <3>1, <3>2 DEF Told
      <3>4. CASE m.event = "resolved"
        <4>1. Told(a, "resolved") = {}
          BY <3>1, <3>4 DEF ResolvedToldOnce, Active
        <4> QED BY <3>1, <3>3, <3>4, <4>1
      <3>5. CASE m.event # "resolved"
        BY <2>1, <3>3, <3>5 DEF ResolvedToldOnce
      <3> QED BY <3>4, <3>5
    <2> QED BY <2>2, <2>3
  <1> QED BY <1>1, <1>2, InvInit, InvNext, PTL DEF Spec

-----------------------------------------------------------------------------
(* Who hears of a resolution has heard of the alert.  While nothing has     *)
(* failed and every level is routed, prepare never finds "nobody", and an   *)
(* active alert that is not marked has been told.                           *)

Planned == \A x \in Actors : pc[x] \in {"ready", "read"} => plan[x] # "nobody"

Announced == \A a \in AlertIds : Active(a) => a \in marked \/ mail[a] # <<>>

Unfaulty == faults = 0 /\ Routed = Levels

NewsInv == NewsBeforeResolution /\ (Unfaulty => Planned /\ Announced)

\* What an unfaulty step does to the marks and the mail of alert b.
NewsStep(b) ==
    /\ \/ mail'[b] = mail[b]
       \/ \E m \in Message : /\ mail'[b] = Append(mail[b], m)
                             /\ m.event = "resolved" => Active(b) /\ b \notin marked
    /\ (Active(b))' => \/ b \in marked'
                       \/ mail'[b] # mail[b]
                       \/ Active(b) /\ b \notin marked

\* A change of an alert for which prepare found somebody, or the maintenance:
\* it leaves a mark or a notification, but for a resolution.
LEMMA NotifyNews ==
    ASSUME TypeOK, NEW a \in AlertIds, NEW ev \in {"opened", "level_changed", "resolved"},
           NEW l \in Levels, NEW known, NEW p, p # "nobody",
           Notify(a, ev, l, known, p), faults = 0, faults' = 0
    PROVE  /\ \A b \in AlertIds \ {a} : mail'[b] = mail[b] /\ (b \in marked' <=> b \in marked)
           /\ \/ mail'[a] = mail[a]
              \/ \E m \in Message : /\ mail'[a] = Append(mail[a], m) /\ m.event = ev
                                    /\ ev = "resolved" => ~known
           /\ ev # "resolved" => a \in marked' \/ mail'[a] # mail[a]
  <1> DEFINE m == [event |-> ev, level |-> l]
  <1>1. m \in Message /\ m.event = ev
    BY DEF Message
  <1>2. /\ marked' = MarkAfter(a, ev, known, p)
        /\ mail' = IF Silent(ev, known, p) THEN mail ELSE [mail EXCEPT ![a] = Append(mail[a], m)]
    BY DEF Notify, Faulty
  <1>3. mail[a] \in Seq(Message)
    BY DEF TypeOK
  <1> HIDE DEF m
  <1>4. Append(mail[a], m) # mail[a]
    <2>1. Len(Append(mail[a], m)) = Len(mail[a]) + 1 /\ Len(mail[a]) \in Nat
      BY <1>1, <1>3
    <2> QED BY <2>1
  <1>5. \A b \in AlertIds \ {a} : mail'[b] = mail[b]
    BY <1>2 DEF TypeOK
  <1>6. \A b \in AlertIds \ {a} : b \in marked' <=> b \in marked
    BY <1>2 DEF MarkAfter
  <1>7. CASE Silent(ev, known, p)
    <2>1. mail' = mail
      BY <1>2, <1>7
    <2>2. ev # "resolved" => p = "deferred"
      BY <1>7 DEF Silent
    <2>3. ev # "resolved" => a \in marked'
      BY <1>2, <2>2 DEF MarkAfter
    <2> QED BY <1>5, <1>6, <2>1, <2>3
  <1>8. CASE ~Silent(ev, known, p)
    <2>1. mail'[a] = Append(mail[a], m)
      BY <1>2, <1>8 DEF TypeOK
    <2>2. ev = "resolved" => ~known
      BY <1>8 DEF Silent
    <2> QED BY <1>1, <1>4, <1>5, <1>6, <2>1, <2>2
  <1> QED BY <1>7, <1>8

\* A step that leaves statuses, marks and mail alone, or takes no alert to an
\* active status.
LEMMA StillNews ==
    ASSUME UNCHANGED <<marked, mail>>, \A b \in AlertIds : (Active(b))' => Active(b)
    PROVE  \A b \in AlertIds : NewsStep(b)
  BY DEF NewsStep

\* An unfaulty change of an alert.
LEMMA CommitNews ==
    ASSUME Inv, Unfaulty, faults' = 0, Planned, NEW e \in Evaluators,
           CommitResolve(e) \/ CommitLevel(e) \/ CommitOpen(e) \/ FixLevel(e)
    PROVE  \A b \in AlertIds : NewsStep(b)
  <1> USE DEF Inv
  <1>0. e \in Actors /\ faults = 0
    BY DEF Actors, Unfaulty
  <1>2. want[e] \in Levels \cup {Normal} /\ snap[e] \in Snapshot \cup {NoAlert}
    BY <1>0 DEF TypeOK
  <1>9. pc[e] = "ready" => plan[e] # "nobody"
    BY <1>0 DEF Planned
  <1>3. CASE CommitResolve(e)
    <2>0. snap[e].id \in AlertIds /\ plan[e] # "nobody"
      BY <1>2, <1>3, <1>9 DEF CommitResolve, Shape, Snapshot
    <2>1. PICK a \in AlertIds : a = snap[e].id /\ plan[e] # "nobody"
      BY <2>0
    <2>2. CASE Active(a)
      <3>1. /\ status' = [status EXCEPT ![a] = "resolved"]
            /\ Notify(a, "resolved", level[a], a \in marked, plan[e])
        BY <1>3, <2>1, <2>2 DEF CommitResolve
      <3>2. level[a] \in Levels
        BY <2>1 DEF TypeOK
      <3>3. /\ ~(Active(a))'
            /\ \A b \in AlertIds \ {a} : (Active(b))' <=> Active(b)
        BY <2>1, <3>1 DEF Active, TypeOK
      <3>4. /\ \A b \in AlertIds \ {a} : mail'[b] = mail[b] /\ (b \in marked' <=> b \in marked)
            /\ \/ mail'[a] = mail[a]
               \/ \E m \in Message : /\ mail'[a] = Append(mail[a], m) /\ m.event = "resolved"
                                     /\ a \notin marked
        <4> DEFINE k == a \in marked
        <4>1. Notify(a, "resolved", level[a], k, plan[e])
          BY <3>1
        <4>2. k => a \in marked
          OBVIOUS
        <4>3. ~k => a \notin marked
          OBVIOUS
        <4> HIDE DEF k
        <4> QED BY <1>0, <2>1, <3>2, <4>1, <4>3, NotifyNews
      <3>5. NewsStep(a)
        BY <2>2, <3>3, <3>4 DEF NewsStep
      <3>6. ASSUME NEW b \in AlertIds \ {a} PROVE NewsStep(b)
        BY <3>3, <3>4, <3>6 DEF NewsStep
      <3> QED BY <3>5, <3>6
    <2>3. CASE ~Active(a)
      BY <1>3, <2>1, <2>3, StillNews DEF CommitResolve, Active
    <2> QED BY <2>2, <2>3
  <1>4. CASE CommitLevel(e)
    <2> DEFINE s == snap[e]
               r == ReopensOnLevelChange(s, want[e])
    <2>1. s.id \in AlertIds /\ want[e] \in Levels /\ plan[e] # "nobody"
      BY <1>2, <1>4, <1>9 DEF CommitLevel, Snapshot
    <2>2. /\ UpdateLevel(s.id, want[e], r)
          /\ Notify(s.id, "level_changed", want[e], s.marked, plan[e])
      BY <1>4 DEF CommitLevel
    <2> HIDE DEF s, r
    <2>3. \A b \in AlertIds : (Active(b))' <=> Active(b)
      BY <2>1, <2>2, UpdateType
    <2>4. /\ \A b \in AlertIds \ {s.id} : mail'[b] = mail[b] /\ (b \in marked' <=> b \in marked)
          /\ \/ mail'[s.id] = mail[s.id]
             \/ \E m \in Message : mail'[s.id] = Append(mail[s.id], m) /\ m.event = "level_changed"
          /\ s.id \in marked' \/ mail'[s.id] # mail[s.id]
      BY <1>0, <2>1, <2>2, NotifyNews
    <2> QED BY <2>3, <2>4 DEF NewsStep
  <1>5. CASE CommitOpen(e)
    <2>1. PICK a \in AlertIds :
             /\ status[a] = "none"
             /\ status' = [status EXCEPT ![a] = "open"]
             /\ Notify(a, "opened", want[e], FALSE, plan[e])
      BY <1>5 DEF CommitOpen
    <2>2. want[e] \in Levels /\ plan[e] # "nobody"
      BY <1>2, <1>5, <1>9 DEF CommitOpen
    <2>3. \A b \in AlertIds \ {a} : (Active(b))' <=> Active(b)
      BY <2>1 DEF Active, TypeOK
    <2>4. /\ \A b \in AlertIds \ {a} : mail'[b] = mail[b] /\ (b \in marked' <=> b \in marked)
          /\ \/ mail'[a] = mail[a]
             \/ \E m \in Message : mail'[a] = Append(mail[a], m) /\ m.event = "opened"
          /\ a \in marked' \/ mail'[a] # mail[a]
      BY ZenonT(60), <1>0, <2>1, <2>2, NotifyNews
    <2> QED BY <2>3, <2>4 DEF NewsStep
  <1>6. CASE FixLevel(e)
    <2> DEFINE a == snap[e].id
               r == ReopensOnLevelChange(snap[e], want[e])
    <2>1. a \in AlertIds /\ want[e] \in Levels
      BY <1>2, <1>6 DEF FixLevel, Shape, Snapshot
    <2>2. UpdateLevel(a, want[e], r) /\ UNCHANGED <<marked, mail>>
      BY <1>6 DEF FixLevel
    <2> HIDE DEF a, r
    <2>3. \A b \in AlertIds : (Active(b))' <=> Active(b)
      BY <2>1, <2>2, UpdateType
    <2> QED BY <2>2, <2>3, StillNews
  <1> QED BY <1>3, <1>4, <1>5, <1>6

LEMMA NextNews ==
    ASSUME Inv, Unfaulty, faults' = 0, Planned, [Next]_vars
    PROVE  \A b \in AlertIds : NewsStep(b)
  <1> USE DEF Inv
  <1>1. ASSUME NEW e \in Evaluators, EvaluatorStep(e) PROVE \A b \in AlertIds : NewsStep(b)
    <2>1. CASE \E l \in Levels \cup {Normal} : Load(e, l)
      BY <2>1, StillNews DEF Load, table, Active
    <2>2. CASE PrepareChange(e) \/ CommitConflict(e) \/ ConflictRead(e)
      BY <2>2, StillNews DEF PrepareChange, CommitConflict, ConflictRead, table, Active
    <2> QED BY <1>1, <2>1, <2>2, CommitNews DEF EvaluatorStep
  <1>2. ASSUME NEW f \in Flushers, FlusherStep(f) PROVE \A b \in AlertIds : NewsStep(b)
    <2>1. CASE FlushList(f) \/ FlushPrepare(f) \/ FlushRead(f)
      BY <2>1, StillNews DEF FlushList, FlushPrepare, FlushRead, table, Active
    <2>2. CASE FlushWrite(f)
      <3>1. snap[f] \in Snapshot /\ plan[f] # "nobody" /\ faults = 0
        BY <2>2 DEF FlushWrite, Shape, TypeOK, Actors, Planned, Unfaulty
      <3> DEFINE a == snap[f].id
      <3>2. a \in AlertIds /\ snap[f].level \in Levels
        BY <3>1 DEF Snapshot
      <3>3. Notify(a, "opened", snap[f].level, TRUE, plan[f]) /\ status' = status
        BY <2>2 DEF FlushWrite
      <3> HIDE DEF a
      <3>4. /\ \A b \in AlertIds \ {a} : mail'[b] = mail[b] /\ (b \in marked' <=> b \in marked)
            /\ \/ mail'[a] = mail[a]
               \/ \E m \in Message : mail'[a] = Append(mail[a], m) /\ m.event = "opened"
            /\ a \in marked' \/ mail'[a] # mail[a]
        BY ZenonT(60), <3>1, <3>2, <3>3, NotifyNews
      <3> QED BY <3>3, <3>4 DEF NewsStep, Active
    <2> QED BY <1>2, <2>1, <2>2 DEF FlusherStep
  <1>3. ASSUME NEW a \in AlertIds, Acknowledge(a) PROVE \A b \in AlertIds : NewsStep(b)
    <2>1. \A b \in AlertIds : (Active(b))' => Active(b)
      BY <1>3 DEF Acknowledge, Active, TypeOK
    <2> QED BY <1>3, <2>1, StillNews DEF Acknowledge
  <1>4. CASE BeginMaintenance \/ EndMaintenance \/ UNCHANGED vars
    BY <1>4, StillNews DEF BeginMaintenance, EndMaintenance, table, vars, Active
  <1>5. ASSUME NEW x \in Actors, Abandon(x) PROVE \A b \in AlertIds : NewsStep(b)
    BY <1>5, StillNews DEF Abandon, table, Active
  <1> QED BY <1>1, <1>2, <1>3, <1>4, <1>5 DEF Next

\* Faults are never forgotten.
LEMMA FaultsStay ==
    ASSUME Inv, [Next]_vars, faults' = 0 PROVE faults = 0
  <1> USE DEF Inv, Faulty
  <1>0. faults \in Nat
    BY LimitsAssumption DEF TypeOK
  <1>1. CASE UNCHANGED faults
    BY <1>1
  <1>2. ASSUME NEW n \in Nat, Faulty(n) PROVE faults = 0
    BY <1>0, <1>2
  <1>3. ASSUME NEW a, NEW ev, NEW l, NEW known, NEW p, Notify(a, ev, l, known, p) PROVE faults = 0
    BY <1>1, <1>2, <1>3 DEF Notify
  <1>4. ASSUME NEW l, NEW p \in Prepared(l), Faulty(p.fault) PROVE faults = 0
    BY <1>2, <1>4, PreparedType
  <1> HIDE DEF Faulty
  <1>5. ASSUME NEW e \in Evaluators, EvaluatorStep(e) PROVE faults = 0
    <2>1. CASE \/ \E l \in Levels \cup {Normal} : Load(e, l)
               \/ CommitConflict(e) \/ ConflictRead(e) \/ FixLevel(e)
      BY <1>1, <2>1 DEF Load, CommitConflict, ConflictRead, FixLevel
    <2>2. CASE PrepareChange(e)
      BY <1>4, <2>2 DEF PrepareChange
    <2>3. CASE CommitResolve(e)
      BY <1>1, <1>3, <2>3 DEF CommitResolve
    <2>4. CASE CommitLevel(e)
      BY <1>3, <2>4 DEF CommitLevel
    <2>5. CASE CommitOpen(e)
      BY <1>3, <2>5 DEF CommitOpen
    <2> QED BY <1>5, <2>1, <2>2, <2>3, <2>4, <2>5 DEF EvaluatorStep
  <1>6. ASSUME NEW f \in Flushers, FlusherStep(f) PROVE faults = 0
    <2>1. CASE FlushList(f) \/ FlushRead(f)
      BY <1>1, <2>1 DEF FlushList, FlushRead
    <2>2. CASE FlushPrepare(f)
      BY <1>4, <2>2 DEF FlushPrepare
    <2>3. CASE FlushWrite(f)
      BY <1>3, <2>3 DEF FlushWrite
    <2> QED BY <1>6, <2>1, <2>2, <2>3 DEF FlusherStep
  <1>7. CASE \/ \E a \in AlertIds : Acknowledge(a)
             \/ BeginMaintenance \/ EndMaintenance \/ UNCHANGED vars
    BY <1>1, <1>7 DEF Acknowledge, BeginMaintenance, EndMaintenance, vars
  <1>8. ASSUME NEW x \in Actors, Abandon(x) PROVE faults = 0
    BY <1>2, <1>8 DEF Abandon
  <1> QED BY <1>5, <1>6, <1>7, <1>8 DEF Next

\* An unfaulty prepare, of a level some recipient is routed to.
LEMMA PreparedRouted ==
    ASSUME Routed = Levels, NEW l \in Levels, NEW p \in Prepared(l), p.fault = 0
    PROVE  p.plan # "nobody"
  BY DEF Prepared

LEMMA PlannedStays ==
    ASSUME Inv, Unfaulty, faults' = 0, Planned, [Next]_vars PROVE Planned'
  <1> USE DEF Inv
  <1>0. faults = 0 /\ Routed = Levels
    BY DEF Unfaulty
  <1>a. ASSUME NEW x \in Actors, Return(x) PROVE Planned'
    BY <1>a DEF Return, Planned, TypeOK
  <1>b. CASE UNCHANGED <<pc, plan>>
    BY <1>b DEF Planned
  <1>1. ASSUME NEW e \in Evaluators, EvaluatorStep(e) PROVE Planned'
    <2>0. e \in Actors
      BY DEF Actors
    <2>1. CASE \E l \in Levels \cup {Normal} : Load(e, l)
      BY <2>0, <2>1 DEF Load, Planned, TypeOK
    <2>2. CASE PrepareChange(e)
      <3> DEFINE l == IF want[e] = Normal THEN snap[e].level ELSE want[e]
      <3>1. PICK p \in Prepared(l) : Faulty(p.fault) /\ plan' = [plan EXCEPT ![e] = p.plan]
        BY <2>2 DEF PrepareChange
      <3>2. l \in Levels
        BY <2>0, <2>2 DEF PrepareChange, Shape, TypeOK, Snapshot
      <3>3. p.fault = 0
        BY <1>0, <3>1, PreparedType DEF Faulty
      <3> HIDE DEF l
      <3>4. p.plan # "nobody"
        BY <1>0, <3>2, <3>3, PreparedRouted
      <3> QED BY <2>0, <2>2, <3>1, <3>4 DEF PrepareChange, Planned, TypeOK
    <2>3. CASE CommitResolve(e) \/ CommitLevel(e) \/ CommitOpen(e) \/ FixLevel(e)
      BY <1>a, <2>0, <2>3 DEF CommitResolve, CommitLevel, CommitOpen, FixLevel, Done
    <2>4. CASE CommitConflict(e)
      BY <2>0, <2>4 DEF CommitConflict, Planned, TypeOK
    <2>5. CASE ConflictRead(e)
      <3>1. CASE Return(e)
        BY <1>a, <2>0, <3>1
      <3>2. CASE pc' = [pc EXCEPT ![e] = "fix"] /\ UNCHANGED plan
        BY <2>0, <3>2 DEF Planned, TypeOK
      <3> QED BY <2>5, <3>1, <3>2 DEF ConflictRead
    <2> QED BY <1>1, <2>1, <2>2, <2>3, <2>4, <2>5 DEF EvaluatorStep
  <1>2. ASSUME NEW f \in Flushers, FlusherStep(f) PROVE Planned'
    <2>0. f \in Actors
      BY DEF Actors
    <2>1. CASE FlushList(f)
      BY <2>0, <2>1 DEF FlushList, Planned, TypeOK
    <2>2. CASE FlushPrepare(f)
      <3>1. PICK p \in Prepared(snap[f].level) :
               /\ Faulty(p.fault)
               /\ IF p.plan = "deferred"
                  THEN Return(f)
                  ELSE /\ plan' = [plan EXCEPT ![f] = p.plan]
                       /\ pc' = [pc EXCEPT ![f] = "ready"]
        BY <2>2 DEF FlushPrepare
      <3>2. snap[f].level \in Levels
        BY <2>0, <2>2 DEF FlushPrepare, Shape, TypeOK, Snapshot
      <3>3. p.fault = 0
        BY <1>0, <3>1, PreparedType DEF Faulty
      <3>4. p.plan # "nobody"
        BY <1>0, <3>2, <3>3, PreparedRouted
      <3> QED BY <1>a, <2>0, <3>1, <3>4 DEF Planned, TypeOK
    <2>3. CASE FlushRead(f)
      <3>1. CASE Return(f)
        BY <1>a, <2>0, <3>1
      <3>2. CASE pc[f] = "ready" /\ pc' = [pc EXCEPT ![f] = "read"] /\ UNCHANGED plan
        BY <2>0, <3>2 DEF Planned, TypeOK
      <3> QED BY <2>3, <3>1, <3>2 DEF FlushRead
    <2>4. CASE FlushWrite(f)
      BY <1>a, <2>0, <2>4 DEF FlushWrite, Done
    <2> QED BY <1>2, <2>1, <2>2, <2>3, <2>4 DEF FlusherStep
  <1>3. CASE \/ \E a \in AlertIds : Acknowledge(a)
             \/ BeginMaintenance \/ EndMaintenance \/ UNCHANGED vars
    BY <1>b, <1>3 DEF Acknowledge, BeginMaintenance, EndMaintenance, vars, local
  <1>4. ASSUME NEW x \in Actors, Abandon(x) PROVE Planned'
    BY <1>a, <1>4 DEF Abandon, Done
  <1> QED BY <1>1, <1>2, <1>3, <1>4 DEF Next

\* However flushes, maintenance windows and late evaluators come between:
\* while nothing fails and every level is routed, nobody hears that an alert
\* is over who has not heard that it began.
THEOREM ResolutionIsNoNews == Spec => []NewsBeforeResolution
  <1>1. Init => NewsInv
    <2> SUFFICES ASSUME Init PROVE NewsInv
      OBVIOUS
    <2>1. ASSUME NEW a \in AlertIds PROVE Told(a, "resolved") = {} /\ ~Active(a)
      <3>1. mail[a] = <<>> /\ status[a] = "none"
        BY DEF Init
      <3> QED BY <3>1 DEF Told, Active
    <2>2. \A x \in Actors : pc[x] = "idle"
      BY DEF Init
    <2> QED BY <2>1, <2>2 DEF NewsInv, NewsBeforeResolution, Planned, Announced
  <1>2. Inv /\ ResolvedToldOnce /\ NewsInv /\ [Next]_vars => NewsInv'
    <2> SUFFICES ASSUME Inv, ResolvedToldOnce, NewsInv, [Next]_vars, faults' = 0, Routed = Levels
                 PROVE  /\ Planned' /\ Announced'
                        /\ \A a \in AlertIds : \A i \in (Told(a, "resolved"))' :
                              \E j \in 1..(i - 1) : mail'[a][j].event # "resolved"
      BY DEF NewsInv, NewsBeforeResolution, Unfaulty
    <2>1. Unfaulty /\ faults = 0 /\ Planned /\ Announced /\ NewsBeforeResolution
      BY FaultsStay DEF NewsInv, Unfaulty
    <2>2. Planned'
      BY <2>1, PlannedStays
    <2>3. \A b \in AlertIds : NewsStep(b)
      BY <2>1, NextNews
    <2>4. ASSUME NEW b \in AlertIds PROVE mail[b] \in Seq(Message) /\ mail'[b] \in Seq(Message)
      BY InvNext DEF Inv, TypeOK
    <2>5. ASSUME NEW a \in AlertIds PROVE (Active(a))' => a \in marked' \/ mail'[a] # <<>>
      <3>1. CASE mail'[a] = mail[a]
        BY <2>1, <2>3, <3>1 DEF NewsStep, Announced
      <3>2. CASE mail'[a] # mail[a]
        <4>1. PICK m \in Message : mail'[a] = Append(mail[a], m)
          BY <2>3, <3>2 DEF NewsStep
        <4>2. Len(mail'[a]) = Len(mail[a]) + 1 /\ Len(mail[a]) \in Nat
          BY <2>4, <4>1
        <4>3. Len(<<>>) = 0
          OBVIOUS
        <4> QED BY <4>2, <4>3
      <3> QED BY <3>1, <3>2
    <2>6. ASSUME NEW a \in AlertIds, NEW i \in (Told(a, "resolved"))'
          PROVE  \E j \in 1..(i - 1) : mail'[a][j].event # "resolved"
      <3>0. \A k \in Told(a, "resolved") : \E j \in 1..(k - 1) : mail[a][j].event # "resolved"
        BY <2>1 DEF NewsBeforeResolution
      <3>1. CASE mail'[a] = mail[a]
        <4>1. i \in Told(a, "resolved")
          BY <3>1 DEF Told
        <4> QED BY <3>0, <3>1, <4>1
      <3>2. CASE mail'[a] # mail[a]
        <4>1. PICK m \in Message : /\ mail'[a] = Append(mail[a], m)
                                   /\ m.event = "resolved" => Active(a) /\ a \notin marked
          BY <2>3, <3>2 DEF NewsStep
        <4>2. /\ DOMAIN mail'[a] = 1..(Len(mail[a]) + 1) /\ DOMAIN mail[a] = 1..Len(mail[a])
              /\ \A j \in 1..Len(mail[a]) : mail'[a][j] = mail[a][j]
              /\ mail'[a][Len(mail[a]) + 1] = m /\ Len(mail[a]) \in Nat
          BY <2>4, <4>1
        <4>3. i \in 1..(Len(mail[a]) + 1) /\ mail'[a][i].event = "resolved"
          BY <4>2 DEF Told
        <4>4. CASE i \in 1..Len(mail[a])
          <5>1. i \in Told(a, "resolved")
            BY <4>2, <4>3, <4>4 DEF Told
          <5>2. PICK j \in 1..(i - 1) : mail[a][j].event # "resolved"
            BY <3>0, <5>1
          <5>3. j \in 1..Len(mail[a])
            BY <4>2, <4>4
          <5> QED BY <4>2, <5>2, <5>3
        <4>5. CASE i = Len(mail[a]) + 1
          <5>1. m.event = "resolved" /\ Active(a) /\ a \notin marked
            BY <4>1, <4>2, <4>3, <4>5
          <5>2. mail[a] # <<>> /\ status[a] # "resolved"
            BY <2>1, <5>1 DEF Announced, Active
          <5>3. Told(a, "resolved") = {}
            BY <5>2 DEF ResolvedToldOnce
          <5>4. 1 \in 1..Len(mail[a])
            BY <2>4, <4>2, <5>2
          <5>5. mail[a][1].event # "resolved"
            BY <4>2, <5>3, <5>4 DEF Told
          <5> QED BY <4>2, <4>5, <5>4, <5>5
        <4> QED BY <4>2, <4>3, <4>4, <4>5
      <3> QED BY <3>1, <3>2
    <2> QED BY <2>2, <2>5, <2>6 DEF Announced
  <1>3. NewsInv => NewsBeforeResolution
    BY DEF NewsInv
  <1> QED BY <1>1, <1>2, <1>3, InvInit, InvNext, ResolutionAnnouncedOnce, PTL DEF Spec
=============================================================================
