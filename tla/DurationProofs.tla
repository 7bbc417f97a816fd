--------------------------- MODULE DurationProofs ---------------------------
(***************************************************************************)
(* Proofs about AlertDuration: while evaluations of an alert follow one    *)
(* another and nothing fails, none opens early, for any duration, any      *)
(* number of evaluators and any readings.                                  *)
(***************************************************************************)
EXTENDS AlertDuration, TLAPS

-----------------------------------------------------------------------------
(* The inductive invariant                                                 *)

\* What is recorded, in the table or in hand, is no older than the unbroken run.
WithinRun(t) == t # None => held # None /\ t <= held

\* An evaluation of a reading above the threshold opens nothing before the run
\* is long enough.
AboveStands(e) ==
    /\ held # None /\ WithinRun(since) /\ WithinRun(mySince[e])
    /\ dpc[e] = "sustained" /\ Duration > 0 => mySince[e] # None
    /\ dpc[e] = "open" \/ (dpc[e] = "clear" /\ ~myActive[e]) => held = Duration

\* One of any other reading is going to remove the record, or has done so.
OtherStands(e) ==
    /\ dpc[e] \in {"loaded", "clear", "resolve"}
    /\ held = None
    /\ IF dpc[e] = "resolve" /\ reading[e] = "below" THEN since = None ELSE mySince[e] = since

Stands(e) == IF reading[e] = "above" THEN AboveStands(e) ELSE OtherStands(e)

OneRun ==
    /\ \A e, o \in DEvals : dpc[e] # "idle" /\ dpc[o] # "idle" => e = o
    /\ (\A e \in DEvals : dpc[e] = "idle") => WithinRun(since)
    /\ \A e \in DEvals : dpc[e] # "idle" => Stands(e)

Calm == ~overlap /\ dfaults = 0

DurationInv == DurationTypeOK /\ (Calm => OneRun)

-----------------------------------------------------------------------------
(* Types                                                                   *)

Labels == {"idle", "loaded", "mark", "sustained", "clear", "open", "resolve"}

LEMMA Constants == Duration \in Nat /\ MaxDFaults \in Nat /\ None \notin Ages /\ None = -1 /\ Ages = 0..Duration
  BY DurationAssumption DEF None, Ages

LEMMA OlderIs ==
    ASSUME NEW t \in Ages \cup {None}
    PROVE  /\ Older(t) \in Ages \cup {None} /\ (t = None => Older(t) = None) /\ (t # None => Older(t) # None)
           /\ t = Duration => Older(t) = Duration
           /\ \A h \in Ages : t # None /\ t <= h => Older(t) <= Older(h)
  <1>1. Older(t) \in Ages \cup {None} /\ (t = None => Older(t) = None) /\ (t # None => Older(t) # None)
    BY Constants DEF Older
  <1>2. t = Duration => Older(t) = Duration
    BY Constants DEF Older
  <1>3. ASSUME NEW h \in Ages, t # None, t <= h PROVE Older(t) <= Older(h)
    BY <1>3, Constants DEF Older
  <1> QED
    BY <1>1, <1>2, <1>3

\* An evaluation ends or goes on; the others stay where they are.
LEMMA Moved ==
    ASSUME DurationTypeOK, NEW e \in DEvals, Finish(e) \/ \E l \in Labels : DGoto(e, l)
    PROVE  /\ dpc' \in [DEvals -> Labels] /\ reading' \in [DEvals -> Conditions]
           /\ mySince' \in [DEvals -> Ages \cup {None}] /\ myActive' \in [DEvals -> BOOLEAN]
           /\ \A o \in DEvals \ {e} : dpc'[o] = dpc[o]
           /\ \A l \in Labels : DGoto(e, l) => dpc'[e] = l
           /\ Finish(e) => dpc'[e] = "idle"
  <1>0. /\ dpc \in [DEvals -> Labels] /\ reading \in [DEvals -> Conditions]
        /\ mySince \in [DEvals -> Ages \cup {None}] /\ myActive \in [DEvals -> BOOLEAN]
    BY DEF DurationTypeOK, Labels
  <1>1. CASE Finish(e)
    BY <1>0, <1>1 DEF Finish, Labels, Conditions, DGoto
  <1>2. CASE \E l \in Labels : DGoto(e, l)
    BY <1>0, <1>2 DEF DGoto, Labels, Finish
  <1> QED
    BY <1>1, <1>2

LEMMA Places ==
    ASSUME DurationTypeOK, NEW e \in DEvals
    PROVE  /\ AfterLoad(e) \in Labels /\ AfterClear(e) \in Labels /\ Waiting(e) \in Labels
           /\ dpc[e] \in Labels /\ reading[e] \in Conditions /\ mySince[e] \in Ages \cup {None} /\ myActive[e] \in BOOLEAN
  BY DEF DurationTypeOK, AfterLoad, AfterClear, Waiting, WhileActive, Labels

LEMMA StepType ==
    ASSUME DurationTypeOK, NEW e \in DEvals, Step(e) \/ DAbandon(e)
    PROVE  DurationTypeOK'
  <1>0. /\ dpc \in [DEvals -> Labels] /\ reading \in [DEvals -> Conditions]
        /\ mySince \in [DEvals -> Ages \cup {None}] /\ myActive \in [DEvals -> BOOLEAN]
        /\ since \in Ages \cup {None} /\ held \in Ages \cup {None} /\ active \in BOOLEAN /\ cond \in Conditions
        /\ statusRule \in BOOLEAN /\ overlap \in BOOLEAN /\ dfaults \in 0..MaxDFaults /\ 0 \in Ages
    BY Constants DEF DurationTypeOK, Labels
  <1>1. dfaults' = dfaults \/ DFaulty => dfaults' \in 0..MaxDFaults
    BY <1>0, Constants DEF DFaulty
  <1>2. CASE DLoad(e)
    <2>1. /\ dpc' \in [DEvals -> Labels] /\ reading' \in [DEvals -> Conditions]
          /\ mySince' \in [DEvals -> Ages \cup {None}] /\ myActive' \in [DEvals -> BOOLEAN]
      BY <1>0, <1>2 DEF DLoad, Labels
    <2>2. held' \in Ages \cup {None} /\ overlap' \in BOOLEAN
      BY <1>0, <1>2 DEF DLoad
    <2> QED
      BY <1>0, <1>2, <2>1, <2>2 DEF DLoad, DurationTypeOK, Labels
  <1>3. CASE Evaluate(e)
    BY <1>0, <1>3, Moved, Places DEF Evaluate, DurationTypeOK, Labels
  <1>4. CASE Mark(e)
    <2>1. since' \in Ages
      BY <1>0, <1>4 DEF Mark
    <2>2. dpc' \in [DEvals -> Labels] /\ mySince' \in [DEvals -> Ages \cup {None}]
      BY <1>0, <1>4, <2>1 DEF Mark, Labels
    <2> QED
      BY <1>0, <1>4, <2>1, <2>2 DEF Mark, DurationTypeOK, Labels
  <1>5. CASE Sustained(e)
    BY <1>0, <1>5, Moved DEF Sustained, DurationTypeOK, Labels
  <1>6. CASE Clear(e)
    <2>1. since' \in Ages \cup {None} /\ dfaults' \in 0..MaxDFaults
      BY <1>0, <1>1, <1>6 DEF Clear
    <2>2. Finish(e) \/ \E l \in Labels : DGoto(e, l)
      BY <1>6, Places DEF Clear
    <2> QED
      BY <1>0, <1>6, <2>1, <2>2, Moved DEF Clear, DurationTypeOK, Labels
  <1>7. CASE Open(e)
    BY <1>0, <1>7, Moved DEF Open, DurationTypeOK, Labels
  <1>8. CASE Resolve(e)
    <2>1. active' \in BOOLEAN /\ dfaults' \in 0..MaxDFaults
      BY <1>0, <1>1, <1>8 DEF Resolve
    <2>2. Finish(e) \/ \E l \in Labels : DGoto(e, l)
      BY <1>8 DEF Resolve, Labels
    <2> QED
      BY <1>0, <1>8, <2>1, <2>2, Moved DEF Resolve, DurationTypeOK, Labels
  <1>9. CASE DAbandon(e)
    <2>1. dfaults' \in 0..MaxDFaults
      BY <1>1, <1>9 DEF DAbandon
    <2> QED
      BY <1>0, <1>9, <2>1, Moved DEF DAbandon, DurationTypeOK, Labels
  <1> QED
    BY <1>2, <1>3, <1>4, <1>5, <1>6, <1>7, <1>8, <1>9 DEF Step

LEMMA TimeType == DurationTypeOK /\ (Change \/ DTick) => DurationTypeOK'
  <1> SUFFICES ASSUME DurationTypeOK, Change \/ DTick PROVE DurationTypeOK'
    OBVIOUS
  <1>1. CASE Change
    BY <1>1 DEF Change, DurationTypeOK
  <1>2. CASE DTick
    <2>1. since \in Ages \cup {None} /\ held \in Ages \cup {None} /\ mySince \in [DEvals -> Ages \cup {None}]
      BY DEF DurationTypeOK
    <2>2. since' \in Ages \cup {None} /\ held' \in Ages \cup {None}
      BY <1>2, <2>1, OlderIs DEF DTick
    <2>3. mySince' \in [DEvals -> Ages \cup {None}]
      BY <1>2, <2>1, OlderIs DEF DTick
    <2> QED
      BY <1>2, <2>2, <2>3 DEF DTick, DurationTypeOK
  <1> QED
    BY <1>1, <1>2

-----------------------------------------------------------------------------
(* One evaluation at a time, and nothing fails                             *)

LEMMA RunStep ==
    ASSUME OneRun, NEW e \in DEvals, dpc[e] # "idle" \/ \A o \in DEvals : dpc[o] = "idle",
           \A o \in DEvals \ {e} : dpc'[o] = dpc[o],
           dpc'[e] = "idle" => WithinRun(since)', dpc'[e] # "idle" => Stands(e)'
    PROVE  OneRun'
  <1>1. \A o \in DEvals \ {e} : dpc'[o] = "idle"
    BY DEF OneRun
  <1>2. ASSUME NEW o \in DEvals, dpc'[o] # "idle" PROVE Stands(o)'
    BY <1>1, <1>2 DEF Stands, AboveStands, OtherStands, WithinRun
  <1> QED
    BY <1>1, <1>2 DEF OneRun

\* While nothing fails, every step is one that succeeds.
LEMMA CalmBefore == DurationTypeOK /\ [DurationNext]_dvars /\ Calm' => Calm
  <1> SUFFICES ASSUME DurationTypeOK, [DurationNext]_dvars, Calm' PROVE Calm
    OBVIOUS
  <1>0. dfaults \in Nat /\ overlap \in BOOLEAN
    BY Constants DEF DurationTypeOK
  <1>1. ASSUME NEW e \in DEvals, Step(e) \/ DAbandon(e) PROVE Calm
    <2>1. dfaults' = dfaults \/ dfaults' = dfaults + 1
      BY <1>1 DEF Step, DLoad, Evaluate, Mark, Sustained, Clear, Open, Resolve, DAbandon, DFaulty
    <2>2. overlap => overlap'
      BY <1>0, <1>1 DEF Step, DLoad, Evaluate, Mark, Sustained, Clear, Open, Resolve, DAbandon
    <2> QED
      BY <1>0, <2>1, <2>2 DEF Calm
  <1>2. CASE Change \/ DTick
    BY <1>2 DEF Change, DTick, Calm
  <1>3. CASE UNCHANGED dvars
    BY <1>3 DEF dvars, Calm
  <1> QED
    BY <1>1, <1>2, <1>3 DEF DurationNext

LEMMA StepRun ==
    ASSUME DurationTypeOK, Calm, OneRun, Calm', NEW e \in DEvals, Step(e) \/ DAbandon(e)
    PROVE  OneRun'
  <1>0. /\ dpc \in [DEvals -> Labels] /\ reading \in [DEvals -> Conditions]
        /\ mySince \in [DEvals -> Ages \cup {None}] /\ myActive \in [DEvals -> BOOLEAN]
        /\ since \in Ages \cup {None} /\ held \in Ages \cup {None} /\ 0 \in Ages
    BY Constants DEF DurationTypeOK, Labels
  <1>1. ~DFaulty
    BY DEF Calm, DFaulty
  <1>2. dpc[e] # "idle" => Stands(e)
    BY DEF OneRun
  <1>3. \A o \in DEvals : DGoto(e, dpc'[e]) => reading' = reading /\ mySince' = mySince /\ myActive' = myActive
    BY DEF DGoto
  <1>4. CASE DLoad(e)
    <2>1. \A o \in DEvals : dpc[o] = "idle"
      BY <1>4 DEF Calm, DLoad
    <2>2. WithinRun(since)
      BY <2>1 DEF OneRun
    <2>3. /\ dpc'[e] = "loaded" /\ \A o \in DEvals \ {e} : dpc'[o] = dpc[o]
          /\ reading'[e] = cond /\ mySince'[e] = since /\ since' = since
          /\ held' = IF cond # "above" THEN None ELSE IF held = None THEN 0 ELSE held
      BY <1>0, <1>4 DEF DLoad
    <2>4. Stands(e)'
      <3>1. CASE cond = "above"
        <4>1. held' # None /\ (held # None => held' = held)
          BY <2>3, <3>1, Constants
        <4>2. WithinRun(since)' /\ WithinRun(mySince[e])'
          BY <2>2, <2>3, <4>1 DEF WithinRun
        <4> QED
          BY <2>3, <3>1, <4>1, <4>2 DEF Stands, AboveStands
      <3>2. CASE cond # "above"
        BY <2>3, <3>2 DEF Stands, OtherStands
      <3> QED
        BY <3>1, <3>2
    <2> QED
      BY <2>1, <2>3, <2>4, RunStep
  <1>5. CASE Evaluate(e)
    <2>1. dpc[e] = "loaded" /\ Stands(e) /\ since' = since /\ held' = held /\ (Finish(e) \/ DGoto(e, AfterLoad(e)))
      BY <1>2, <1>5 DEF Evaluate
    <2>2. AfterLoad(e) = "idle" => Finish(e)
      BY <1>5 DEF Evaluate
    <2>3. AfterLoad(e) # "idle" => DGoto(e, AfterLoad(e))
      BY <1>5 DEF Evaluate
    <2>4. \A o \in DEvals \ {e} : dpc'[o] = dpc[o]
      BY <2>1, Moved, Places
    <2>5. CASE AfterLoad(e) = "idle"
      <3>1. reading[e] = "above"
        BY <2>5 DEF AfterLoad
      <3>2. WithinRun(since)' /\ dpc'[e] = "idle"
        BY <2>1, <2>2, <2>5, <3>1, Moved DEF Stands, AboveStands, WithinRun
      <3> QED
        BY <2>1, <2>4, <3>2, RunStep
    <2>6. CASE AfterLoad(e) # "idle"
      <3>1. /\ dpc'[e] = AfterLoad(e) /\ reading'[e] = reading[e] /\ mySince'[e] = mySince[e] /\ myActive'[e] = myActive[e]
        BY <1>0, <2>3, <2>6, Moved, Places DEF DGoto
      <3>2. Stands(e)'
        <4>1. CASE reading[e] = "above"
          <5>1. /\ AboveStands(e)
                /\ dpc'[e] \in {"mark", "sustained", "clear"}
                /\ dpc'[e] = "clear" => myActive[e]
                /\ dpc'[e] = "sustained" /\ Duration > 0 => mySince[e] # None
            BY <2>1, <2>6, <3>1, <4>1 DEF Stands, AfterLoad, Waiting, WhileActive
          <5> QED
            BY <2>1, <3>1, <4>1, <5>1 DEF Stands, AboveStands, WithinRun
        <4>2. CASE reading[e] # "above"
          <5>1. /\ OtherStands(e)
                /\ dpc'[e] = "clear" \/ (dpc'[e] = "resolve" /\ reading[e] = "gone")
            BY <2>1, <3>1, <4>2 DEF Stands, AfterLoad
          <5> QED
            BY <2>1, <3>1, <4>2, <5>1 DEF Stands, OtherStands
        <4> QED
          BY <4>1, <4>2
      <3>3. dpc'[e] # "idle"
        BY <2>6, <3>1
      <3> QED
        BY <2>1, <2>4, <3>2, <3>3, RunStep
    <2> QED
      BY <2>5, <2>6
  <1>6. CASE Mark(e)
    <2>1. /\ dpc[e] = "mark" /\ Stands(e) /\ since' = (IF since = None THEN 0 ELSE since) /\ held' = held
          /\ mySince'[e] = since' /\ dpc'[e] = "sustained" /\ reading'[e] = reading[e]
          /\ \A o \in DEvals \ {e} : dpc'[o] = dpc[o]
      BY <1>0, <1>2, <1>6 DEF Mark
    <2>2. reading[e] = "above" /\ AboveStands(e)
      BY <2>1 DEF Stands, OtherStands
    <2>3. since' # None /\ held # None /\ since' <= held
      BY <1>0, <2>1, <2>2, Constants DEF AboveStands, WithinRun
    <2>4. Stands(e)'
      BY <2>1, <2>2, <2>3 DEF Stands, AboveStands, WithinRun
    <2> QED
      BY <2>1, <2>4, RunStep
  <1>7. CASE Sustained(e)
    <2>1. dpc[e] = "sustained" /\ Stands(e) /\ since' = since /\ held' = held
      BY <1>2, <1>7 DEF Sustained
    <2>2. reading[e] = "above" /\ AboveStands(e)
      BY <2>1 DEF Stands, OtherStands
    <2>3. \A o \in DEvals \ {e} : dpc'[o] = dpc[o]
      BY <1>7, Moved DEF Sustained, Labels
    <2>4. CASE Duration > 0 /\ mySince[e] < Duration
      <3>1. dpc'[e] = "idle" /\ WithinRun(since)'
        BY <1>7, <2>1, <2>2, <2>4, Moved DEF Sustained, AboveStands, WithinRun
      <3> QED
        BY <2>1, <2>3, <3>1, RunStep
    <2>5. CASE ~(Duration > 0 /\ mySince[e] < Duration)
      <3>1. /\ dpc'[e] = "clear" /\ reading'[e] = reading[e] /\ mySince'[e] = mySince[e] /\ myActive'[e] = myActive[e]
        BY <1>0, <1>7, <2>5 DEF Sustained, DGoto
      <3>2. held = Duration
        <4>1. held \in 0..Duration /\ Duration \in Nat
          BY <1>0, <2>2, Constants DEF AboveStands
        <4>2. CASE Duration = 0
          BY <4>1, <4>2
        <4>3. CASE Duration > 0
          <5>1. mySince[e] # None /\ mySince[e] \in 0..Duration /\ mySince[e] <= held
            BY <1>0, <2>1, <2>2, <4>3, Constants DEF AboveStands, WithinRun
          <5> QED
            BY <2>5, <4>1, <4>3, <5>1
        <4> QED
          BY <4>1, <4>2, <4>3
      <3>3. Stands(e)'
        BY <2>1, <2>2, <3>1, <3>2 DEF Stands, AboveStands, WithinRun
      <3> QED
        BY <2>1, <2>3, <3>1, <3>3, RunStep
    <2> QED
      BY <2>4, <2>5
  <1>8. CASE Clear(e)
    <2>1. /\ dpc[e] = "clear" /\ Stands(e) /\ since' = (IF mySince[e] = None THEN since ELSE None) /\ held' = held
      BY <1>1, <1>2, <1>8 DEF Clear
    <2>2. \A o \in DEvals \ {e} : dpc'[o] = dpc[o]
      BY <1>8, Moved, Places DEF Clear
    <2>3. reading[e] # "above" => since' = None
      BY <2>1 DEF Stands, OtherStands
    <2>4. WithinRun(since)'
      BY <2>1, <2>3 DEF Stands, AboveStands, WithinRun
    <2>5. CASE AfterClear(e) = "idle"
      <3>1. dpc'[e] = "idle"
        BY <1>8, <2>5, Moved DEF Clear
      <3> QED
        BY <2>1, <2>2, <2>4, <3>1, RunStep
    <2>6. CASE AfterClear(e) # "idle"
      <3>1. /\ dpc'[e] = AfterClear(e) /\ reading'[e] = reading[e] /\ mySince'[e] = mySince[e] /\ myActive'[e] = myActive[e]
        BY <1>0, <1>8, <2>6 DEF Clear, DGoto
      <3>2. Stands(e)'
        <4>1. CASE reading[e] = "above"
          <5>1. AboveStands(e) /\ dpc'[e] = "open" /\ ~myActive[e]
            BY <2>1, <2>6, <3>1, <4>1 DEF Stands, AfterClear
          <5> QED
            BY <2>1, <2>4, <3>1, <4>1, <5>1 DEF Stands, AboveStands, WithinRun
        <4>2. CASE reading[e] # "above"
          <5>1. OtherStands(e) /\ dpc'[e] = "resolve" /\ reading[e] = "below"
            BY <2>1, <2>6, <3>1, <4>2 DEF Stands, AfterClear
          <5> QED
            BY <2>1, <2>3, <3>1, <4>2, <5>1 DEF Stands, OtherStands
        <4> QED
          BY <4>1, <4>2
      <3>3. dpc'[e] # "idle"
        BY <2>6, <3>1
      <3> QED
        BY <2>1, <2>2, <3>2, <3>3, RunStep
    <2> QED
      BY <2>5, <2>6
  <1>9. CASE Open(e)
    <2>1. dpc[e] = "open" /\ Stands(e) /\ since' = since /\ held' = held /\ Finish(e)
      BY <1>2, <1>9 DEF Open
    <2>2. reading[e] = "above" /\ WithinRun(since)'
      BY <2>1 DEF Stands, OtherStands, AboveStands, WithinRun
    <2> QED
      BY <2>1, <2>2, Moved, RunStep
  <1>10. CASE Resolve(e)
    <2>1. dpc[e] = "resolve" /\ Stands(e) /\ since' = since /\ held' = held
      BY <1>2, <1>10 DEF Resolve
    <2>2. \A o \in DEvals \ {e} : dpc'[o] = dpc[o]
      BY <1>10, Moved DEF Resolve, Labels
    <2>3. CASE reading[e] = "gone"
      <3>1. /\ dpc'[e] = "clear" /\ reading'[e] = reading[e] /\ mySince'[e] = mySince[e]
        BY <1>0, <1>10, <2>3 DEF Resolve, DGoto
      <3>2. Stands(e)'
        BY <2>1, <2>3, <3>1 DEF Stands, OtherStands
      <3> QED
        BY <2>1, <2>2, <3>1, <3>2, RunStep
    <2>4. CASE reading[e] # "gone"
      <3>1. dpc'[e] = "idle"
        BY <1>10, <2>4, Moved DEF Resolve
      <3>2. WithinRun(since)'
        <4>1. CASE reading[e] = "above"
          BY <2>1, <4>1 DEF Stands, AboveStands, WithinRun
        <4>2. CASE reading[e] = "below"
          BY <2>1, <4>2 DEF Stands, OtherStands, WithinRun
        <4> QED
          BY <1>0, <2>4, <4>1, <4>2 DEF Conditions
      <3> QED
        BY <2>1, <2>2, <3>1, <3>2, RunStep
    <2> QED
      BY <2>3, <2>4
  <1>11. CASE DAbandon(e)
    BY <1>1, <1>11 DEF DAbandon
  <1> QED
    BY <1>4, <1>5, <1>6, <1>7, <1>8, <1>9, <1>10, <1>11 DEF Step

\* Time ages the record, what is in hand and the run alike.
LEMMA TimeRun == DurationTypeOK /\ OneRun /\ (Change \/ DTick) => OneRun'
  <1> SUFFICES ASSUME DurationTypeOK, OneRun, Change \/ DTick PROVE OneRun'
    OBVIOUS
  <1>0. since \in Ages \cup {None} /\ held \in Ages \cup {None} /\ mySince \in [DEvals -> Ages \cup {None}]
    BY DEF DurationTypeOK
  <1>1. CASE Change
    BY <1>1 DEF Change, OneRun, Stands, AboveStands, OtherStands, WithinRun
  <1>2. CASE DTick
    <2>1. /\ since' = Older(since) /\ held' = Older(held) /\ \A e \in DEvals : mySince'[e] = Older(mySince[e])
          /\ UNCHANGED <<dpc, reading, myActive>>
      BY <1>2 DEF DTick
    <2>2. /\ \A t \in Ages \cup {None} : t = None <=> Older(t) = None
          /\ held = Duration => held' = Duration
          /\ \A t \in Ages \cup {None} : WithinRun(t) => (Older(t) # None => held' # None /\ Older(t) <= held')
      <3>1. ASSUME NEW t \in Ages \cup {None}, WithinRun(t), Older(t) # None PROVE held' # None /\ Older(t) <= held'
        BY <1>0, <2>1, <3>1, OlderIs DEF WithinRun
      <3> QED
        BY <1>0, <2>1, <3>1, OlderIs
    <2>3. ASSUME NEW e \in DEvals, dpc'[e] # "idle" PROVE Stands(e)'
      <3>1. Stands(e) /\ mySince[e] \in Ages \cup {None}
        BY <1>0, <2>1, <2>3 DEF OneRun
      <3>2. CASE reading[e] = "above"
        <4>1. held' # None /\ WithinRun(since)' /\ WithinRun(mySince[e])'
          BY <1>0, <2>1, <2>2, <3>1, <3>2 DEF Stands, AboveStands, WithinRun
        <4> QED
          BY <1>0, <2>1, <2>2, <3>1, <3>2, <4>1 DEF Stands, AboveStands
      <3>3. CASE reading[e] # "above"
        BY <1>0, <2>1, <2>2, <3>1, <3>3 DEF Stands, OtherStands
      <3> QED
        BY <3>2, <3>3
    <2>4. (\A e \in DEvals : dpc'[e] = "idle") => WithinRun(since)'
      BY <1>0, <2>1, <2>2 DEF OneRun, WithinRun
    <2> QED
      BY <2>1, <2>3, <2>4 DEF OneRun
  <1> QED
    BY <1>1, <1>2

LEMMA DurationHolds == DurationInit => DurationInv
  <1> SUFFICES ASSUME DurationInit PROVE DurationInv
    OBVIOUS
  <1>1. DurationTypeOK
    <2>1. dfaults \in 0..MaxDFaults
      BY Constants DEF DurationInit
    <2> QED
      BY <2>1 DEF DurationInit, DurationTypeOK, Conditions
  <1>2. OneRun
    BY DEF DurationInit, OneRun, WithinRun
  <1> QED
    BY <1>1, <1>2 DEF DurationInv

LEMMA DurationStep == DurationInv /\ [DurationNext]_dvars => DurationInv'
  <1> SUFFICES ASSUME DurationInv, [DurationNext]_dvars PROVE DurationInv'
    OBVIOUS
  <1>0. DurationTypeOK
    BY DEF DurationInv
  <1>1. Calm' => Calm /\ OneRun
    BY <1>0, CalmBefore DEF DurationInv
  <1>2. ASSUME NEW e \in DEvals, Step(e) \/ DAbandon(e) PROVE DurationInv'
    BY <1>0, <1>1, <1>2, StepType, StepRun DEF DurationInv
  <1>3. CASE Change \/ DTick
    BY <1>0, <1>1, <1>3, TimeType, TimeRun DEF DurationInv
  <1>4. CASE UNCHANGED dvars
    BY <1>0, <1>1, <1>4 DEF DurationInv, dvars, DurationTypeOK, OneRun, Stands, AboveStands, OtherStands, WithinRun
  <1> QED
    BY <1>2, <1>3, <1>4 DEF DurationNext

\* Only Open opens, and there the run is long enough.
LEMMA OpensInTime ==
    DurationInv /\ [DurationNext]_dvars => (~active /\ active' /\ ~overlap /\ dfaults = 0 => held = Duration)
  <1> SUFFICES ASSUME DurationInv, [DurationNext]_dvars, ~active, active', Calm PROVE held = Duration
    BY DEF Calm
  <1>1. OneRun
    BY DEF DurationInv
  <1>2. \E e \in DEvals : Open(e)
    <2>1. ASSUME NEW e \in DEvals, Step(e) \/ DAbandon(e) PROVE Open(e)
      BY <2>1 DEF Step, DLoad, Evaluate, Mark, Sustained, Clear, Resolve, DAbandon
    <2> QED
      BY <2>1 DEF DurationNext, Change, DTick, dvars
  <1>3. PICK e \in DEvals : Open(e)
    BY <1>2
  <1>4. dpc[e] = "open" /\ Stands(e)
    BY <1>1, <1>3 DEF Open, OneRun
  <1> QED
    BY <1>4 DEF Stands, AboveStands, OtherStands

\* While evaluations follow one another and nothing fails, no alert opens
\* before every reading of the last Duration was above the threshold, for any
\* duration, any sequence of readings and any number of evaluators
\* (engine.go: sustained, clearPending and their callers).
THEOREM NothingOpensEarly == DurationSpec => NoEarlyOpening
  <1>1. DurationInv /\ [DurationNext]_dvars => [~active /\ active' /\ ~overlap /\ dfaults = 0 => held = Duration]_dvars
    BY OpensInTime
  <1> QED
    BY <1>1, DurationHolds, DurationStep, PTL DEF DurationSpec, NoEarlyOpening
=============================================================================
