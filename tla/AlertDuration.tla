---------------------------- MODULE AlertDuration ----------------------------
(***************************************************************************)
(* The duration condition of an alert (table alert_pending; sustained,     *)
(* clearPending and their callers apply and reconcile in                   *)
(* alertengine/engine.go, status.go and numeric.go), for one key of a type *)
(* that has durations: the condition must hold without interruption for    *)
(* Duration before the alert opens.                                        *)
(*                                                                         *)
(* cond is the true state of the watched thing; a report carries what it   *)
(* was when the evaluation began ("gone": the list is there, the subject   *)
(* is not on it; a report without data changes nothing and is left out).   *)
(* An evaluation reads the alert and the pending record once, then works   *)
(* by single statements, each of which may fail or be the last one.        *)
(*                                                                         *)
(* Times are ages in ticks, capped at Duration: nothing tells older ages   *)
(* apart.  Levels and notifications are module AlertLifecycle.  Left out:  *)
(* service conditions, whose start the agent reports.                      *)
(***************************************************************************)
EXTENDS Integers

CONSTANTS
    DEvals,       \* goroutines that evaluate reports of the host
    Duration,     \* duration_seconds, in ticks
    MaxDFaults    \* bound on failed statements and crashes

ASSUME DurationAssumption ==
    Duration \in Nat /\ MaxDFaults \in Nat

VARIABLES
    statusRule, \* TRUE: an alert of a status rule (reconcile), FALSE: of a threshold (apply)
    cond,      \* the watched thing: "above", "below" or "gone"
    since,     \* age of the alert_pending record, None without one
    active,    \* is the alert active?
    held,      \* age of the unbroken run of "above" readings, None without one
    dpc,       \* where each evaluator is
    reading,   \* the reading it evaluates
    mySince,   \* st.pending of the key
    myActive,  \* st.active of the key
    overlap,   \* two evaluations were in progress at once
    dfaults

dvars == <<statusRule, cond, since, active, held, dpc, reading, mySince, myActive, overlap, dfaults>>

None == -1
Ages == 0..Duration
Conditions == {"above", "below", "gone"}

DurationTypeOK ==
    /\ statusRule \in BOOLEAN /\ overlap \in BOOLEAN
    /\ cond \in Conditions
    /\ since \in Ages \cup {None} /\ held \in Ages \cup {None}
    /\ active \in BOOLEAN
    /\ dpc \in [DEvals -> {"idle", "loaded", "mark", "sustained", "clear", "open", "resolve"}]
    /\ reading \in [DEvals -> Conditions]
    /\ mySince \in [DEvals -> Ages \cup {None}]
    /\ myActive \in [DEvals -> BOOLEAN]
    /\ dfaults \in 0..MaxDFaults

-----------------------------------------------------------------------------
DurationInit ==
    /\ statusRule \in BOOLEAN /\ overlap = FALSE
    /\ cond \in Conditions
    /\ since = None /\ held = None /\ active = FALSE
    /\ dpc = [e \in DEvals |-> "idle"]
    /\ reading = [e \in DEvals |-> "below"]
    /\ mySince = [e \in DEvals |-> None]
    /\ myActive = [e \in DEvals |-> FALSE]
    /\ dfaults = 0

DFaulty == dfaults < MaxDFaults /\ dfaults' = dfaults + 1

\* The evaluation is over; its hostState is garbage.
Finish(e) ==
    /\ dpc' = [dpc EXCEPT ![e] = "idle"]
    /\ reading' = [reading EXCEPT ![e] = "below"]
    /\ mySince' = [mySince EXCEPT ![e] = None]
    /\ myActive' = [myActive EXCEPT ![e] = FALSE]

DGoto(e, label) == dpc' = [dpc EXCEPT ![e] = label] /\ UNCHANGED <<reading, mySince, myActive>>

\* loadState
DLoad(e) ==
    /\ dpc[e] = "idle"
    /\ reading' = [reading EXCEPT ![e] = cond]
    /\ mySince' = [mySince EXCEPT ![e] = since]
    /\ myActive' = [myActive EXCEPT ![e] = active]
    /\ held' = IF cond # "above" THEN None ELSE IF held = None THEN 0 ELSE held
    /\ dpc' = [dpc EXCEPT ![e] = "loaded"]
    /\ overlap' = (overlap \/ \E o \in DEvals : dpc[o] # "idle")
    /\ UNCHANGED <<statusRule, cond, since, active, dfaults>>

\* The time is up at once without a duration; else the start is needed.
Waiting(e) == IF Duration > 0 /\ mySince[e] = None THEN "mark" ELSE "sustained"

\* What is left to do while the alert is active: reconcile removes a record
\* that stayed behind, apply does not.
WhileActive == IF statusRule THEN "clear" ELSE "idle"

\* (mutants) a reading below the threshold leaves the record where it is; so
\* does a subject that has gone, as long as it has no alert
AfterLoadKeeps(e) ==
    IF reading[e] = "above" THEN IF myActive[e] THEN WhileActive ELSE Waiting(e)
    ELSE IF myActive[e] THEN "resolve" ELSE "idle"
AfterLoadForgets(e) ==
    IF reading[e] = "above" THEN IF myActive[e] THEN WhileActive ELSE Waiting(e)
    ELSE IF reading[e] = "below" THEN "clear"
    ELSE IF myActive[e] THEN "resolve" ELSE "idle"

\* Where the evaluation goes: the record is cleared before the alert is
\* resolved, but the alert of a missing subject is resolved first.
AfterLoad(e) ==
    IF reading[e] = "above" THEN IF myActive[e] THEN WhileActive ELSE Waiting(e)
    ELSE IF reading[e] = "gone" /\ myActive[e] THEN "resolve" ELSE "clear"

Evaluate(e) ==
    /\ dpc[e] = "loaded"
    /\ IF AfterLoad(e) = "idle" THEN Finish(e) ELSE DGoto(e, AfterLoad(e))
    /\ UNCHANGED <<statusRule, cond, since, active, held, dfaults, overlap>>

\* MarkPending: INSERT, or keep the start that is there.
Mark(e) ==
    /\ dpc[e] = "mark"
    /\ since' = IF since = None THEN 0 ELSE since
    /\ mySince' = [mySince EXCEPT ![e] = since']
    /\ dpc' = [dpc EXCEPT ![e] = "sustained"]
    /\ UNCHANGED <<statusRule, cond, active, held, reading, myActive, dfaults, overlap>>

\* (mutant) a report that comes too early throws the record away
SustainedRestarts(e) ==
    /\ dpc[e] = "sustained"
    /\ IF Duration > 0 /\ mySince[e] < Duration
       THEN Finish(e) /\ since' = None
       ELSE DGoto(e, "clear") /\ UNCHANGED since
    /\ UNCHANGED <<statusRule, cond, active, held, dfaults, overlap>>

\* now - since >= d ?
Sustained(e) ==
    /\ dpc[e] = "sustained"
    /\ IF Duration > 0 /\ mySince[e] < Duration THEN Finish(e) ELSE DGoto(e, "clear")
    /\ UNCHANGED <<statusRule, cond, since, active, held, dfaults, overlap>>

AfterClear(e) ==
    IF reading[e] = "above" THEN IF myActive[e] THEN "idle" ELSE "open"
    ELSE IF reading[e] = "below" /\ myActive[e] THEN "resolve" ELSE "idle"

\* clearPending: nothing to do without a record in hand; a failed DELETE is
\* logged and the evaluation goes on.
Clear(e) ==
    /\ dpc[e] = "clear"
    /\ \/ since' = (IF mySince[e] = None THEN since ELSE None) /\ UNCHANGED dfaults
       \/ mySince[e] # None /\ DFaulty /\ UNCHANGED since
    /\ IF AfterClear(e) = "idle" THEN Finish(e) ELSE DGoto(e, AfterClear(e))
    /\ UNCHANGED <<statusRule, cond, active, held, overlap>>

\* open (CreateIfNoneActive)
Open(e) ==
    /\ dpc[e] = "open"
    /\ active' = TRUE
    /\ Finish(e)
    /\ UNCHANGED <<statusRule, cond, since, held, dfaults, overlap>>

\* resolveAndNotify; a failure is logged, the evaluation goes on either way.
Resolve(e) ==
    /\ dpc[e] = "resolve"
    /\ \/ active' = FALSE /\ UNCHANGED dfaults
       \/ DFaulty /\ UNCHANGED active
    /\ IF reading[e] = "gone" THEN DGoto(e, "clear") ELSE Finish(e)
    /\ UNCHANGED <<statusRule, cond, since, held, overlap>>

\* MarkPending or CreateIfNoneActive fails, or the process stops anywhere.
DAbandon(e) ==
    /\ dpc[e] # "idle"
    /\ DFaulty
    /\ Finish(e)
    /\ UNCHANGED <<statusRule, cond, since, active, held, overlap>>

\* The watched thing changes.
Change ==
    /\ cond' \in Conditions \ {cond}
    /\ UNCHANGED <<statusRule, since, active, held, dpc, reading, mySince, myActive, dfaults, overlap>>

Older(t) == IF t \in 0..(Duration - 1) THEN t + 1 ELSE t

DTick ==
    /\ since' = Older(since) /\ held' = Older(held)
    /\ mySince' = [e \in DEvals |-> Older(mySince[e])]
    /\ UNCHANGED <<statusRule, cond, active, dpc, reading, myActive, dfaults, overlap>>

Step(e) ==
    DLoad(e) \/ Evaluate(e) \/ Mark(e) \/ Sustained(e) \/ Clear(e) \/ Open(e) \/ Resolve(e)

DurationNext == (\E e \in DEvals : Step(e) \/ DAbandon(e)) \/ Change \/ DTick

DurationSpec == DurationInit /\ [][DurationNext]_dvars

\* Reports keep coming, an evaluation that has begun goes on (or fails), and
\* time passes.
DurationFairSpec == DurationSpec /\ WF_dvars(DTick) /\ \A e \in DEvals : WF_dvars(Step(e))

-----------------------------------------------------------------------------
(* Properties                                                              *)

\* While reports are evaluated one at a time and nothing fails, the alert
\* opens only when every reading of the last Duration was above the threshold
\* (the start of the condition is not carried over a reading below it, nor
\* over the absence of the subject, nor over an earlier alert).
NoEarlyOpening == [][~active /\ active' /\ ~overlap /\ dfaults = 0 => held = Duration]_dvars

\* A condition that stays gets its alert, across failed statements and
\* restarts of the server: the time already waited is not lost for good.
SustainedOpens == <>[](cond = "above") => []<>active

\* A condition that is over for good leaves neither an alert nor a record
\* that would shorten the next wait.
RecoveryClears == <>[](cond # "above") => <>[](~active /\ since = None)

=============================================================================
