------------------------------ MODULE MCConfig ------------------------------
(* What an operator configures and what follows from it: maintenance,       *)
(* alert rules, thresholds and recipients.  The components share no state   *)
(* in these models: a behaviour moves the one in focus and the others stand *)
(* still.  Thresholds are looked at three times, a single default edited at *)
(* once by two requests, two writes of a host's overrides, and one write at *)
(* a time over every scope.                                                 *)
EXTENDS MaintenanceWindows, AlertRules, Thresholds, Recipients, TLC

CONSTANT Focus
VARIABLE focus

\* Three months of three-day weeks.
MCMonths == <<7, 6, 8>>

\* A clock that goes forward and one that goes back.
Forward == [at |-> 4, before |-> -1, after |-> 0]
Back == [at |-> 4, before |-> 0, after |-> -1]
MCZones == {Forward, Back}

\* A daily window of two days, a weekly one of a single week that is longer
\* than its distance to midnight, and a single one.
DailyForm ==
    [kind |-> "daily", starts |-> NoField, ends |-> NoField, minute |-> 1, dur |-> 2, every |-> 1, days |-> NoField,
     mday |-> NoField, mweek |-> NoField, mwd |-> NoField, from |-> 0, until |-> 1]
MCForms ==
    {DailyForm,
     [DailyForm EXCEPT !.kind = "weekly", !.days = {1}, !.dur = 4, !.until = 0],
     [DailyForm EXCEPT !.kind = "once", !.starts = 2, !.ends = 5, !.minute = NoField, !.dur = NoField,
                   !.from = NoField, !.until = NoField]}

MCHostOrg == [h \in WHosts |-> IF h = "h1" THEN "o1" ELSE "o2"]
MCScopes == {{"h1"}, {"o1", "h2"}}
MCKeys == <<"base", "mount">>
MCParent == ("o1" :> "o2") @@ ("o2" :> "none")
MCLower == ("a" :> "a") @@ ("A" :> "a")

MCInit ==
    /\ focus \in Focus
    /\ IF focus = "calendar"
       THEN CalInit
       ELSE cwin = [DailyForm EXCEPT !.dur = 1, !.until = NoField] /\ czone = Forward /\ cday = 0
    /\ WindowsInit /\ (focus # "windows" => zone = Forward)
    /\ RulesInit
    /\ IF focus = "rules" THEN (group = "usage" /\ ruleset.all) => ruleset.sel = {}
       ELSE group = "usage" /\ ruleset = [base |-> FALSE, per |-> {}, all |-> FALSE, sel |-> {}]
    /\ ThresholdsInit
    /\ RecipientsInit /\ namedFirst \in RUsers /\ \A u \in RUsers : addr[u] = "a"
    /\ focus # "recipients" => channel = "on" /\ \A u \in RUsers : role[u] = "super_admin"

MCNext ==
    /\ \/ focus = "calendar" /\ CalNext /\ UNCHANGED <<wvars, rlvars, tvars, nvars>>
       \/ focus = "windows" /\ WindowsNext /\ UNCHANGED <<calvars, rlvars, tvars, nvars>>
       \/ focus = "rules" /\ RulesNext /\ UNCHANGED <<calvars, wvars, tvars, nvars>>
       \/ focus = "patch" /\ PatchNext({General}) /\ UNCHANGED <<calvars, wvars, rlvars, nvars>>
       \/ focus = "put" /\ PutNext /\ UNCHANGED <<calvars, wvars, rlvars, nvars>>
       \/ focus = "put" /\ Create(Super, General, 0, MaxLevel, NoDuration)
                        /\ UNCHANGED <<calvars, wvars, rlvars, nvars>>
       \/ focus = "scopes" /\ ScopeNext /\ UNCHANGED <<calvars, wvars, rlvars, nvars>>
       \/ focus = "scopes" /\ (\E s \in Scopes2, w, c \in {0, MaxLevel} : Create(Super, s, w, c, NoDuration))
                           /\ UNCHANGED <<calvars, wvars, rlvars, nvars>>
       \/ focus = "recipients" /\ RecipientsNext /\ UNCHANGED <<calvars, wvars, rlvars, tvars>>
    /\ UNCHANGED focus

MCSpec == MCInit /\ [][MCNext]_<<focus, calvars, wvars, rlvars, tvars, nvars>>

\* The cfg gives the requests and the mounts the same two names.
Symmetric == Permutations(WReqs) \cup Permutations(Wids)
=============================================================================
