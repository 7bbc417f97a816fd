----------------------------- MODULE AlertRules -----------------------------
(***************************************************************************)
(* Which alerts a report opens, changes and closes (alertengine/engine.go, *)
(* status.go, numeric.go), one host, one report after another; the rules   *)
(* and thresholds change in between.  A behaviour is about one of the      *)
(* groups of checks below, which share nothing:                            *)
(*   usage   disk per mount; docker_restart, disk_latency, temperature and *)
(*           service_restart are the same with every subject selected      *)
(*   missing disk_missing                                                  *)
(*   ro      fs_readonly                                                   *)
(*   time    time_sync: unsynced, source, offset                           *)
(*   raid    raid_degraded and a flag (reboot_required, security_updates)  *)
(*   watch   service_failed, container_unhealthy                           *)
(*   oom     oom_kill                                                      *)
(* An evaluation may fail to read (nothing is done) or to write some of    *)
(* the changes.  Durations are zero here (module AlertDuration), except    *)
(* where the report itself tells since when.                               *)
(***************************************************************************)
EXTENDS Integers, Sequences, FiniteSets, TLC

CONSTANTS
    Mounts,        \* subjects
    Groups,        \* the groups checked
    Unset,         \* no level, no threshold, no data, nothing known
    Keep,          \* condition.keep
    MissingAfter,  \* missingMountReports
    QuietAfter,    \* duration of the oom_kill rule
    MaxRuleChanges \* bound

ASSUME RulesAssumption ==
    /\ {MissingAfter, QuietAfter} \subseteq Nat \ {0} /\ MaxRuleChanges \in Nat
    /\ Groups \subseteq {"usage", "missing", "ro", "time", "raid", "watch", "oom"}
    /\ Unset \notin {Keep, "ok", "high", "full", "rw", "ro", "unknown", "warning", "critical",
                     "degraded", "rebuilding", "fresh", "down", "unhealthy", "same", "more"}
    /\ Keep \notin {"unknown", "warning", "critical"}

VARIABLES
    group,    \* the group of this behaviour
    ruleset,  \* thresholds, selection and rules in force
    act,      \* level of the active alert of each key
    row,      \* the disk list of the newest metrics row
    lists,    \* mounts of the last rows that list any, newest first, as many as are read
    quiet,    \* age of the last OOM increase
    clean,    \* no evaluation has failed
    called,   \* what the newest report that spoke of the key called for, "unknown" if
              \* its change failed or the rules changed since
    ruleChanges,
    absent,   \* listing reports in a row without the mount
    fell,     \* has the mount become read-only, and is it still?
    knownRW   \* was it writable when last seen?

rlvars == <<group, ruleset, act, row, lists, quiet, clean, called, ruleChanges, absent, fell, knownRW>>

Types == {"disk", "disk_missing", "fs_readonly", "time_sync", "raid_degraded", "flag", "service_failed",
          "container_unhealthy", "oom_kill"}
TypesOf(g) ==
    CASE g = "usage" -> {"disk"} [] g = "missing" -> {"disk_missing"} [] g = "ro" -> {"fs_readonly"} [] g = "time" -> {"time_sync"}
      [] g = "raid" -> {"raid_degraded", "flag"} [] g = "watch" -> {"service_failed", "container_unhealthy"}
      [] g = "oom" -> {"oom_kill"}
TimeSubjects == {"unsynced", "source", "offset"}
Subjects(t) == CASE t = "time_sync" -> TimeSubjects [] t \in {"flag", "oom_kill"} -> {""} [] OTHER -> Mounts
Keys(g) == UNION {{<<t, x>> : x \in Subjects(t)} : t \in TypesOf(g)}

\* What may be configured, by group.
Rulesets(g) ==
    CASE g = "usage" -> [base: BOOLEAN, per: SUBSET Mounts, all: BOOLEAN, sel: SUBSET Mounts]
      [] g = "missing" -> [per: SUBSET Mounts, all: BOOLEAN, sel: SUBSET Mounts]
      [] g = "ro" -> [ro: BOOLEAN]
      [] g = "time" -> [unsynced: BOOLEAN, source: BOOLEAN, offset: BOOLEAN]
      [] g = "raid" -> [degraded: BOOLEAN, rebuilding: BOOLEAN, flag: BOOLEAN]
      [] g = "watch" -> [service: BOOLEAN, unhealthy: BOOLEAN]
      [] g = "oom" -> [oom: BOOLEAN]

\* What a report may say.  An empty list (every mount Unset) is what an
\* agent sends when collecting failed.
Reports(g) ==
    CASE g = "usage" -> [Mounts -> {Unset, "ok", "high", "full"}]
      [] g = "missing" -> [Mounts -> {Unset, "rw"}]
      [] g = "ro" -> [Mounts -> {Unset, "rw", "ro", "unknown"}]
      [] g = "time" -> [sync: {Unset, TRUE, FALSE}, info: {Unset, TRUE, FALSE}, detail: BOOLEAN, bad: BOOLEAN,
                        offset: {Unset, "ok", "high"}]
      [] g = "raid" -> [arrays: [Mounts -> {Unset, "clean", "degraded", "rebuilding"}], flag: {Unset, TRUE, FALSE}]
      [] g = "watch" -> [services: [Mounts -> {Unset, "unwatched", "up", "fresh", "down"}],
                         containers: [Mounts -> {Unset, "healthy", "unhealthy"}]]
      [] g = "oom" -> {Unset, "same", "more"}

-----------------------------------------------------------------------------
(* reconcile *)

\* (mutant) a subject that is not reported is left as it is
ReconcileKeeping(s, ty, conds, closeMissing) ==
    [k \in DOMAIN s |-> IF k[1] # ty \/ k[2] \notin DOMAIN conds \/ conds[k[2]] = Keep THEN s[k] ELSE conds[k[2]]]

\* conds gives a level, Unset (the alert closes) or Keep for subjects of the
\* type ty; with closeMissing those not in conds close.
Reconcile(s, ty, conds, closeMissing) ==
    [k \in DOMAIN s |->
        CASE k[1] # ty -> s[k]
          [] k[1] = ty /\ k[2] \in DOMAIN conds -> IF conds[k[2]] = Keep THEN s[k] ELSE conds[k[2]]
          [] OTHER -> IF closeMissing THEN Unset ELSE s[k]]

ResolveAll(s, ty) == Reconcile(s, ty, <<>>, TRUE)
Holds(on, cond) == IF on /\ cond THEN "critical" ELSE Unset
Listed(list) == {m \in DOMAIN list : list[m] # Unset}

-----------------------------------------------------------------------------
(* usage: evaluateDisks, evaluateSubjects, evaluateDocker *)

Selected(m) == ruleset.all \/ m \in ruleset.sel
HasThreshold(m) == m \in ruleset.per \/ ruleset.base

UsageRank == [ok |-> 0, high |-> 1, full |-> 2]

\* For: the subject's own threshold before the host's; its own is higher here.
ThresholdFor(m) == IF m \in ruleset.per THEN [warning |-> 2, critical |-> 3] ELSE [warning |-> 1, critical |-> 2]

\* apply
LevelOf(m, used) ==
    CASE UsageRank[used] >= ThresholdFor(m).critical -> "critical"
      [] UsageRank[used] \in ThresholdFor(m).warning..(ThresholdFor(m).critical - 1) -> "warning"
      [] OTHER -> Unset

EvaluateDisks(s, r) ==
    IF ~ruleset.base /\ ruleset.per = {} THEN ResolveAll(s, "disk")
    ELSE IF Listed(r) = {} THEN s
    ELSE Reconcile(s, "disk", [m \in {x \in Listed(r) : Selected(x) /\ HasThreshold(x)} |-> LevelOf(m, r[m])], TRUE)

-----------------------------------------------------------------------------
(* mounts *)

ExpectedMounts == IF ruleset.all THEN ruleset.per ELSE ruleset.sel

\* RecentReportedMounts: what it reads once the row r is added.
RecentReportedMounts(r) ==
    IF Listed(r) = {} THEN lists
    ELSE SubSeq(<<Listed(r)>> \o lists, 1, IF Len(lists) < MissingAfter THEN Len(lists) + 1 ELSE MissingAfter)

EvaluateMissingMounts(s, r) ==
    LET history == RecentReportedMounts(r)
        gone == {m \in ExpectedMounts \ Listed(r) :
                    Len(history) = MissingAfter /\ \A i \in DOMAIN history : m \notin history[i]}
        open == {m \in Mounts : s[<<"disk_missing", m>>] # Unset}
    IN  IF Listed(r) = {} THEN s
        ELSE Reconcile(s, "disk_missing",
                 [m \in gone \cup (open \cap (ExpectedMounts \ Listed(r))) |-> "critical"], TRUE)

\* PreviousDisks: the row before the one just added, whatever it lists.
PreviousDisks == row

EvaluateReadOnly(s, r) ==
    LET cond(m) == CASE r[m] = "unknown" -> Keep
                     [] r[m] = "rw" -> Unset
                     [] OTHER -> IF s[<<"fs_readonly", m>>] # Unset \/ PreviousDisks[m] = "rw"
                                 THEN "critical" ELSE Keep
    IN  IF ~ruleset.ro THEN ResolveAll(s, "fs_readonly")
        ELSE IF Listed(r) = {} THEN s
        ELSE Reconcile(s, "fs_readonly", [m \in Listed(r) |-> cond(m)], TRUE)

-----------------------------------------------------------------------------
(* time *)

Synced(r) == IF r.detail /\ r.sync # Unset THEN r.sync ELSE r.info

\* evaluateTimeSync, with timeSourceProblem as r.bad.
EvaluateTimeSync(s, r) ==
    Reconcile(s, "time_sync",
        [x \in {"unsynced", "source"} |->
            IF x = "unsynced"
            THEN IF ~ruleset.unsynced THEN Unset ELSE IF Synced(r) = Unset THEN Keep ELSE Holds(TRUE, ~Synced(r))
            ELSE IF ~ruleset.source THEN Unset
                 ELSE IF ~r.detail \/ Synced(r) = Unset THEN Keep ELSE Holds(TRUE, Synced(r) /\ r.bad)], FALSE)

EvaluateTimeOffset(s, r) ==
    Reconcile(s, "time_sync",
        [x \in {"offset"} |-> IF ~ruleset.offset THEN Unset
                              ELSE IF ~r.detail \/ r.offset = Unset THEN Keep ELSE Holds(TRUE, r.offset = "high")], FALSE)

-----------------------------------------------------------------------------
(* raid, flags, services, containers, oom *)

EvaluateRAID(s, r) ==
    LET cond(st) == CASE st = "degraded" -> IF ruleset.degraded THEN "critical" ELSE Unset
                      [] st = "rebuilding" -> IF ruleset.rebuilding THEN "warning" ELSE Unset
                      [] OTHER -> Unset
    IN  IF ~ruleset.degraded /\ ~ruleset.rebuilding THEN ResolveAll(s, "raid_degraded")
        ELSE IF Listed(r.arrays) = {} THEN s
        ELSE Reconcile(s, "raid_degraded", [m \in Listed(r.arrays) |-> cond(r.arrays[m])], TRUE)

\* evaluateFlag: one flag, one alert.
EvaluateFlag(s, r) ==
    IF ~ruleset.flag THEN ResolveAll(s, "flag")
    ELSE IF r.flag = Unset THEN s
    ELSE Reconcile(s, "flag", [x \in {""} |-> Holds(TRUE, r.flag)], FALSE)

\* evaluateServices: "fresh" is down for less than the rule's duration.
EvaluateServices(s, r) ==
    LET watched == {m \in Listed(r.services) : r.services[m] # "unwatched"}
        cond(m) == CASE r.services[m] = "down" -> "critical"
                     [] r.services[m] = "up" -> Unset
                     [] OTHER -> IF s[<<"service_failed", m>>] # Unset THEN "critical" ELSE Keep
    IN  IF ~ruleset.service THEN ResolveAll(s, "service_failed")
        ELSE Reconcile(s, "service_failed", [m \in watched |-> cond(m)], TRUE)

EvaluateContainers(s, r) ==
    IF ~ruleset.unhealthy THEN ResolveAll(s, "container_unhealthy")
    ELSE IF Listed(r.containers) = {} THEN s
    ELSE Reconcile(s, "container_unhealthy",
             [m \in Listed(r.containers) |-> Holds(TRUE, r.containers[m] = "unhealthy")], TRUE)

\* (mutant) the first report without an increase closes the alert
EvaluateOOMKillsAtOnce(s, r, age) ==
    IF ~ruleset.oom THEN ResolveAll(s, "oom_kill")
    ELSE IF r = Unset THEN s
    ELSE Reconcile(s, "oom_kill", [x \in {""} |-> IF r = "more" THEN "critical" ELSE Unset], FALSE)

EvaluateOOMKills(s, r, age) ==
    LET active == s[<<"oom_kill", "">>] # Unset
    IN  IF ~ruleset.oom THEN ResolveAll(s, "oom_kill")
        ELSE IF r = Unset THEN s
        ELSE Reconcile(s, "oom_kill", [x \in {""} |->
                 IF r = "more" \/ (active /\ age < QuietAfter) THEN "critical" ELSE Unset], FALSE)

-----------------------------------------------------------------------------
(* EvaluateReport *)

EvaluateReport(s, r, age) ==
    CASE group = "usage" -> EvaluateDisks(s, r)
      [] group = "missing" -> EvaluateMissingMounts(s, r)
      [] group = "ro" -> EvaluateReadOnly(s, r)
      [] group = "time" -> EvaluateTimeOffset(EvaluateTimeSync(s, r), r)
      [] group = "raid" -> EvaluateFlag(EvaluateRAID(s, r), r)
      [] group = "watch" -> EvaluateContainers(EvaluateServices(s, r), r)
      [] group = "oom" -> EvaluateOOMKills(s, r, age)

-----------------------------------------------------------------------------
(* History: what a report, taken by itself, says of one subject under the  *)
(* rules in force: that its alert is to have a level, to be closed (Unset) *)
(* or nothing (Keep).                                                      *)

Absences(m, r) ==
    CASE Listed(r) = {} -> absent[m]
      [] m \in Listed(r) -> 0
      [] OTHER -> IF absent[m] < MissingAfter THEN absent[m] + 1 ELSE absent[m]

SaysOfUsage(m, r) ==
    CASE Listed(r) = {} /\ (ruleset.base \/ ruleset.per # {}) -> Keep
      [] m \in Listed(r) /\ (ruleset.all \/ m \in ruleset.sel) /\ m \in ruleset.per ->
            IF r[m] = "full" THEN "warning" ELSE Unset
      [] m \in Listed(r) /\ (ruleset.all \/ m \in ruleset.sel) /\ m \notin ruleset.per /\ ruleset.base ->
            IF r[m] = "full" THEN "critical" ELSE IF r[m] = "high" THEN "warning" ELSE Unset
      [] OTHER -> Unset

SaysOfMissing(m, r) ==
    CASE Listed(r) = {} -> Keep
      [] Listed(r) # {} /\ m \notin Listed(r) /\ (IF ruleset.all THEN m \in ruleset.per ELSE m \in ruleset.sel) ->
            IF Absences(m, r) = MissingAfter THEN "critical" ELSE Keep
      [] OTHER -> Unset

\* It has become read-only only if the row before says that it was writable.
SaysOfReadOnly(m, r) ==
    CASE ~ruleset.ro -> Unset
      [] ruleset.ro /\ r[m] = "ro" -> IF row[m] = "rw" THEN "critical" ELSE Keep
      [] ruleset.ro /\ (r[m] = "unknown" \/ Listed(r) = {}) -> Keep
      [] OTHER -> Unset

SaysOfTime(x, r) ==
    LET synced == IF r.detail /\ r.sync # Unset THEN r.sync ELSE r.info
        on == CASE x = "unsynced" -> ruleset.unsynced [] x = "source" -> ruleset.source [] x = "offset" -> ruleset.offset
        known == (x # "unsynced" => r.detail) /\ (IF x = "offset" THEN r.offset # Unset ELSE synced # Unset)
        wrong == CASE x = "unsynced" -> ~synced
                   [] x = "source" -> synced /\ r.bad
                   [] x = "offset" -> r.offset = "high"
    IN  IF ~on THEN Unset ELSE IF ~known THEN Keep ELSE IF wrong THEN "critical" ELSE Unset

\* One rule switched off closes nothing without the list, as long as the
\* other one is on.
SaysOfRAID(m, r) ==
    CASE Listed(r.arrays) = {} /\ (ruleset.degraded \/ ruleset.rebuilding) -> Keep
      [] r.arrays[m] = "degraded" /\ ruleset.degraded -> "critical"
      [] r.arrays[m] = "rebuilding" /\ ruleset.rebuilding -> "warning"
      [] OTHER -> Unset

SaysOfFlag(r) == IF ~ruleset.flag THEN Unset ELSE IF r.flag = Unset THEN Keep ELSE IF r.flag THEN "critical" ELSE Unset

SaysOfService(m, r) ==
    CASE ruleset.service /\ r.services[m] = "fresh" -> Keep
      [] ruleset.service /\ r.services[m] = "down" -> "critical"
      [] OTHER -> Unset

SaysOfContainer(m, r) ==
    CASE ruleset.unhealthy /\ Listed(r.containers) = {} -> Keep
      [] ruleset.unhealthy /\ r.containers[m] = "unhealthy" -> "critical"
      [] OTHER -> Unset

SaysOfOOM(r, age) ==
    CASE ruleset.oom /\ r = "more" -> "critical"
      [] ruleset.oom /\ (r = Unset \/ (r = "same" /\ age < QuietAfter)) -> Keep
      [] OTHER -> Unset

Says(k, r, age) ==
    CASE k[1] = "disk" -> SaysOfUsage(k[2], r)
      [] k[1] = "disk_missing" -> SaysOfMissing(k[2], r)
      [] k[1] = "fs_readonly" -> SaysOfReadOnly(k[2], r)
      [] k[1] = "time_sync" -> SaysOfTime(k[2], r)
      [] k[1] = "raid_degraded" -> SaysOfRAID(k[2], r)
      [] k[1] = "flag" -> SaysOfFlag(r)
      [] k[1] = "service_failed" -> SaysOfService(k[2], r)
      [] k[1] = "container_unhealthy" -> SaysOfContainer(k[2], r)
      [] k[1] = "oom_kill" -> SaysOfOOM(r, age)

Calls(k, r, age, failed) ==
    IF failed THEN "unknown" ELSE IF Says(k, r, age) = Keep THEN called[k] ELSE Says(k, r, age)

NextFell(m, r) ==
    CASE r[m] = "rw" \/ (r[m] = Unset /\ Listed(r) # {}) -> FALSE
      [] r[m] = "ro" /\ knownRW[m] /\ ruleset.ro -> TRUE
      [] OTHER -> fell[m]

-----------------------------------------------------------------------------
\* A report is stored and evaluated; lost are the keys whose change failed,
\* all of them when the state could not be read.
Report ==
    \E r \in Reports(group), lost \in {{}, Keys(group)} \cup {{k} : k \in Keys(group)} :
        LET age == IF r = "more" THEN 0 ELSE quiet
            out == EvaluateReport(act, r, age)
            failed == {k \in lost : out[k] # act[k]}
        IN  /\ row' = IF group \in {"usage", "ro"} THEN r ELSE row
            /\ lists' = IF group = "missing" THEN RecentReportedMounts(r) ELSE lists
            /\ quiet' = IF group = "oom" THEN age ELSE quiet
            /\ act' = [k \in Keys(group) |-> IF k \in lost THEN act[k] ELSE out[k]]
            /\ clean' = (clean /\ failed = {})
            /\ called' = [k \in Keys(group) |-> Calls(k, r, age, k \in failed)]
            /\ absent' = IF group = "missing" THEN [m \in Mounts |-> Absences(m, r)] ELSE absent
            /\ IF group = "ro"
               THEN /\ fell' = [m \in Mounts |-> NextFell(m, r)]
                    /\ knownRW' = [m \in Mounts |-> CASE r[m] = "rw" -> TRUE
                                                     [] r[m] = "ro" \/ (r[m] = Unset /\ Listed(r) # {}) -> FALSE
                                                     [] OTHER -> knownRW[m]]
               ELSE UNCHANGED <<fell, knownRW>>
            /\ UNCHANGED <<group, ruleset, ruleChanges>>

\* Thresholds, the selection or the rules are changed.
ChangeRules ==
    /\ ruleChanges < MaxRuleChanges
    /\ ruleset' \in Rulesets(group) \ {ruleset}
    /\ ruleChanges' = ruleChanges + 1
    /\ called' = [k \in Keys(group) |-> "unknown"]
    /\ fell' = IF group = "ro" /\ ~ruleset'.ro THEN [m \in Mounts |-> FALSE] ELSE fell
    /\ UNCHANGED <<group, act, row, lists, quiet, clean, absent, knownRW>>

TimePasses ==
    /\ group = "oom" /\ quiet < QuietAfter
    /\ quiet' = quiet + 1
    /\ UNCHANGED <<group, ruleset, act, row, lists, clean, called, ruleChanges, absent, fell, knownRW>>

RulesInit ==
    /\ group \in Groups
    /\ ruleset \in Rulesets(group)
    /\ act = [k \in Keys(group) |-> Unset]
    /\ row = [m \in Mounts |-> Unset] /\ lists = <<>> /\ quiet = QuietAfter /\ clean = TRUE /\ ruleChanges = 0
    /\ called = [k \in Keys(group) |-> Unset]
    /\ absent = [m \in Mounts |-> 0]
    /\ fell = [m \in Mounts |-> FALSE]
    /\ knownRW = [m \in Mounts |-> FALSE]

RulesNext == Report \/ ChangeRules \/ TimePasses

RulesSpec == RulesInit /\ [][RulesNext]_rlvars

RulesTypeOK ==
    /\ group \in Groups /\ ruleset \in Rulesets(group)
    /\ act \in [Keys(group) -> {Unset, "warning", "critical"}]
    /\ called \in [Keys(group) -> {Unset, "warning", "critical", "unknown"}]
    /\ quiet \in 0..QuietAfter /\ clean \in BOOLEAN /\ ruleChanges \in 0..MaxRuleChanges
    /\ lists \in UNION {[1..n -> SUBSET Mounts] : n \in 0..MissingAfter}
    /\ absent \in [Mounts -> 0..MissingAfter] /\ fell \in [Mounts -> BOOLEAN]

-----------------------------------------------------------------------------
(* Properties *)

\* The alert of every subject, in every group, is what the newest report that
\* spoke of the subject called for: a list is evaluated as a whole, but what
\* becomes of a subject is decided by what is said of it alone, and the
\* reports since that say nothing of it, however many, have changed nothing.
\* Excepted, until a report speaks of it again, is a subject whose last
\* change failed or whose rules were changed.
FollowsReports == \A k \in Keys(group) : called[k] \in {act[k], "unknown"}

\* A mount is called missing only after MissingAfter reports in a row that
\* list disks and not this one; a failed collection does not count.
MissingIsReal ==
    (group = "missing" /\ clean) => \A m \in Mounts : act[<<"disk_missing", m>>] # Unset => absent[m] >= MissingAfter

\* "Without data in a report nothing changes" (status.go): while no evaluation
\* fails, a mount that was writable when last seen and is read-only now has
\* its alert.  It has not: the transition is looked for in the row before, and
\* a failed collection leaves nothing to be seen there.
ReadOnlyNoticed ==
    (group = "ro" /\ clean) => \A m \in Mounts : fell[m] => act[<<"fs_readonly", m>>] # Unset

\* The kernel killed for want of memory less than QuietAfter ago: the alert
\* is there, whatever the reports since then did not say.
OOMStays ==
    [][group = "oom" /\ clean' /\ ruleset.oom /\ ruleset'.oom =>
          (act[<<"oom_kill", "">>] # Unset /\ quiet' < QuietAfter => act'[<<"oom_kill", "">>] # Unset)]_rlvars

\* A report that lists no disk (a failed collection) changes no disk alert
\* while a threshold is left.
EmptyListKeeps ==
    [][group = "usage" =>
          (Listed(row') = {} /\ (ruleset.base \/ ruleset.per # {}) => act' = act)]_rlvars

\* The open alerts are those the reports have called for under the rules of
\* now, with the exceptions FollowsReports names, and no mount is called
\* missing that is not (engine.go, status.go, numeric.go).
AlertsExact == RulesTypeOK /\ FollowsReports /\ MissingIsReal

\* A report that says nothing of a condition ends no alert of it (status.go,
\* engine.go).
SilenceKeeps == OOMStays /\ EmptyListKeeps
=============================================================================
