---------------------------- MODULE HostPresence ----------------------------
(***************************************************************************)
(* Whether a host is online, and its host_offline alert: the reports of    *)
(* the agent (ingest/ingest.go, Hosts.MarkOnline, the first part of        *)
(* Engine.EvaluateReport) and the offline monitor of every replica         *)
(* (offlinemonitor/monitor.go, Hosts.ListStale, Hosts.MarkOffline,         *)
(* Engine.RaiseOffline), for one host that has been installed.             *)
(*                                                                         *)
(* Both work by single statements on host_status and alerts; no            *)
(* transaction and no lock spans two of them.                              *)
(*                                                                         *)
(* silence is the age of last_seen in report intervals, capped just above  *)
(* Grace.  While the agent lives its report arrives within an interval,    *)
(* and a report in progress is done within one.                            *)
(***************************************************************************)
EXTENDS Integers

CONSTANTS
    Ingests,      \* goroutines that record a report of the host
    Monitors,     \* replicas that run the offline monitor
    Grace,        \* graceMultiplier
    MaxOutages,   \* bound on how often the agent falls silent
    MaxHFaults    \* bound on failed statements and crashes of the server

ASSUME PresenceAssumption ==
    /\ Grace \in Nat \ {0} /\ MaxOutages \in Nat /\ MaxHFaults \in Nat
    /\ Ingests \cap Monitors = {}

VARIABLES
    alive,      \* does the agent report?
    state,      \* host_status.status
    silence,    \* now - last_seen
    alert,      \* number of the active host_offline alert, 0 without one
    raised,     \* alerts raised so far
    hpc,        \* where each ingest and each monitor is
    found,      \* the active alert an ingest has read
    outages, hfaults

presvars == <<alive, state, silence, alert, raised, hpc, found, outages, hfaults>>

Procs == Ingests \cup Monitors

PresenceTypeOK ==
    /\ alive \in BOOLEAN
    /\ state \in {"online", "offline"}
    /\ silence \in 0..(Grace + 1)
    /\ raised \in Nat /\ alert \in 0..raised
    /\ hpc \in [Procs -> {"idle", "online", "load", "resolve", "offline", "check", "raise"}]
    /\ found \in [Ingests -> 0..raised]
    /\ outages \in 0..MaxOutages /\ hfaults \in 0..MaxHFaults

-----------------------------------------------------------------------------
PresenceInit ==
    /\ alive = TRUE /\ state = "online" /\ silence = 0
    /\ alert = 0 /\ raised = 0
    /\ hpc = [p \in Procs |-> "idle"]
    /\ found = [i \in Ingests |-> 0]
    /\ outages = 0 /\ hfaults = 0

HGoto(p, label) == hpc' = [hpc EXCEPT ![p] = label]

HFaulty == hfaults < MaxHFaults /\ hfaults' = hfaults + 1

\* Record: the metric row is stored.
Receive(i) ==
    /\ alive /\ hpc[i] = "idle" /\ silence > 0
    /\ HGoto(i, "online")
    /\ UNCHANGED <<alive, state, silence, alert, raised, found, outages, hfaults>>

\* UPDATE host_status SET status = 'online', last_seen = now(); a failure is
\* logged and the report evaluated all the same.
MarkOnline(i) ==
    /\ hpc[i] = "online"
    /\ \/ state' = "online" /\ silence' = 0 /\ UNCHANGED hfaults
       \/ HFaulty /\ UNCHANGED <<state, silence>>
    /\ HGoto(i, "load")
    /\ UNCHANGED <<alive, alert, raised, found, outages>>

\* loadState, then take(host_offline)
LoadAlert(i) ==
    /\ hpc[i] = "load"
    /\ IF alert = 0
       THEN HGoto(i, "idle") /\ UNCHANGED found
       ELSE HGoto(i, "resolve") /\ found' = [found EXCEPT ![i] = alert]
    /\ UNCHANGED <<alive, state, silence, alert, raised, outages, hfaults>>

\* (mutant) the alert is left active
ResolveNothing(i) ==
    /\ hpc[i] = "resolve"
    /\ HGoto(i, "idle") /\ found' = [found EXCEPT ![i] = 0]
    /\ UNCHANGED <<alive, state, silence, alert, raised, outages, hfaults>>

\* resolveAndNotify of the alert that was read
ResolveOffline(i) ==
    /\ hpc[i] = "resolve"
    /\ alert' = IF alert = found[i] THEN 0 ELSE alert
    /\ HGoto(i, "idle") /\ found' = [found EXCEPT ![i] = 0]
    /\ UNCHANGED <<alive, state, silence, raised, outages, hfaults>>

\* (mutant) the list asks for the wrong status
ListStaleOffline(m) ==
    /\ hpc[m] = "idle" /\ state = "offline" /\ silence > Grace
    /\ HGoto(m, "offline")
    /\ UNCHANGED <<alive, state, silence, alert, raised, found, outages, hfaults>>

\* ListStale: online hosts that have been silent for longer than Grace.
ListStale(m) ==
    /\ hpc[m] = "idle" /\ state = "online" /\ silence > Grace
    /\ HGoto(m, "offline")
    /\ UNCHANGED <<alive, state, silence, alert, raised, found, outages, hfaults>>

\* UPDATE host_status SET status = 'offline', whatever it is by now.
MarkOffline(m) ==
    /\ hpc[m] = "offline"
    /\ state' = "offline"
    /\ HGoto(m, "check")
    /\ UNCHANGED <<alive, silence, alert, raised, found, outages, hfaults>>

\* RaiseOffline: GetActive
CheckActive(m) ==
    /\ hpc[m] = "check"
    /\ HGoto(m, IF alert = 0 THEN "raise" ELSE "idle")
    /\ UNCHANGED <<alive, state, silence, alert, raised, found, outages, hfaults>>

\* RaiseOffline: CreateIfNoneActive
RaiseOffline(m) ==
    /\ hpc[m] = "raise"
    /\ IF alert = 0
       THEN raised' = raised + 1 /\ alert' = raised'
       ELSE UNCHANGED <<raised, alert>>
    /\ HGoto(m, "idle")
    /\ UNCHANGED <<alive, state, silence, found, outages, hfaults>>

\* A statement fails for good or the server stops: the pass over the host,
\* or the rest of the report, is lost.
HAbandon(p) ==
    /\ hpc[p] # "idle"
    /\ HFaulty
    /\ HGoto(p, "idle")
    /\ found' = [i \in Ingests |-> IF i = p THEN 0 ELSE found[i]]
    /\ UNCHANGED <<alive, state, silence, alert, raised, outages>>

AgentStops ==
    /\ alive /\ outages < MaxOutages
    /\ alive' = FALSE /\ outages' = outages + 1
    /\ UNCHANGED <<state, silence, alert, raised, hpc, found, hfaults>>

AgentReturns ==
    /\ ~alive
    /\ alive' = TRUE
    /\ UNCHANGED <<state, silence, alert, raised, hpc, found, outages, hfaults>>

HTick ==
    /\ silence <= Grace
    /\ \A i \in Ingests : hpc[i] = "idle"
    /\ alive => silence = 0
    /\ silence' = silence + 1
    /\ UNCHANGED <<alive, state, alert, raised, hpc, found, outages, hfaults>>

IngestStep(i) == Receive(i) \/ MarkOnline(i) \/ LoadAlert(i) \/ ResolveOffline(i)
MonitorStep(m) == ListStale(m) \/ MarkOffline(m) \/ CheckActive(m) \/ RaiseOffline(m)

PresenceNext ==
    \/ \E i \in Ingests : IngestStep(i)
    \/ \E m \in Monitors : MonitorStep(m)
    \/ \E p \in Procs : HAbandon(p)
    \/ AgentStops \/ AgentReturns \/ HTick

PresenceSpec == PresenceInit /\ [][PresenceNext]_presvars

\* A living agent reports, a report that has arrived is recorded, time goes
\* by, and the monitor looks every 10 seconds as long as the server runs.
PresenceFairSpec ==
    /\ PresenceSpec /\ WF_presvars(HTick)
    /\ \A i \in Ingests : WF_presvars(IngestStep(i))
    /\ \A m \in Monitors : WF_presvars(MonitorStep(m))

-----------------------------------------------------------------------------
(* Properties                                                              *)

\* A host that stays silent gets its host_offline alert, and keeps it: its
\* outage is never overlooked.
OutageAlerted == <>[](~alive) => <>[](alert # 0)

\* The same for the first outage of a host while no statement fails: neither
\* the second monitor nor a report still in progress loses the alert.
FirstOutageAlerted == <>[](~alive /\ outages = 1 /\ hfaults = 0) => <>[](alert # 0)

\* What that rests on, at every moment until the host reports again: there is
\* an alert only of a host that has been silent for longer than Grace, there
\* is one at most however many monitors raise it, no report in progress is
\* about to resolve it, and an offline host has it or is about to get it.
FirstOutageKept ==
    hfaults = 0 /\ (outages = 0 \/ (outages = 1 /\ ~alive)) =>
        /\ state = "offline" \/ alert # 0 => ~alive /\ silence > Grace
        /\ raised <= 1
        /\ \A i \in Ingests : hpc[i] # "resolve"
        /\ state = "offline" => alert # 0 \/ \E m \in Monitors : hpc[m] \in {"check", "raise"}

\* A host that reports again for good ends up online and without the alert,
\* even when a monitor that had seen it silent marks it offline or raises
\* the alert after the report.
RecoveryCleans == <>[]alive => <>[](state = "online" /\ alert = 0)

=============================================================================
