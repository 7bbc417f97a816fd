------------------------------- MODULE MCFleet -------------------------------
(* What an agent collects, how it travels and what the server keeps of it.  *)
(* The components share no state in these models: a behaviour moves the one *)
(* in focus and the others stand still.                                     *)
EXTENDS PullScheduler, AgentReports, AgentCollect, HostState, IngestSections, TLC

CONSTANT Focus
VARIABLE focus

MCInit ==
    /\ focus \in Focus
    /\ PullInit /\ (focus # "pull" => \A h \in PHosts : prow[h] = OtherRow("push"))
    /\ ReportsInit /\ (focus # "reports" => unit = Gone /\ oldServer)
    /\ CollectInit /\ (focus # "collect" => pullMode)
    /\ StateInit
    /\ IF focus = "ingest" THEN IngestInit ELSE given = [kind |-> "text", of |-> <<>>] /\ taken = Pending

\* Of the kills after a gap KillNoticed says nothing: they are left out.
MCNext ==
    /\ \/ focus = "pull" /\ PullNext /\ UNCHANGED <<rvars, cvars, hvars, ivars>>
       \/ focus = "reports" /\ ReportsNext /\ UNCHANGED <<uvars, cvars, hvars, ivars>>
       \/ focus = "collect" /\ CollectNext /\ UNCHANGED <<uvars, rvars, hvars, ivars>>
       \/ focus = "state" /\ StateNext /\ (gap => kills' <= kills) /\ UNCHANGED <<uvars, rvars, cvars, ivars>>
       \/ focus = "ingest" /\ IngestNext /\ UNCHANGED <<uvars, rvars, cvars, hvars>>
    /\ UNCHANGED focus

MCSpec == MCInit /\ [][MCNext]_<<focus, uvars, rvars, cvars, hvars, ivars>>

Symmetric == Permutations(PHosts) \cup Permutations(Recs)
=============================================================================
