--------------------------- MODULE MCAlertLiveness ---------------------------
(* What must happen in the end to the alerts of one key, to the duration    *)
(* condition of another and to the presence of the host.  The three share   *)
(* no state in these models: a behaviour moves the one in focus and the     *)
(* others stand still.                                                      *)
EXTENDS AlertLifecycle, AlertDuration, HostPresence

CONSTANTS a1, a2, e1, e2, f1, i1, i2, n1, n2, Focus

VARIABLE focus

avars == <<focus, vars, dvars, presvars>>

MCInit ==
    /\ focus \in Focus
    /\ Init /\ (focus # "deferred" => ~maint)
    /\ DurationInit /\ (focus # "duration" => statusRule /\ cond = "below")
    /\ PresenceInit

Deferred(step) == focus = "deferred" /\ step /\ UNCHANGED <<focus, dvars, presvars>>
Held(step) == focus = "duration" /\ step /\ UNCHANGED <<focus, vars, presvars>>
Present(step) == focus = "presence" /\ step /\ UNCHANGED <<focus, vars, dvars>>

MCNext == Deferred(Next) \/ Held(DurationNext) \/ Present(PresenceNext)

\* The fairness of FairSpec, DurationFairSpec and PresenceFairSpec.
MCSpec ==
    /\ MCInit /\ [][MCNext]_avars
    /\ \A f \in Flushers : WF_avars(Deferred(FlusherStep(f)))
    /\ WF_avars(Held(DTick)) /\ \A e \in DEvals : WF_avars(Held(Step(e)))
    /\ WF_avars(Present(HTick))
    /\ \A i \in Ingests : WF_avars(Present(IngestStep(i)))
    /\ \A m \in Monitors : WF_avars(Present(MonitorStep(m)))

=============================================================================
