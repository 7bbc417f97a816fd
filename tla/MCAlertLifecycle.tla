-------------------------- MODULE MCAlertLifecycle --------------------------
(* Instances of AlertLifecycle for TLC.                                    *)
EXTENDS AlertLifecycle, TLC

CONSTANTS a1, a2, e1, e2, f1, f2

Perms == Permutations(AlertIds) \cup Permutations(Evaluators) \cup Permutations(Flushers)

=============================================================================
