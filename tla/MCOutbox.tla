------------------------------ MODULE MCOutbox ------------------------------
(* Instances of Outbox and OutboxLeases for TLC.                           *)
EXTENDS OutboxLeases, TLC

CONSTANTS w1, w2, m1, m2

\* Two replicas of one worker: both serve every kind that is written.
Replicas == (w1 :> AllKinds) @@ (w2 :> AllKinds)

Perms == Permutations(Ids) \cup Permutations(Workers)

=============================================================================
