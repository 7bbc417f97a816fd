----------------------------- MODULE OutboxLeases -----------------------------
(***************************************************************************)
(* Outbox with a history variable: the rows whose lease ran out in the     *)
(* hands of a worker.  The claim of a batch hides its rows for one lease   *)
(* (lease, worker.go:29), counted from the claim; up to batchSize sends of *)
(* deliveryTimeout each follow one another (worker.go:26-28), so a row may *)
(* become due again while the worker that claimed it has not come to it.   *)
(***************************************************************************)
EXTENDS Outbox

VARIABLE overrun   \* the rows a worker still had when they became due again

leaseVars == <<vars, overrun>>

LeaseInit == Init /\ overrun = {}

Held(i) == \E w \in Workers : Holds(w, i)

\* The rows that become due in this step while a worker has them.
RunsOut == {i \in Ids : Held(i) /\ row[i].wait > 0 /\ row'[i].wait = 0}

LeaseNext == Next /\ overrun' = overrun \cup RunsOut

LeaseSpec == LeaseInit /\ [][LeaseNext]_leaseVars

LeaseFairSpec == LeaseSpec /\ Fairness

\* Two workers have the same row only if the lease of a worker ran out in
\* its hands: a claim and its lease keep a row from every other worker, of
\* this process or another, for as long as the lease lasts (Claim, SKIP
\* LOCKED and next_attempt_at), whatever fails and whoever closes the row.
SharedOnlyWhenOverrun ==
    \A i \in Ids : i \notin overrun =>
        \A w1, w2 \in Workers : Holds(w1, i) /\ Holds(w2, i) => w1 = w2

=============================================================================
