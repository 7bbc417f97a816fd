------------------------ MODULE NotificationDelivery ------------------------
(***************************************************************************)
(* What the notification queue promises its writers, whatever happens to   *)
(* the processes that drain it: a notification that was written is settled *)
(* in the end, a notification reported as sent has reached its recipient   *)
(* at least once (perhaps more often), a report of "sent" is final, and    *)
(* only settled notifications are forgotten.                               *)
(***************************************************************************)
EXTENDS Naturals

CONSTANT Ids

VARIABLES status,  \* the status the queue reports (outboxStatusSQL)
          copies   \* messages the recipient has received

dvars == <<status, copies>>

DInit == status = [i \in Ids |-> "none"] /\ copies = [i \in Ids |-> 0]

Submit(i) ==
    /\ status[i] = "none"
    /\ status' = [status EXCEPT ![i] = "pending"]
    /\ UNCHANGED copies

\* A copy may arrive late: the notification may be settled by then.
Arrive(i) ==
    /\ status[i] # "none"
    /\ copies' = [copies EXCEPT ![i] = @ + 1]
    /\ UNCHANGED status

\* Recorded as sent: only after a copy arrived, possibly after it had been
\* closed as failed while the copy was on its way.
Sent(i) ==
    /\ status[i] \in {"pending", "failed"} /\ copies[i] > 0
    /\ status' = [status EXCEPT ![i] = "sent"]
    /\ UNCHANGED copies

\* One statement may close several notifications.
Fail(S) ==
    /\ \A i \in S : status[i] = "pending"
    /\ status' = [i \in Ids |-> IF i \in S THEN "failed" ELSE status[i]]
    /\ UNCHANGED copies

Forget(S) ==
    /\ \A i \in S : status[i] \in {"sent", "failed"}
    /\ status' = [i \in Ids |-> IF i \in S THEN "gone" ELSE status[i]]
    /\ UNCHANGED copies

DNext ==
    \/ \E i \in Ids : Submit(i) \/ Arrive(i) \/ Sent(i)
    \/ \E S \in SUBSET Ids : Fail(S) \/ Forget(S)

DSafety == DInit /\ [][DNext]_dvars

Settle(i) == DNext /\ status[i] = "pending" /\ status'[i] # "pending"

DSpec == DSafety /\ \A i \in Ids : WF_dvars(Settle(i))

=============================================================================
