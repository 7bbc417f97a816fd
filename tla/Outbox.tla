------------------------------- MODULE Outbox -------------------------------
(***************************************************************************)
(* The notification queue (table notification_outbox, store/outbox.go) and *)
(* the workers that drain it (outbox/worker.go).  Every server replica     *)
(* runs one worker per group of kinds; a worker claims a batch of due      *)
(* rows, which counts an attempt and hides the rows for a lease, delivers  *)
(* them one by one outside any transaction and records each outcome by a   *)
(* statement of its own.  A process may stop between any two statements.   *)
(*                                                                         *)
(* Time is relative: a row stores how far away next_attempt_at and         *)
(* expires_at are, Tick brings both nearer.  A delivery may last up to     *)
(* DeliveryTimeout ticks and the statements around it take no time: Tick   *)
(* waits for a worker whose delivery has run out of time.                  *)
(*                                                                         *)
(* Left out: subjects, error texts, request ids, the order among overdue   *)
(* rows (ORDER BY next_attempt_at), and rows with several recipients,      *)
(* which no current writer produces.                                       *)
(***************************************************************************)
EXTENDS Integers, FiniteSets

CONSTANTS
    Ids,              \* row ids (UUIDs, never reused)
    Workers,          \* the workers of all replicas
    Kinds,            \* the kinds of message that are written
    WorkerKinds,      \* the kinds each worker serves
    Recipients,       \* e-mail addresses
    NoItem,           \* "no row in hand"
    BatchSize,        \* batchSize: rows taken by one Claim
    Lease,            \* lease
    DeliveryTimeout,  \* deliveryTimeout
    MaxAttempts,      \* MaxAttempts
    BaseBackoff,      \* baseBackoff
    MaxBackoff,       \* maxBackoff
    ResetTTL,         \* lifetime of a password reset mail
    MaxFaults         \* bound on crashes, panics and failed statements

AllKinds == {"alert", "password_reset", "password_changed"}

ASSUME IdsAssumption == NoItem \notin Ids
ASSUME KindsAssumption ==
    Kinds \subseteq AllKinds /\ WorkerKinds \in [Workers -> SUBSET AllKinds]
ASSUME BoundsAssumption ==
    /\ BatchSize \in Nat \ {0} /\ MaxAttempts \in Nat \ {0}
    /\ Lease \in Nat \ {0} /\ DeliveryTimeout \in Nat \ {0}
    /\ BaseBackoff \in Nat \ {0} /\ MaxBackoff \in Nat \ {0}
    /\ ResetTTL \in Nat \ {0} /\ MaxFaults \in Nat

VARIABLES
    row,        \* the table: one record per id
    pc,         \* where each worker is in Run / DeliverDue / deliver
    batch,      \* claimed rows a worker has not started yet
    item,       \* the row in the worker's hands
    tries,      \* OutboxItem.Attempts of the claimed rows
    left,       \* ticks left to the delivery in progress
    delivered,  \* how often the recipient has really got the message
    faults      \* faults so far

vars == <<row, pc, batch, item, tries, left, delivered, faults>>

NullableCols == {"body", "body_sealed", "alert_id", "last_error", "sent_at", "failed_at"}
NoExpiry == -1
\* How far away the next attempt of a row can be.
Waits == 0..Lease \cup 0..MaxBackoff
Row == [stage    : {"unwritten", "stored", "purged"},
        kind     : AllKinds,
        to       : Recipients,
        cols     : SUBSET NullableCols,  \* the columns that are NOT NULL
        attempts : Nat,
        wait     : Waits,                \* next_attempt_at - now, 0 when due
        ttl      : Nat \cup {NoExpiry}]  \* expires_at - now, 0 when expired

PCs == {"idle", "claim", "deliver", "send", "sent", "failed", "broken", "purge"}

TypeOK ==
    /\ row \in [Ids -> Row]
    /\ pc \in [Workers -> PCs]
    /\ batch \in [Workers -> SUBSET Ids]
    /\ item \in [Workers -> Ids \cup {NoItem}]
    /\ tries \in [Workers -> [Ids -> Nat]]
    /\ left \in [Workers -> Nat]
    /\ delivered \in [Ids -> Nat]
    /\ faults \in 0..MaxFaults

-----------------------------------------------------------------------------
(* The table                                                               *)

Stored(i)   == row[i].stage = "stored"
Finished(i) == row[i].cols \cap {"sent_at", "failed_at"} # {}
Pending(i)  == Stored(i) /\ ~Finished(i)
Expired(i)  == row[i].ttl = 0

\* Rows a Claim or an Expire of worker w looks at.
Served(w) == {i \in Ids : Pending(i) /\ row[i].kind \in WorkerKinds[w]}

Due(w) == {i \in Served(w) : row[i].wait = 0 /\ ~Expired(i)}

\* (mutants) the row is closed but keeps its sealed body; or loses sent_at
ClosedKeepsBody(r) == [r EXCEPT !.cols = @ \cup {"failed_at", "last_error"}]
ClosedUnsends(r) == [r EXCEPT !.cols = (@ \ {"body_sealed", "sent_at"}) \cup {"failed_at", "last_error"}]

\* UPDATE ... SET failed_at = now(), body_sealed = NULL, last_error = ...
Closed(r) == [r EXCEPT !.cols = (@ \ {"body_sealed"}) \cup {"failed_at", "last_error"}]

\* (mutants) a claim that counts no attempt; one that takes no lease
ClaimedUncounted(r) == [r EXCEPT !.wait = Lease]
ClaimedNoLease(r) == [r EXCEPT !.attempts = @ + 1]

\* UPDATE ... SET attempts = attempts + 1, next_attempt_at = now() + lease
Claimed(r) == [r EXCEPT !.attempts = @ + 1, !.wait = Lease]

\* (mutant) one retry too many
MayRetryOnceMore(attempts) == attempts <= MaxAttempts

\* A failed attempt is retried below the limit, else the row is given up.
MayRetry(attempts) == attempts < MaxAttempts

\* A timer one tick later; NoExpiry stays what it is.
Sooner(t) == IF t > 0 THEN t - 1 ELSE t

\* (mutant) the wait doubles without its upper limit
BackoffUncapped(attempt) == BaseBackoff * 2^(attempt - 1)

\* Backoff(attempt): 30 s, 1 min, 2 min ... at most one hour.
Backoff(attempt) ==
    LET d == BaseBackoff * 2^(attempt - 1)
    IN  IF d \in 0..MaxBackoff THEN d ELSE MaxBackoff

\* What each writer puts in a new row: alert notifications refer to their
\* alert, only the reset mail is sealed and expires.
NewRow(k, to) ==
    [stage |-> "stored", kind |-> k, to |-> to,
     cols |-> (IF k = "password_reset" THEN {"body_sealed"} ELSE {"body"})
                 \cup (IF k = "alert" THEN {"alert_id"} ELSE {}),
     attempts |-> 0, wait |-> 0,
     ttl |-> IF k = "password_reset" THEN ResetTTL ELSE NoExpiry]

Init ==
    /\ \E k \in Kinds, to \in Recipients :
          row = [i \in Ids |-> [stage |-> "unwritten", kind |-> k, to |-> to, cols |-> {},
                                attempts |-> 0, wait |-> 0, ttl |-> NoExpiry]]
    /\ pc = [w \in Workers |-> "idle"]
    /\ batch = [w \in Workers |-> {}]
    /\ item = [w \in Workers |-> NoItem]
    /\ tries = [w \in Workers |-> [i \in Ids |-> 0]]
    /\ left = [w \in Workers |-> 0]
    /\ delivered = [i \in Ids |-> 0]
    /\ faults = 0

workerVars == <<pc, batch, item, tries, left>>

-----------------------------------------------------------------------------
(* The writers                                                             *)

Enqueue(i, k, to) ==
    /\ row[i].stage = "unwritten"
    /\ row' = [row EXCEPT ![i] = NewRow(k, to)]
    /\ UNCHANGED <<workerVars, delivered, faults>>

\* A newer reset link, or a completed reset, closes the waiting mails.
Supersede(k, to) ==
    LET S == {i \in Ids : Pending(i) /\ row[i].kind = k /\ row[i].to = to}
    IN  /\ S # {}
        /\ row' = [i \in Ids |-> IF i \in S THEN Closed(row[i]) ELSE row[i]]
        /\ UNCHANGED <<workerVars, delivered, faults>>

\* The alert of a notification is deleted with its host (ON DELETE SET NULL).
DetachAlert(i) ==
    /\ Stored(i) /\ "alert_id" \in row[i].cols
    /\ row' = [row EXCEPT ![i].cols = @ \ {"alert_id"}]
    /\ UNCHANGED <<workerVars, delivered, faults>>

-----------------------------------------------------------------------------
(* The worker: Run, DeliverDue and deliver                                 *)

Fault == faults < MaxFaults /\ faults' = faults + 1

\* (mutant) a pass that does not close the expired rows
BeginPassNoExpire(w) ==
    /\ pc[w] = "idle"
    /\ pc' = [pc EXCEPT ![w] = "claim"]
    /\ UNCHANGED <<row, batch, item, tries, left, delivered, faults>>

\* DeliverDue takes the worker's mutex and first closes the expired rows.
BeginPass(w) ==
    /\ pc[w] = "idle"
    /\ row' = [i \in Ids |-> IF i \in Served(w) /\ Expired(i) THEN Closed(row[i]) ELSE row[i]]
    /\ pc' = [pc EXCEPT ![w] = "claim"]
    /\ UNCHANGED <<batch, item, tries, left, delivered, faults>>

\* One UPDATE ... FOR UPDATE SKIP LOCKED ... RETURNING, committed at once.
Claim(w) ==
    /\ pc[w] = "claim"
    /\ \E S \in SUBSET Due(w) :
          /\ Cardinality(S) <= BatchSize
          /\ Cardinality(S) = BatchSize \/ S = Due(w)
          /\ row' = [i \in Ids |-> IF i \in S THEN Claimed(row[i]) ELSE row[i]]
          /\ tries' = [tries EXCEPT ![w] = [i \in Ids |-> IF i \in S THEN row[i].attempts + 1 ELSE 0]]
          /\ batch' = [batch EXCEPT ![w] = S]
          /\ pc' = [pc EXCEPT ![w] = IF S = {} THEN "purge" ELSE "deliver"]
    /\ UNCHANGED <<item, left, delivered, faults>>

\* Expire or Claim fails: the pass ends with an error.
PassFails(w) ==
    /\ pc[w] \in {"idle", "claim"}
    /\ Fault
    /\ pc' = [pc EXCEPT ![w] = "purge"]
    /\ UNCHANGED <<row, batch, item, tries, left, delivered>>

\* deliver starts on a claimed row: either the body cannot be opened or the
\* channel has no notifier, or the row is handed to the notifier.
StartDelivery(w, i) ==
    /\ pc[w] = "deliver" /\ i \in batch[w]
    /\ batch' = [batch EXCEPT ![w] = @ \ {i}]
    /\ item' = [item EXCEPT ![w] = i]
    /\ \/ pc' = [pc EXCEPT ![w] = "broken"] /\ UNCHANGED left
       \/ /\ pc' = [pc EXCEPT ![w] = "send"]
          /\ left' = [left EXCEPT ![w] = DeliveryTimeout]
    /\ UNCHANGED <<row, tries, delivered, faults>>

\* The notifier accepts the message ...
SendOK(w) ==
    /\ pc[w] = "send"
    /\ delivered' = [delivered EXCEPT ![item[w]] = @ + 1]
    /\ pc' = [pc EXCEPT ![w] = "sent"]
    /\ left' = [left EXCEPT ![w] = 0]
    /\ UNCHANGED <<row, batch, item, tries, faults>>

\* (mutant) the error of Send is swallowed
SendErrorSwallowed(w) ==
    /\ pc[w] = "send"
    /\ pc' = [pc EXCEPT ![w] = "sent"]
    /\ left' = [left EXCEPT ![w] = 0]
    /\ UNCHANGED <<row, batch, item, tries, delivered, faults>>

\* ... or fails or runs into the timeout; the message may have arrived all
\* the same (a lost SMTP answer).
SendFails(w) ==
    /\ pc[w] = "send"
    /\ pc' = [pc EXCEPT ![w] = "failed"]
    /\ left' = [left EXCEPT ![w] = 0]
    /\ \E arrived \in {0, 1} : delivered' = [delivered EXCEPT ![item[w]] = @ + arrived]
    /\ UNCHANGED <<row, batch, item, tries, faults>>

\* After a row: the next one of the batch, or the next Claim.
NextItem(w) ==
    /\ pc' = [pc EXCEPT ![w] = IF batch[w] = {} THEN "claim" ELSE "deliver"]
    /\ item' = [item EXCEPT ![w] = NoItem]
    /\ left' = [left EXCEPT ![w] = 0]
    /\ UNCHANGED batch
    /\ tries' = [tries EXCEPT ![w][item[w]] = 0]

\* An UPDATE by id: it touches the row only while the row is there.
SetRow(i, r) ==
    row' = IF Stored(i) THEN [row EXCEPT ![i] = r] ELSE row

MarkSent(w) ==
    /\ pc[w] = "sent"
    /\ LET r == row[item[w]]
       IN  SetRow(item[w], [r EXCEPT !.cols = (@ \ {"body_sealed", "last_error"}) \cup {"sent_at"}])
    /\ NextItem(w)
    /\ UNCHANGED <<delivered, faults>>

MarkRetry(w) ==
    /\ pc[w] = "failed" /\ MayRetry(tries[w][item[w]])
    /\ LET r == row[item[w]]
       IN  SetRow(item[w], [r EXCEPT !.wait = Backoff(tries[w][item[w]]),
                                     !.cols = @ \cup {"last_error"}])
    /\ NextItem(w)
    /\ UNCHANGED <<delivered, faults>>

\* giveUp: the attempt limit is reached or the row cannot be sent at all.
MarkFailed(w) ==
    /\ \/ pc[w] = "broken"
       \/ pc[w] = "failed" /\ ~MayRetry(tries[w][item[w]])
    /\ SetRow(item[w], Closed(row[item[w]]))
    /\ NextItem(w)
    /\ UNCHANGED <<delivered, faults>>

\* A Mark statement fails and is only logged, or the notifier panics and
\* Recover swallows it: the row keeps its lease and the batch goes on.
OutcomeLost(w) ==
    /\ pc[w] \in {"send", "sent", "failed", "broken"}
    /\ Fault
    /\ NextItem(w)
    /\ UNCHANGED <<row, delivered>>

\* purge, at the end of each turn of Run; whether an hour has passed and
\* which finished rows are past RetainFinished is left open.
Purgeable(w) ==
    {i \in Ids : /\ Stored(i) /\ Finished(i)
                 /\ row[i].kind \in WorkerKinds[w]
                 /\ row[i].kind # "alert" \/ "alert_id" \notin row[i].cols}

Purge(w) ==
    /\ pc[w] = "purge"
    /\ \E S \in SUBSET Purgeable(w) :
          row' = [i \in Ids |-> IF i \in S THEN [row[i] EXCEPT !.stage = "purged"] ELSE row[i]]
    /\ pc' = [pc EXCEPT ![w] = "idle"]
    /\ UNCHANGED <<batch, item, tries, left, delivered, faults>>

\* The process stops and is started again with nothing in memory.
Crash(w) ==
    /\ pc[w] # "idle"
    /\ Fault
    /\ pc' = [pc EXCEPT ![w] = "idle"]
    /\ batch' = [batch EXCEPT ![w] = {}]
    /\ item' = [item EXCEPT ![w] = NoItem]
    /\ tries' = [tries EXCEPT ![w] = [i \in Ids |-> 0]]
    /\ left' = [left EXCEPT ![w] = 0]
    /\ UNCHANGED <<row, delivered>>

-----------------------------------------------------------------------------
(* Time                                                                    *)

Tick ==
    /\ \A w \in Workers : pc[w] \in {"idle", "claim", "purge"} \/ (pc[w] = "send" /\ left[w] > 0)
    /\ \E i \in Ids : Stored(i) /\ (row[i].wait > 0 \/ row[i].ttl > 0)
    /\ row' = [i \in Ids |-> [row[i] EXCEPT !.wait = Sooner(@), !.ttl = Sooner(@)]]
    /\ left' = [w \in Workers |-> Sooner(left[w])]
    /\ UNCHANGED <<pc, batch, item, tries, delivered, faults>>

WorkerStep(w) ==
    \/ BeginPass(w) \/ Claim(w)
    \/ \E i \in Ids : StartDelivery(w, i)
    \/ SendOK(w) \/ SendFails(w)
    \/ MarkSent(w) \/ MarkRetry(w) \/ MarkFailed(w)
    \/ Purge(w)

FaultStep(w) == PassFails(w) \/ OutcomeLost(w) \/ Crash(w)

WriterStep ==
    \/ \E i \in Ids, k \in Kinds, to \in Recipients : Enqueue(i, k, to)
    \/ \E to \in Recipients : Supersede("password_reset", to)
    \/ \E i \in Ids : DetachAlert(i)

Next ==
    \/ WriterStep
    \/ \E w \in Workers : WorkerStep(w) \/ FaultStep(w)
    \/ Tick

Spec == Init /\ [][Next]_vars

\* Run loops for ever (a ticker wakes it every PollInterval), a send ends at
\* its timeout and time passes; nothing is assumed of writers and faults.
Fairness == WF_vars(Tick) /\ \A w \in Workers : WF_vars(WorkerStep(w))

FairSpec == Spec /\ Fairness

-----------------------------------------------------------------------------
(* Properties                                                              *)

\* The worker is busy with row i: claimed and not yet accounted for.
Holds(w, i) == i \in batch[w] \/ item[w] = i

\* The CHECK notification_outbox_body_chk never makes a statement fail: a
\* waiting row has exactly one body, and no finished row keeps a sealed one,
\* whichever of Expire, Supersede and the Mark statements met on the row.
BodyChk ==
    \A i \in Ids : Stored(i) =>
        IF Finished(i) THEN "body_sealed" \notin row[i].cols
                       ELSE ("body" \in row[i].cols) # ("body_sealed" \in row[i].cols)

\* A row reported as sent reached its recipient, even after crashes, lost
\* outcomes and deliveries of one row by two workers (MarkSent after Send).
SentWasDelivered ==
    \A i \in Ids : "sent_at" \in row[i].cols => delivered[i] > 0

\* Every copy a recipient gets was paid for by an attempt that Claim counted
\* before the send: the copies that arrived and those that can still arrive
\* from workers holding the row never exceed the attempts on the row.
CopiesWithinAttempts ==
    \A i \in Ids :
        delivered[i] + Cardinality({w \in Workers : i \in batch[w] \/ (item[w] = i /\ pc[w] = "send")})
            <= row[i].attempts

\* What the claim's comment promises, two workers never have the same row
\* (store/outbox.go:113-114: with FOR UPDATE SKIP LOCKED several workers or
\* server copies do not take the same row).  It is false of the code: the
\* lease is counted from the Claim of a whole batch and a slow batch lasts
\* longer.  What does hold is SharedOnlyWhenOverrun (OutboxLeases).
Exclusive ==
    \A w1, w2 \in Workers, i \in Ids : Holds(w1, i) /\ Holds(w2, i) => w1 = w2

\* The shape of the workers' memory.  A worker has rows only between Claim
\* and the last Mark, and a row in its hands has left the batch.
WorkerShape ==
    \A w \in Workers :
        /\ item[w] # NoItem => pc[w] \in {"send", "sent", "failed", "broken"}
        /\ batch[w] # {} => pc[w] \in {"deliver", "send", "sent", "failed", "broken"}
        /\ pc[w] # "send" => left[w] = 0
        /\ item[w] \notin batch[w]
        /\ pc[w] = "deliver" => item[w] = NoItem

HeldRowsWritten ==
    \A w \in Workers, i \in Ids : Holds(w, i) => row[i].stage # "unwritten"

\* The workers on their last attempt with row i: none of them will retry.
LastTriers(i) == {w \in Workers : Holds(w, i) /\ tries[w][i] >= MaxAttempts}

\* A row is tried MaxAttempts times, once more for each fault that swallowed
\* an outcome (crash, panic, failed Mark statement), and once more for each
\* further worker that claimed it from one whose last attempt outlived the
\* lease: while the row waits those workers still have it in their hands.
AttemptsPaid ==
    \A i \in Ids :
        /\ Pending(i) => row[i].attempts < MaxAttempts + faults + Cardinality(LastTriers(i))
        /\ row[i].attempts < MaxAttempts + faults + Cardinality(Workers)

\* Every row that is written is eventually sent, given up, superseded or
\* expired, once the faults stop.
RowsSettle == \A i \in Ids : Pending(i) ~> ~Pending(i)

\* The queue keeps the promise of NotificationDelivery under the status
\* that the panel shows (outboxStatusSQL: sent before failed).
Status(i) ==
    CASE row[i].stage = "unwritten" -> "none"
      [] row[i].stage = "purged" -> "gone"
      [] Stored(i) /\ "sent_at" \in row[i].cols -> "sent"
      [] Stored(i) /\ "sent_at" \notin row[i].cols /\ "failed_at" \in row[i].cols -> "failed"
      [] OTHER -> "pending"

Delivery == INSTANCE NotificationDelivery
                WITH status <- [i \in Ids |-> Status(i)], copies <- delivered

Promise == Delivery!DSpec

=============================================================================
