---------------------------- MODULE OutboxProofs ----------------------------
(* Proofs about Outbox and OutboxLeases, for every value of the constants. *)
EXTENDS OutboxLeases, FiniteSetTheorems, TLAPS

\* Every field of a row keeps its type under the updates of the statements.
LEMMA RowUpdates ==
    ASSUME NEW r \in Row, NEW n \in Nat
    PROVE  /\ Closed(r) \in Row /\ Closed(r).stage = r.stage
           /\ Claimed(r) \in Row /\ Claimed(r).stage = r.stage
           /\ Sooner(n) \in Nat /\ Sooner(r.wait) \in Waits /\ Sooner(r.ttl) \in Nat \cup {NoExpiry}
           /\ [r EXCEPT !.wait = Sooner(@), !.ttl = Sooner(@)] \in Row
           /\ [r EXCEPT !.stage = "purged"] \in Row
           /\ Backoff(n) \in Waits
           /\ [r EXCEPT !.wait = Backoff(n), !.cols = @ \cup {"last_error"}] \in Row
           /\ [r EXCEPT !.cols = (@ \ {"body_sealed", "last_error"}) \cup {"sent_at"}] \in Row
           /\ [r EXCEPT !.cols = @ \ {"alert_id"}] \in Row
  <1>1. Closed(r) \in Row /\ Closed(r).stage = r.stage
    BY DEF Closed, Row, NullableCols
  <1>2. Claimed(r) \in Row /\ Claimed(r).stage = r.stage
    <2>1. Lease \in Waits
      BY BoundsAssumption DEF Waits
    <2>2. r.attempts + 1 \in Nat
      BY DEF Row
    <2> QED
      BY <2>1, <2>2 DEF Claimed, Row
  <1>4. Sooner(n) \in Nat
    BY DEF Sooner
  <1>5. Sooner(r.wait) \in Waits /\ Sooner(r.ttl) \in Nat \cup {NoExpiry}
    BY BoundsAssumption DEF Sooner, Row, NoExpiry, Waits
  <1>6. [r EXCEPT !.wait = Sooner(@), !.ttl = Sooner(@)] \in Row
    BY <1>5 DEF Row
  <1>7. Backoff(n) \in Waits
    BY BoundsAssumption DEF Backoff, Waits
  <1>8. [r EXCEPT !.wait = Backoff(n), !.cols = @ \cup {"last_error"}] \in Row
    BY <1>7 DEF Row, NullableCols
  <1>9. /\ [r EXCEPT !.cols = (@ \ {"body_sealed", "last_error"}) \cup {"sent_at"}] \in Row
        /\ [r EXCEPT !.cols = @ \ {"alert_id"}] \in Row
        /\ [r EXCEPT !.stage = "purged"] \in Row
    BY DEF Row, NullableCols
  <1> QED
    BY <1>1, <1>2, <1>4, <1>5, <1>6, <1>7, <1>8, <1>9

\* A new row is well typed whatever it announces.
LEMMA NewRowType ==
    ASSUME NEW k \in Kinds, NEW to \in Recipients
    PROVE  NewRow(k, to) \in Row
  BY KindsAssumption, BoundsAssumption DEF NewRow, Row, NullableCols, Waits

-----------------------------------------------------------------------------
\* The table and the workers' memory are well typed initially.
LEMMA TypeInit == Init => TypeOK
  <1> SUFFICES ASSUME Init PROVE TypeOK
    OBVIOUS
  <1>1. row \in [Ids -> Row]
    BY KindsAssumption, BoundsAssumption DEF Init, Row, NoExpiry, Waits
  <1>2. faults \in 0..MaxFaults
    BY BoundsAssumption DEF Init
  <1> QED
    BY <1>1, <1>2 DEF Init, TypeOK, PCs

\* Every step of a writer, of a worker, of a fault or of time keeps the types.
LEMMA TypeNext == TypeOK /\ [Next]_vars => TypeOK'
  <1> SUFFICES ASSUME TypeOK, [Next]_vars PROVE TypeOK'
    OBVIOUS
  <1> USE DEF TypeOK
  <1>1. ASSUME NEW i \in Ids, NEW k \in Kinds, NEW to \in Recipients, Enqueue(i, k, to)
        PROVE  TypeOK'
    <2>1. NewRow(k, to) \in Row
      BY NewRowType
    <2> QED
      BY <1>1, <2>1 DEF Enqueue, workerVars
  <1>2. ASSUME NEW k \in AllKinds, NEW to \in Recipients, Supersede(k, to)
        PROVE  TypeOK'
    <2>1. \A i \in Ids : Closed(row[i]) \in Row
      BY RowUpdates, 0 \in Nat
    <2> QED
      BY <1>2, <2>1 DEF Supersede, workerVars
  <1>3. ASSUME NEW i \in Ids, DetachAlert(i)
        PROVE  TypeOK'
    <2>1. [row[i] EXCEPT !.cols = @ \ {"alert_id"}] \in Row
      BY RowUpdates, 0 \in Nat
    <2>2. row' = [row EXCEPT ![i] = [row[i] EXCEPT !.cols = @ \ {"alert_id"}]]
      BY <1>3 DEF DetachAlert
    <2> QED
      BY <1>3, <2>1, <2>2 DEF DetachAlert, workerVars
  <1>4. ASSUME NEW w \in Workers, BeginPass(w)
        PROVE  TypeOK'
    <2>1. \A i \in Ids : Closed(row[i]) \in Row
      BY RowUpdates, 0 \in Nat
    <2> QED
      BY <1>4, <2>1 DEF BeginPass, PCs
  <1>5. ASSUME NEW w \in Workers, Claim(w)
        PROVE  TypeOK'
    <2>1. PICK S \in SUBSET Due(w) :
              /\ row' = [i \in Ids |-> IF i \in S THEN Claimed(row[i]) ELSE row[i]]
              /\ tries' = [tries EXCEPT ![w] = [i \in Ids |-> IF i \in S THEN row[i].attempts + 1 ELSE 0]]
              /\ batch' = [batch EXCEPT ![w] = S]
              /\ pc' = [pc EXCEPT ![w] = IF S = {} THEN "purge" ELSE "deliver"]
      BY <1>5 DEF Claim
    <2>2. S \subseteq Ids
      BY DEF Due, Served
    <2>3. \A i \in Ids : Claimed(row[i]) \in Row
      BY RowUpdates, 0 \in Nat
    <2>4. \A i \in Ids : row[i].attempts + 1 \in Nat
      BY DEF Row
    <2> QED
      BY <1>5, <2>1, <2>2, <2>3, <2>4 DEF Claim, PCs
  <1>6. ASSUME NEW w \in Workers, PassFails(w)
        PROVE  TypeOK'
    BY <1>6, BoundsAssumption DEF PassFails, Fault, PCs
  <1>7. ASSUME NEW w \in Workers, NEW i \in Ids, StartDelivery(w, i)
        PROVE  TypeOK'
    BY <1>7, BoundsAssumption DEF StartDelivery, PCs
  <1>8. ASSUME NEW w \in Workers, SendOK(w)
        PROVE  TypeOK'
    <2>1. delivered' \in [Ids -> Nat]
      <3>1. CASE item[w] \in Ids
        BY <1>8, <3>1 DEF SendOK
      <3>2. CASE item[w] \notin Ids
        BY <1>8, <3>2 DEF SendOK
      <3> QED
        BY <3>1, <3>2
    <2> QED
      BY <1>8, <2>1 DEF SendOK, PCs
  <1>9. ASSUME NEW w \in Workers, SendFails(w)
        PROVE  TypeOK'
    <2>1. PICK a \in {0, 1} : delivered' = [delivered EXCEPT ![item[w]] = @ + a]
      BY <1>9 DEF SendFails
    <2>2. delivered' \in [Ids -> Nat]
      <3>1. CASE item[w] \in Ids
        BY <2>1, <3>1
      <3>2. CASE item[w] \notin Ids
        BY <2>1, <3>2
      <3> QED
        BY <3>1, <3>2
    <2> QED
      BY <1>9, <2>2 DEF SendFails, PCs
  <1>10. ASSUME NEW w \in Workers, NextItem(w)
         PROVE  /\ pc' \in [Workers -> PCs] /\ batch' \in [Workers -> SUBSET Ids]
                /\ item' \in [Workers -> Ids \cup {NoItem}] /\ left' \in [Workers -> Nat]
                /\ tries' \in [Workers -> [Ids -> Nat]]
    BY <1>10 DEF NextItem, PCs
  <1>11. ASSUME NEW w \in Workers, NEW r, item[w] \in Ids => r \in Row, SetRow(item[w], r)
         PROVE  row' \in [Ids -> Row]
    BY <1>11 DEF SetRow
  <1>12. ASSUME NEW w \in Workers, MarkSent(w)
         PROVE  TypeOK'
    <2> DEFINE r == [row[item[w]] EXCEPT !.cols = (@ \ {"body_sealed", "last_error"}) \cup {"sent_at"}]
    <2>1. item[w] \in Ids => r \in Row
      BY RowUpdates, 0 \in Nat
    <2>2. SetRow(item[w], r) /\ NextItem(w)
      BY <1>12 DEF MarkSent
    <2> HIDE DEF r
    <2>3. row' \in [Ids -> Row]
      BY <1>11, <2>1, <2>2
    <2> QED
      BY <1>10, <1>12, <2>2, <2>3 DEF MarkSent
  <1>13. ASSUME NEW w \in Workers, MarkRetry(w)
         PROVE  TypeOK'
    <2> DEFINE n == tries[w][item[w]]
               r == [row[item[w]] EXCEPT !.wait = Backoff(n), !.cols = @ \cup {"last_error"}]
    <2>1. item[w] \in Ids => r \in Row
      <3> SUFFICES ASSUME item[w] \in Ids PROVE r \in Row
        OBVIOUS
      <3>1. n \in Nat /\ row[item[w]] \in Row
        OBVIOUS
      <3> HIDE DEF n
      <3> QED
        BY <3>1, RowUpdates
    <2>2. SetRow(item[w], r) /\ NextItem(w)
      BY <1>13 DEF MarkRetry
    <2> HIDE DEF n, r
    <2>3. row' \in [Ids -> Row]
      BY <1>11, <2>1, <2>2
    <2> QED
      BY <1>10, <1>13, <2>2, <2>3 DEF MarkRetry
  <1>14. ASSUME NEW w \in Workers, MarkFailed(w)
         PROVE  TypeOK'
    <2>1. item[w] \in Ids => Closed(row[item[w]]) \in Row
      BY RowUpdates, 0 \in Nat
    <2>2. SetRow(item[w], Closed(row[item[w]])) /\ NextItem(w)
      BY <1>14 DEF MarkFailed
    <2>3. row' \in [Ids -> Row]
      BY <1>11, <2>1, <2>2
    <2> QED
      BY <1>10, <1>14, <2>2, <2>3 DEF MarkFailed
  <1>15. ASSUME NEW w \in Workers, OutcomeLost(w)
         PROVE  TypeOK'
    BY <1>10, <1>15, BoundsAssumption DEF OutcomeLost, Fault
  <1>16. ASSUME NEW w \in Workers, Purge(w)
         PROVE  TypeOK'
    <2>1. \A i \in Ids : [row[i] EXCEPT !.stage = "purged"] \in Row
      BY RowUpdates, 0 \in Nat
    <2> QED
      BY <1>16, <2>1 DEF Purge, PCs
  <1>17. ASSUME NEW w \in Workers, Crash(w)
         PROVE  TypeOK'
    BY <1>17, BoundsAssumption DEF Crash, Fault, PCs
  <1>18. CASE Tick
    <2>1. \A i \in Ids : [row[i] EXCEPT !.wait = Sooner(@), !.ttl = Sooner(@)] \in Row
      BY RowUpdates, 0 \in Nat
    <2>2. \A w \in Workers : Sooner(left[w]) \in Nat
      BY DEF Sooner
    <2> QED
      BY <1>18, <2>1, <2>2 DEF Tick
  <1>19. CASE UNCHANGED vars
    BY <1>19 DEF vars
  <1>20. "password_reset" \in AllKinds
    BY DEF AllKinds
  <1> QED
    BY <1>1, <1>2, <1>3, <1>4, <1>5, <1>6, <1>7, <1>8, <1>9, <1>12, <1>13, <1>14, <1>15,
       <1>16, <1>17, <1>18, <1>19, <1>20
       DEF Next, WriterStep, WorkerStep, FaultStep

\* TypeOK holds in every reachable state.
THEOREM TypeCorrect == Spec => []TypeOK
  BY TypeInit, TypeNext, PTL DEF Spec
-----------------------------------------------------------------------------
(* What a row says                                                         *)

\* What one step does to row i, as far as its status and its bodies go.
RowChange(i) ==
    \/ /\ row'[i].stage \in {row[i].stage, "purged"}
       /\ row'[i].cols = row[i].cols
    \/ /\ row[i].stage = "unwritten"
       /\ \E k \in Kinds, to \in Recipients : row'[i] = NewRow(k, to)
    \/ /\ row'[i].stage = row[i].stage
       /\ \/ row'[i].cols = (row[i].cols \ {"body_sealed"}) \cup {"failed_at", "last_error"}
          \/ row'[i].cols = row[i].cols \ {"alert_id"}
          \/ row'[i].cols = row[i].cols \cup {"last_error"}
          \/ /\ row'[i].cols = (row[i].cols \ {"body_sealed", "last_error"}) \cup {"sent_at"}
             /\ \E w \in Workers : pc[w] = "sent" /\ item[w] = i

\* The updates of the statements, field by field.
LEMMA UpdateFields ==
    ASSUME NEW r \in Row, NEW n, NEW C
    PROVE  /\ Closed(r).stage = r.stage
           /\ Closed(r).cols = (r.cols \ {"body_sealed"}) \cup {"failed_at", "last_error"}
           /\ Claimed(r).stage = r.stage /\ Claimed(r).cols = r.cols
           /\ [r EXCEPT !.cols = C].stage = r.stage /\ [r EXCEPT !.cols = C].cols = C
           /\ [r EXCEPT !.wait = n, !.cols = C].stage = r.stage
           /\ [r EXCEPT !.wait = n, !.cols = C].cols = C
           /\ [r EXCEPT !.wait = Sooner(@), !.ttl = Sooner(@)].stage = r.stage
           /\ [r EXCEPT !.wait = Sooner(@), !.ttl = Sooner(@)].cols = r.cols
           /\ [r EXCEPT !.stage = "purged"].stage = "purged"
           /\ [r EXCEPT !.stage = "purged"].cols = r.cols
  BY DEF Closed, Claimed, Row

\* A Mark statement touches only the row in hand.
LEMMA SetRowChange ==
    ASSUME TypeOK, NEW w \in Workers, NEW r, SetRow(item[w], r), NEW i \in Ids
    PROVE  row'[i] = row[i] \/ (i = item[w] /\ row'[i] = r)
  BY DEF SetRow, TypeOK

\* Every step of the queue changes a row in one of these ways.
LEMMA RowSteps ==
    ASSUME TypeOK, [Next]_vars, NEW i \in Ids
    PROVE  RowChange(i)
  <1>0. row[i] \in Row
    BY DEF TypeOK
  <1>a. row'[i] = row[i] => RowChange(i)
    BY DEF RowChange
  <1>b. row'[i] = Closed(row[i]) => RowChange(i)
    BY <1>0, UpdateFields DEF RowChange
  <1>1. ASSUME NEW j \in Ids, NEW k \in Kinds, NEW to \in Recipients, Enqueue(j, k, to)
        PROVE  RowChange(i)
    <2>1. row'[i] = row[i] \/ (row[i].stage = "unwritten" /\ row'[i] = NewRow(k, to))
      BY <1>1 DEF Enqueue, TypeOK
    <2> QED
      BY <1>a, <2>1 DEF RowChange
  <1>2. ASSUME NEW k \in AllKinds, NEW to \in Recipients, Supersede(k, to)
        PROVE  RowChange(i)
    <2>1. row'[i] = row[i] \/ row'[i] = Closed(row[i])
      BY <1>2 DEF Supersede
    <2> QED
      BY <1>a, <1>b, <2>1
  <1>3. ASSUME NEW j \in Ids, DetachAlert(j)
        PROVE  RowChange(i)
    <2>1. row' = [row EXCEPT ![j] = [row[j] EXCEPT !.cols = @ \ {"alert_id"}]]
      BY <1>3 DEF DetachAlert
    <2>2. row'[i] = row[i] \/ row'[i] = [row[i] EXCEPT !.cols = row[i].cols \ {"alert_id"}]
      BY <2>1 DEF TypeOK
    <2>3. LET C == row[i].cols \ {"alert_id"}
          IN  [row[i] EXCEPT !.cols = C].stage = row[i].stage /\ [row[i] EXCEPT !.cols = C].cols = C
      BY <1>0, UpdateFields
    <2> QED
      BY <1>a, <2>2, <2>3 DEF RowChange
  <1>4. ASSUME NEW w \in Workers, BeginPass(w)
        PROVE  RowChange(i)
    <2>1. row'[i] = row[i] \/ row'[i] = Closed(row[i])
      BY <1>4 DEF BeginPass
    <2> QED
      BY <1>a, <1>b, <2>1
  <1>5. ASSUME NEW w \in Workers, Claim(w)
        PROVE  RowChange(i)
    <2>1. row'[i] = row[i] \/ row'[i] = Claimed(row[i])
      BY <1>5 DEF Claim
    <2> QED
      BY <1>0, <1>a, <2>1, UpdateFields DEF RowChange
  <1>6. ASSUME NEW w \in Workers,
               \/ PassFails(w) \/ SendOK(w) \/ SendFails(w) \/ OutcomeLost(w) \/ Crash(w)
               \/ \E j \in Ids : StartDelivery(w, j)
        PROVE  RowChange(i)
    BY <1>6, <1>a DEF PassFails, SendOK, SendFails, OutcomeLost, Crash, StartDelivery
  <1>7. ASSUME NEW w \in Workers, MarkSent(w)
        PROVE  RowChange(i)
    <2> DEFINE C == (row[item[w]].cols \ {"body_sealed", "last_error"}) \cup {"sent_at"}
    <2>1. SetRow(item[w], [row[item[w]] EXCEPT !.cols = C]) /\ pc[w] = "sent"
      BY <1>7 DEF MarkSent
    <2>2. row'[i] = row[i] \/ (i = item[w] /\ row'[i] = [row[i] EXCEPT !.cols = C])
      BY <2>1, SetRowChange
    <2>3. i = item[w] /\ row'[i] = [row[i] EXCEPT !.cols = C] =>
             row'[i].stage = row[i].stage /\ row'[i].cols = C
      BY <1>0, UpdateFields
    <2> QED
      BY <1>a, <2>1, <2>2, <2>3 DEF RowChange
  <1>8. ASSUME NEW w \in Workers, MarkRetry(w)
        PROVE  RowChange(i)
    <2> DEFINE C == row[item[w]].cols \cup {"last_error"}
               n == Backoff(tries[w][item[w]])
               r == [row[item[w]] EXCEPT !.wait = n, !.cols = C]
    <2>1. SetRow(item[w], r)
      BY <1>8 DEF MarkRetry
    <2>2. i = item[w] => r.stage = row[i].stage /\ r.cols = C
      <3> HIDE DEF n, C
      <3> QED
        BY <1>0, UpdateFields
    <2> HIDE DEF r
    <2>3. row'[i] = row[i] \/ (i = item[w] /\ row'[i] = r)
      BY <2>1, SetRowChange
    <2> QED
      BY <1>a, <2>2, <2>3 DEF RowChange
  <1>9. ASSUME NEW w \in Workers, MarkFailed(w)
        PROVE  RowChange(i)
    <2>1. SetRow(item[w], Closed(row[item[w]]))
      BY <1>9 DEF MarkFailed
    <2>2. row'[i] = row[i] \/ row'[i] = Closed(row[i])
      BY <2>1, SetRowChange
    <2> QED
      BY <1>a, <1>b, <2>2
  <1>10. ASSUME NEW w \in Workers, Purge(w)
         PROVE  RowChange(i)
    <2>1. row'[i] = row[i] \/ row'[i] = [row[i] EXCEPT !.stage = "purged"]
      BY <1>10 DEF Purge
    <2> QED
      BY <1>0, <1>a, <2>1, UpdateFields DEF RowChange
  <1>11. CASE Tick
    <2>1. row'[i] = [row[i] EXCEPT !.wait = Sooner(@), !.ttl = Sooner(@)]
      BY <1>11 DEF Tick
    <2> QED
      BY <1>0, <2>1, UpdateFields DEF RowChange
  <1>12. CASE UNCHANGED vars
    BY <1>12, <1>a DEF vars
  <1>13. "password_reset" \in AllKinds
    BY DEF AllKinds
  <1> QED
    BY <1>1, <1>2, <1>3, <1>4, <1>5, <1>6, <1>7, <1>8, <1>9, <1>10, <1>11, <1>12, <1>13
       DEF Next, WriterStep, WorkerStep, FaultStep

\* The CHECK on bodies is never violated, whatever the leases are: the
\* statements that finish a row remove its sealed body, all others leave
\* both bodies alone.
THEOREM BodiesConstrained == Spec => []BodyChk
  <1>1. Init => BodyChk
    BY DEF Init, BodyChk, Stored
  <1>2. TypeOK /\ BodyChk /\ [Next]_vars => BodyChk'
    <2> SUFFICES ASSUME TypeOK, BodyChk, [Next]_vars, NEW i \in Ids, Stored(i)'
                 PROVE  IF Finished(i)' THEN "body_sealed" \notin row'[i].cols
                        ELSE ("body" \in row'[i].cols) # ("body_sealed" \in row'[i].cols)
      BY DEF BodyChk
    <2>1. RowChange(i)
      BY RowSteps
    <2>2. CASE \E k \in Kinds, to \in Recipients : row'[i] = NewRow(k, to)
      BY <2>2 DEF NewRow, Finished
    <2>3. ASSUME row'[i].stage \in {row[i].stage, "purged"}
          PROVE  IF Finished(i) THEN "body_sealed" \notin row[i].cols
                 ELSE ("body" \in row[i].cols) # ("body_sealed" \in row[i].cols)
      BY <2>3 DEF BodyChk, Stored
    <2> QED
      BY <2>1, <2>2, <2>3 DEF RowChange, Finished
  <1> QED
    BY <1>1, <1>2, TypeCorrect, PTL DEF Spec

\* Why "sent" is true: whoever is between StartDelivery and a Mark has a row,
\* and whoever is about to record "sent" has a row whose message arrived.
SentInv ==
    /\ SentWasDelivered
    /\ \A w \in Workers : pc[w] \in {"send", "sent", "failed", "broken"} => item[w] \in Ids
    /\ \A w \in Workers : pc[w] = "sent" => delivered[item[w]] > 0

\* What one step does to the copies received and to the rows in hand.
WorkerChange(w) ==
    \/ pc'[w] = pc[w] /\ item'[w] = item[w]
    \/ pc'[w] \in {"idle", "claim", "deliver", "purge"}
    \/ pc'[w] \in {"send", "broken"} /\ item'[w] \in Ids
    \/ pc[w] = "send" /\ pc'[w] = "failed" /\ item'[w] = item[w]
    \/ /\ pc[w] = "send" /\ pc'[w] = "sent" /\ item'[w] = item[w]
       /\ item[w] \in Ids => delivered'[item[w]] > 0

\* A worker that moves leaves the others where they are.
LEMMA OthersStay ==
    ASSUME TypeOK, NEW w \in Workers, NEW v \in Workers, NEW p, NEW x,
           pc' = [pc EXCEPT ![w] = p], item' = [item EXCEPT ![w] = x] \/ item' = item,
           v # w
    PROVE  WorkerChange(v)
  BY DEF TypeOK, WorkerChange

\* Every step moves a worker in one of these ways.
LEMMA WorkerSteps ==
    ASSUME TypeOK, [Next]_vars, NEW v \in Workers
    PROVE  WorkerChange(v)
  <1> USE DEF TypeOK
  <1>1. ASSUME UNCHANGED <<pc, item>>
        PROVE  WorkerChange(v)
    BY <1>1 DEF WorkerChange
  <1>2. ASSUME NEW w \in Workers, BeginPass(w) \/ PassFails(w) \/ Purge(w)
        PROVE  WorkerChange(v)
    BY <1>2 DEF BeginPass, PassFails, Purge, WorkerChange
  <1>3. ASSUME NEW w \in Workers, Claim(w)
        PROVE  WorkerChange(v)
    <2>1. PICK p \in {"purge", "deliver"} : pc' = [pc EXCEPT ![w] = p]
      BY <1>3 DEF Claim
    <2>2. item' = item
      BY <1>3 DEF Claim
    <2> QED
      BY <2>1, <2>2 DEF WorkerChange
  <1>4. ASSUME NEW w \in Workers, NEW i \in Ids, StartDelivery(w, i)
        PROVE  WorkerChange(v)
    BY <1>4 DEF StartDelivery, WorkerChange
  <1>5. ASSUME NEW w \in Workers, SendOK(w)
        PROVE  WorkerChange(v)
    <2>1. CASE v = w
      <3>1. pc[v] = "send" /\ pc'[v] = "sent" /\ item'[v] = item[v]
        BY <1>5, <2>1 DEF SendOK
      <3>2. item[v] \in Ids => delivered'[item[v]] = delivered[item[v]] + 1
        BY <1>5, <2>1 DEF SendOK
      <3> QED
        BY <3>1, <3>2 DEF WorkerChange
    <2>2. CASE v # w
      BY <1>5, <2>2, OthersStay DEF SendOK
    <2> QED
      BY <2>1, <2>2
  <1>6. ASSUME NEW w \in Workers, SendFails(w)
        PROVE  WorkerChange(v)
    BY <1>6 DEF SendFails, WorkerChange
  <1>7. ASSUME NEW w \in Workers, NextItem(w)
        PROVE  WorkerChange(v)
    <2>1. PICK p \in {"claim", "deliver"} : pc' = [pc EXCEPT ![w] = p]
      BY <1>7 DEF NextItem
    <2>2. item' = [item EXCEPT ![w] = NoItem]
      BY <1>7 DEF NextItem
    <2> QED
      BY <2>1, <2>2 DEF WorkerChange
  <1>8. ASSUME NEW w \in Workers, MarkSent(w) \/ MarkRetry(w) \/ MarkFailed(w) \/ OutcomeLost(w)
        PROVE  WorkerChange(v)
    BY <1>7, <1>8 DEF MarkSent, MarkRetry, MarkFailed, OutcomeLost
  <1>9. ASSUME NEW w \in Workers, Crash(w)
        PROVE  WorkerChange(v)
    BY <1>9 DEF Crash, WorkerChange
  <1>10. ASSUME WriterStep \/ Tick \/ UNCHANGED vars
         PROVE  WorkerChange(v)
    BY <1>1, <1>10 DEF WriterStep, Enqueue, Supersede, DetachAlert, Tick, vars, workerVars
  <1> QED
    BY <1>2, <1>3, <1>4, <1>5, <1>6, <1>8, <1>9, <1>10 DEF Next, WorkerStep, FaultStep

\* Nobody takes back a message that has arrived.
LEMMA CopiesStay ==
    ASSUME TypeOK, [Next]_vars, NEW i \in Ids, delivered[i] > 0
    PROVE  delivered'[i] > 0
  <1> USE DEF TypeOK
  <1>1. ASSUME NEW w \in Workers, SendOK(w)
        PROVE  delivered'[i] > 0
    BY <1>1 DEF SendOK
  <1>2. ASSUME NEW w \in Workers, SendFails(w)
        PROVE  delivered'[i] > 0
    <2>1. PICK a \in {0, 1} : delivered' = [delivered EXCEPT ![item[w]] = @ + a]
      BY <1>2 DEF SendFails
    <2> QED
      BY <2>1
  <1>3. ASSUME WriterStep \/ Tick \/ UNCHANGED vars
        PROVE  UNCHANGED delivered
    BY <1>3 DEF WriterStep, Enqueue, Supersede, DetachAlert, Tick, vars
  <1>4. ASSUME NEW w \in Workers,
               \/ BeginPass(w) \/ Claim(w) \/ \E j \in Ids : StartDelivery(w, j)
               \/ MarkSent(w) \/ MarkRetry(w) \/ MarkFailed(w) \/ Purge(w) \/ FaultStep(w)
        PROVE  UNCHANGED delivered
    BY <1>4 DEF BeginPass, Claim, StartDelivery, MarkSent, MarkRetry, MarkFailed, Purge,
                FaultStep, PassFails, OutcomeLost, Crash
  <1> QED
    BY <1>1, <1>2, <1>3, <1>4 DEF Next, WorkerStep

\* Sending comes before recording it, and a copy that arrived stays.
LEMMA SentNext == TypeOK /\ SentInv /\ [Next]_vars => SentInv'
  <1> SUFFICES ASSUME TypeOK, SentInv, [Next]_vars PROVE SentInv'
    OBVIOUS
  <1>1. ASSUME NEW i \in Ids, "sent_at" \in row'[i].cols
        PROVE  delivered'[i] > 0
    <2>1. RowChange(i)
      BY RowSteps
    <2>2. "sent_at" \in row[i].cols \/ \E w \in Workers : pc[w] = "sent" /\ item[w] = i
      <3>1. CASE \E k \in Kinds, to \in Recipients : row'[i] = NewRow(k, to)
        BY <1>1, <3>1 DEF NewRow
      <3> QED
        BY <1>1, <2>1, <3>1 DEF RowChange
    <2>3. delivered[i] > 0
      BY <2>2 DEF SentInv, SentWasDelivered
    <2> QED
      BY <2>3, CopiesStay
  <1>2. ASSUME NEW w \in Workers, pc'[w] \in {"send", "sent", "failed", "broken"}
        PROVE  item'[w] \in Ids
    <2>1. WorkerChange(w)
      BY WorkerSteps
    <2> QED
      BY <1>2, <2>1 DEF WorkerChange, SentInv
  <1>3. ASSUME NEW w \in Workers, pc'[w] = "sent"
        PROVE  delivered'[item'[w]] > 0
    <2>1. WorkerChange(w)
      BY WorkerSteps
    <2>2. item'[w] = item[w] /\ item[w] \in Ids
      BY <1>3, <2>1 DEF WorkerChange, SentInv
    <2>3. CASE pc[w] = "sent"
      BY <2>2, <2>3, CopiesStay DEF SentInv
    <2>4. CASE pc[w] # "sent"
      BY <1>3, <2>1, <2>2, <2>4 DEF WorkerChange
    <2> QED
      BY <2>3, <2>4
  <1> QED
    BY <1>1, <1>2, <1>3 DEF SentInv, SentWasDelivered

\* A row reported as sent reached its recipient, whatever the leases are and
\* however many workers deliver it: MarkSent comes after Send, and no other
\* statement sets sent_at.
THEOREM SentIsTrue == Spec => []SentWasDelivered
  <1>1. Init => SentInv
    BY DEF Init, SentInv, SentWasDelivered
  <1>2. SentInv => SentWasDelivered
    BY DEF SentInv
  <1> QED
    BY <1>1, <1>2, SentNext, TypeCorrect, PTL DEF Spec

-----------------------------------------------------------------------------
(* Attempts                                                                *)

\* A row that may still be tried.
Open(i) == row[i].stage = "unwritten" \/ Pending(i)

\* A row that is not written yet has not been tried.
FreshRows == \A i \in Ids : row[i].stage = "unwritten" => row[i].attempts = 0

\* The attempts of a row under the updates of the statements.
LEMMA UpdateAttempts ==
    ASSUME NEW r \in Row, NEW n, NEW C
    PROVE  /\ Closed(r).attempts = r.attempts
           /\ Claimed(r).attempts = r.attempts + 1
           /\ [r EXCEPT !.cols = C].attempts = r.attempts
           /\ [r EXCEPT !.wait = n, !.cols = C].attempts = r.attempts
           /\ [r EXCEPT !.wait = Sooner(@), !.ttl = Sooner(@)].attempts = r.attempts
           /\ [r EXCEPT !.stage = "purged"].attempts = r.attempts
  BY DEF Closed, Claimed, Row

\* Only Claim counts an attempt.
LEMMA AttemptSteps ==
    ASSUME TypeOK, FreshRows, [Next]_vars, NEW i \in Ids
    PROVE  \/ row'[i].attempts = row[i].attempts
           \/ /\ row'[i].attempts = row[i].attempts + 1
              /\ \E w \in Workers : Claim(w) /\ i \in batch'[w]
  <1>0. row[i] \in Row
    BY DEF TypeOK
  <1> DEFINE Same == row'[i].attempts = row[i].attempts
  <1>a. row'[i] = row[i] \/ row'[i] = Closed(row[i]) => Same
    BY <1>0, UpdateAttempts
  <1>b. ASSUME NEW w \in Workers, NEW r, SetRow(item[w], r),
               item[w] = i => r.attempts = row[i].attempts
        PROVE  Same
    BY <1>b, SetRowChange DEF TypeOK
  <1>1. ASSUME NEW j \in Ids, NEW k \in Kinds, NEW to \in Recipients, Enqueue(j, k, to)
        PROVE  Same
    <2>1. row'[i] = row[i] \/ (i = j /\ row'[i] = NewRow(k, to) /\ row[i].stage = "unwritten")
      BY <1>1 DEF Enqueue, TypeOK
    <2>2. NewRow(k, to).attempts = 0
      BY DEF NewRow
    <2> QED
      BY <1>a, <2>1, <2>2 DEF FreshRows
  <1>2. ASSUME NEW k \in AllKinds, NEW to \in Recipients, Supersede(k, to)
        PROVE  Same
    BY <1>2, <1>a DEF Supersede
  <1>3. ASSUME NEW j \in Ids, DetachAlert(j)
        PROVE  Same
    <2>1. row' = [row EXCEPT ![j] = [row[j] EXCEPT !.cols = @ \ {"alert_id"}]]
      BY <1>3 DEF DetachAlert
    <2>2. row'[i] = row[i] \/ row'[i] = [row[i] EXCEPT !.cols = row[i].cols \ {"alert_id"}]
      BY <2>1 DEF TypeOK
    <2>3. LET C == row[i].cols \ {"alert_id"} IN [row[i] EXCEPT !.cols = C].attempts = row[i].attempts
      BY <1>0, UpdateAttempts
    <2> QED
      BY <1>a, <2>2, <2>3
  <1>4. ASSUME NEW w \in Workers, BeginPass(w)
        PROVE  Same
    BY <1>4, <1>a DEF BeginPass
  <1>5. ASSUME NEW w \in Workers, Claim(w)
        PROVE  Same \/ (row'[i].attempts = row[i].attempts + 1 /\ i \in batch'[w])
    <2>1. PICK S \in SUBSET Due(w) :
              /\ row' = [j \in Ids |-> IF j \in S THEN Claimed(row[j]) ELSE row[j]]
              /\ batch' = [batch EXCEPT ![w] = S]
      BY <1>5 DEF Claim
    <2>2. batch'[w] = S
      BY <2>1 DEF TypeOK
    <2>3. row'[i] = IF i \in S THEN Claimed(row[i]) ELSE row[i]
      BY <2>1
    <2> QED
      BY <1>0, <1>a, <2>2, <2>3, UpdateAttempts
  <1>6. ASSUME NEW w \in Workers,
               \/ PassFails(w) \/ SendOK(w) \/ SendFails(w) \/ OutcomeLost(w) \/ Crash(w)
               \/ \E j \in Ids : StartDelivery(w, j)
        PROVE  Same
    BY <1>6, <1>a DEF PassFails, SendOK, SendFails, OutcomeLost, Crash, StartDelivery
  <1>7. ASSUME NEW w \in Workers, MarkSent(w)
        PROVE  Same
    <2> DEFINE C == (row[item[w]].cols \ {"body_sealed", "last_error"}) \cup {"sent_at"}
               r == [row[item[w]] EXCEPT !.cols = C]
    <2>1. SetRow(item[w], r)
      BY <1>7 DEF MarkSent
    <2>2. item[w] = i => r.attempts = row[i].attempts
      BY <1>0, UpdateAttempts
    <2> HIDE DEF r
    <2> QED
      BY <1>b, <2>1, <2>2
  <1>8. ASSUME NEW w \in Workers, MarkRetry(w)
        PROVE  Same
    <2> DEFINE C == row[item[w]].cols \cup {"last_error"}
               n == Backoff(tries[w][item[w]])
               r == [row[item[w]] EXCEPT !.wait = n, !.cols = C]
    <2>1. SetRow(item[w], r)
      BY <1>8 DEF MarkRetry
    <2>2. item[w] = i => r.attempts = row[i].attempts
      <3> HIDE DEF n, C
      <3> QED
        BY <1>0, UpdateAttempts
    <2> HIDE DEF r
    <2> QED
      BY <1>b, <2>1, <2>2
  <1>9. ASSUME NEW w \in Workers, MarkFailed(w)
        PROVE  Same
    <2>1. SetRow(item[w], Closed(row[item[w]]))
      BY <1>9 DEF MarkFailed
    <2>2. item[w] = i => Closed(row[item[w]]).attempts = row[i].attempts
      BY <1>0, UpdateAttempts
    <2> QED
      BY <1>b, <2>1, <2>2
  <1>10. ASSUME NEW w \in Workers, Purge(w)
         PROVE  Same
    <2>1. row'[i] = row[i] \/ row'[i] = [row[i] EXCEPT !.stage = "purged"]
      BY <1>10 DEF Purge
    <2> QED
      BY <1>0, <1>a, <2>1, UpdateAttempts
  <1>11. CASE Tick
    <2>1. row'[i] = [row[i] EXCEPT !.wait = Sooner(@), !.ttl = Sooner(@)]
      BY <1>11 DEF Tick
    <2> QED
      BY <1>0, <2>1, UpdateAttempts
  <1>12. CASE UNCHANGED vars
    BY <1>12, <1>a DEF vars
  <1>13. "password_reset" \in AllKinds
    BY DEF AllKinds
  <1> QED
    BY <1>1, <1>2, <1>3, <1>4, <1>5, <1>6, <1>7, <1>8, <1>9, <1>10, <1>11, <1>12, <1>13
       DEF Next, WriterStep, WorkerStep, FaultStep

\* No statement opens a row again.
LEMMA OpenSteps ==
    ASSUME TypeOK, [Next]_vars, NEW i \in Ids, Open(i)'
    PROVE  Open(i)
  <1>1. RowChange(i)
    BY RowSteps
  <1> QED
    BY <1>1 DEF RowChange, Open, Pending, Stored, Finished

\* What is not written is not claimed.
LEMMA FreshNext ==
    ASSUME TypeOK, FreshRows, [Next]_vars
    PROVE  FreshRows'
  <1> SUFFICES ASSUME NEW i \in Ids, row'[i].stage = "unwritten"
               PROVE  row'[i].attempts = 0
    BY DEF FreshRows
  <1>1. row[i].stage = "unwritten"
    <2>1. RowChange(i)
      BY RowSteps
    <2> QED
      BY <2>1 DEF RowChange, NewRow
  <1>2. ASSUME NEW w \in Workers, Claim(w), i \in batch'[w]
        PROVE  FALSE
    <2>1. PICK S \in SUBSET Due(w) : batch' = [batch EXCEPT ![w] = S]
      BY <1>2 DEF Claim
    <2>2. i \in Due(w)
      BY <1>2, <2>1 DEF TypeOK
    <2> QED
      BY <1>1, <2>2 DEF Due, Served, Pending, Stored
  <1> QED
    BY <1>1, <1>2, AttemptSteps DEF FreshRows

\* Attempts stand still while no batch grows.
LEMMA AttemptsStay ==
    ASSUME TypeOK, WorkerShape, FreshRows, [Next]_vars,
           \A w \in Workers : batch'[w] \subseteq batch[w]
    PROVE  \A i \in Ids : row'[i].attempts = row[i].attempts
  <1> SUFFICES ASSUME NEW i \in Ids, NEW w \in Workers, Claim(w), i \in batch'[w]
               PROVE  FALSE
    BY AttemptSteps
  <1>1. batch[w] = {}
    BY DEF Claim, WorkerShape
  <1> QED
    BY <1>1

\* The worker moves on: it lets go of the row in hand and of nothing else.
LEMMA NextItemHolds ==
    ASSUME TypeOK, WorkerShape, NEW w \in Workers, NextItem(w), item[w] \in Ids
    PROVE  /\ \A v \in Workers : batch'[v] = batch[v]
           /\ \A v \in Workers \ {w} : item'[v] = item[v] /\ tries'[v] = tries[v]
           /\ item'[w] = NoItem
           /\ \A i \in Ids : Holds(w, i)' => Holds(w, i) /\ tries'[w][i] = tries[w][i]
           /\ \A i \in Ids : Holds(w, i) /\ ~Holds(w, i)' => i = item[w]
  <1>1. /\ batch' = batch /\ item' = [item EXCEPT ![w] = NoItem]
        /\ tries' = [tries EXCEPT ![w][item[w]] = 0]
    BY DEF NextItem
  <1>2. item'[w] = NoItem /\ \A v \in Workers \ {w} : item'[v] = item[v] /\ tries'[v] = tries[v]
    BY <1>1 DEF TypeOK
  <1>3. \A i \in Ids : i # item[w] => tries'[w][i] = tries[w][i]
    BY <1>1 DEF TypeOK
  <1>4. item[w] \notin batch[w]
    BY DEF WorkerShape
  <1> QED
    BY <1>1, <1>2, <1>3, <1>4, IdsAssumption DEF Holds

-----------------------------------------------------------------------------
(* Copies                                                                  *)

\* Whatever the leases are, a worker has rows only where its loop has them.
LEMMA ShapeNext == TypeOK /\ WorkerShape /\ [Next]_vars => WorkerShape'
  <1> SUFFICES ASSUME TypeOK, WorkerShape, [Next]_vars PROVE WorkerShape'
    OBVIOUS
  <1> DEFINE Shape(v) ==
                /\ item[v] # NoItem => pc[v] \in {"send", "sent", "failed", "broken"}
                /\ batch[v] # {} => pc[v] \in {"deliver", "send", "sent", "failed", "broken"}
                /\ pc[v] # "send" => left[v] = 0
                /\ item[v] \notin batch[v]
                /\ pc[v] = "deliver" => item[v] = NoItem
             Still(v) == UNCHANGED <<pc[v], batch[v], item[v], left[v]>>
  <1>1. ASSUME NEW v \in Workers, Still(v)
        PROVE  Shape(v)'
    BY <1>1 DEF WorkerShape
  <1>2. ASSUME NEW w \in Workers, Shape(w)', \A v \in Workers \ {w} : Still(v)
        PROVE  WorkerShape'
    BY <1>1, <1>2 DEF WorkerShape
  <1>3. ASSUME WriterStep \/ UNCHANGED vars
        PROVE  WorkerShape'
    <2>1. UNCHANGED <<pc, batch, item, left>>
      BY <1>3 DEF WriterStep, Enqueue, Supersede, DetachAlert, vars, workerVars
    <2> QED
      BY <2>1 DEF WorkerShape
  <1>4. ASSUME NEW w \in Workers, BeginPass(w) \/ PassFails(w) \/ Purge(w)
        PROVE  WorkerShape'
    <2>1. \A v \in Workers \ {w} : Still(v)
      BY <1>4 DEF BeginPass, PassFails, Purge, TypeOK
    <2>2. Shape(w)'
      BY <1>4 DEF BeginPass, PassFails, Purge, TypeOK, WorkerShape
    <2> QED
      BY <1>2, <2>1, <2>2
  <1>5. ASSUME NEW w \in Workers, Claim(w)
        PROVE  WorkerShape'
    <2>1. PICK S \in SUBSET Due(w) :
              /\ batch' = [batch EXCEPT ![w] = S]
              /\ pc' = [pc EXCEPT ![w] = IF S = {} THEN "purge" ELSE "deliver"]
      BY <1>5 DEF Claim
    <2>2. UNCHANGED <<item, left>> /\ pc[w] = "claim" /\ S \subseteq Ids
      BY <1>5 DEF Claim, Due, Served
    <2>3. \A v \in Workers \ {w} : Still(v)
      BY <2>1, <2>2 DEF TypeOK
    <2>4. item[w] = NoItem /\ left[w] = 0
      BY <2>2 DEF WorkerShape
    <2>5. Shape(w)'
      BY <2>1, <2>2, <2>4, IdsAssumption DEF TypeOK
    <2> QED
      BY <1>2, <2>3, <2>5
  <1>6. ASSUME NEW w \in Workers, NEW i \in Ids, StartDelivery(w, i)
        PROVE  WorkerShape'
    <2>1. \A v \in Workers \ {w} : Still(v)
      BY <1>6 DEF StartDelivery, TypeOK
    <2>2. left[w] = 0
      BY <1>6 DEF StartDelivery, WorkerShape
    <2>3. Shape(w)'
      BY <1>6, <2>2 DEF StartDelivery, TypeOK
    <2> QED
      BY <1>2, <2>1, <2>3
  <1>7. ASSUME NEW w \in Workers, SendOK(w) \/ SendFails(w)
        PROVE  WorkerShape'
    <2>1. \A v \in Workers \ {w} : Still(v)
      BY <1>7 DEF SendOK, SendFails, TypeOK
    <2>2. Shape(w)'
      BY <1>7 DEF SendOK, SendFails, TypeOK, WorkerShape
    <2> QED
      BY <1>2, <2>1, <2>2
  <1>8. ASSUME NEW w \in Workers, NextItem(w)
        PROVE  WorkerShape'
    <2>1. \A v \in Workers \ {w} : Still(v)
      BY <1>8 DEF NextItem, TypeOK
    <2>2. Shape(w)'
      BY <1>8, IdsAssumption DEF NextItem, TypeOK
    <2> QED
      BY <1>2, <2>1, <2>2
  <1>9. ASSUME NEW w \in Workers, MarkSent(w) \/ MarkRetry(w) \/ MarkFailed(w) \/ OutcomeLost(w)
        PROVE  WorkerShape'
    BY <1>8, <1>9 DEF MarkSent, MarkRetry, MarkFailed, OutcomeLost
  <1>10. ASSUME NEW w \in Workers, Crash(w)
         PROVE  WorkerShape'
    <2>1. \A v \in Workers \ {w} : Still(v)
      BY <1>10 DEF Crash, TypeOK
    <2>2. Shape(w)'
      BY <1>10 DEF Crash, TypeOK
    <2> QED
      BY <1>2, <2>1, <2>2
  <1>11. CASE Tick
    <2>1. UNCHANGED <<pc, batch, item>> /\ left' = [w \in Workers |-> Sooner(left[w])]
      BY <1>11 DEF Tick
    <2>2. \A w \in Workers : left[w] = 0 => left'[w] = 0
      BY <2>1 DEF Sooner
    <2> QED
      BY <2>1, <2>2 DEF WorkerShape
  <1> QED
    BY <1>3, <1>4, <1>5, <1>6, <1>7, <1>9, <1>10, <1>11 DEF Next, WorkerStep, FaultStep

\* The workers from which a copy of row i can still come.
Coming(i) == {w \in Workers : i \in batch[w] \/ (item[w] = i /\ pc[w] = "send")}

\* What a step does to the copies of row i that have come and can come.
CopyChange(i) ==
    \/ delivered'[i] = delivered[i] /\ Coming(i)' \subseteq Coming(i)
    \/ \E w \in Coming(i) :
          /\ delivered'[i] \in {delivered[i], delivered[i] + 1}
          /\ Coming(i)' \subseteq Coming(i) \ {w}
    \/ \E w \in Workers :
          /\ Claim(w) /\ row'[i].attempts = row[i].attempts + 1
          /\ delivered'[i] = delivered[i]
          /\ Coming(i)' \subseteq Coming(i) \cup {w}

\* Every step is of one of these kinds: a copy that comes was counted before.
LEMMA CopySteps ==
    ASSUME TypeOK, WorkerShape, [Next]_vars, NEW i \in Ids
    PROVE  CopyChange(i)
  <1>1. i # NoItem
    BY IdsAssumption
  <1>2. ASSUME delivered' = delivered, NEW w \in Workers,
               \A v \in Workers \ {w} : pc'[v] = pc[v] /\ item'[v] = item[v] /\ batch'[v] = batch[v],
               w \in Coming(i)' => w \in Coming(i)
        PROVE  CopyChange(i)
    BY <1>2 DEF CopyChange, Coming
  <1>3. ASSUME WriterStep \/ Tick \/ UNCHANGED vars
        PROVE  CopyChange(i)
    <2>1. UNCHANGED <<pc, batch, item, delivered>>
      BY <1>3 DEF WriterStep, Enqueue, Supersede, DetachAlert, Tick, vars, workerVars
    <2> QED
      BY <2>1 DEF CopyChange, Coming
  <1>4. ASSUME NEW w \in Workers, BeginPass(w) \/ PassFails(w) \/ Purge(w) \/ Crash(w)
        PROVE  CopyChange(i)
    <2>1. \A v \in Workers \ {w} : pc'[v] = pc[v] /\ item'[v] = item[v] /\ batch'[v] = batch[v]
      BY <1>4 DEF BeginPass, PassFails, Purge, Crash, TypeOK
    <2>2. w \in Coming(i)' => w \in Coming(i)
      BY <1>1, <1>4 DEF BeginPass, PassFails, Purge, Crash, TypeOK, Coming
    <2> QED
      BY <1>2, <1>4, <2>1, <2>2 DEF BeginPass, PassFails, Purge, Crash
  <1>5. ASSUME NEW w \in Workers, NextItem(w), delivered' = delivered
        PROVE  CopyChange(i)
    <2>1. \A v \in Workers \ {w} : pc'[v] = pc[v] /\ item'[v] = item[v] /\ batch'[v] = batch[v]
      BY <1>5 DEF NextItem, TypeOK
    <2>2. w \in Coming(i)' => w \in Coming(i)
      BY <1>1, <1>5 DEF NextItem, TypeOK, Coming
    <2> QED
      BY <1>2, <1>5, <2>1, <2>2
  <1>6. ASSUME NEW w \in Workers, MarkSent(w) \/ MarkRetry(w) \/ MarkFailed(w) \/ OutcomeLost(w)
        PROVE  CopyChange(i)
    BY <1>5, <1>6 DEF MarkSent, MarkRetry, MarkFailed, OutcomeLost
  <1>7. ASSUME NEW w \in Workers, NEW j \in Ids, StartDelivery(w, j)
        PROVE  CopyChange(i)
    <2>1. \A v \in Workers \ {w} : pc'[v] = pc[v] /\ item'[v] = item[v] /\ batch'[v] = batch[v]
      BY <1>7 DEF StartDelivery, TypeOK
    <2>2. w \in Coming(i)' => w \in Coming(i)
      BY <1>7 DEF StartDelivery, TypeOK, Coming
    <2> QED
      BY <1>2, <1>7, <2>1, <2>2 DEF StartDelivery
  <1>8. ASSUME NEW w \in Workers, SendOK(w) \/ SendFails(w)
        PROVE  CopyChange(i)
    <2>1. \A v \in Workers \ {w} : pc'[v] = pc[v] /\ item'[v] = item[v] /\ batch'[v] = batch[v]
      BY <1>8 DEF SendOK, SendFails, TypeOK
    <2>2. pc[w] = "send" /\ pc'[w] \in {"sent", "failed"} /\ batch'[w] = batch[w] /\ item'[w] = item[w]
      BY <1>8 DEF SendOK, SendFails, TypeOK
    <2>3. \/ delivered' = [delivered EXCEPT ![item[w]] = @ + 1]
          \/ \E a \in {0, 1} : delivered' = [delivered EXCEPT ![item[w]] = @ + a]
      BY <1>8 DEF SendOK, SendFails
    <2>4. CASE item[w] = i
      <3>1. delivered'[i] \in {delivered[i], delivered[i] + 1}
        BY <2>3, <2>4 DEF TypeOK
      <3>2. w \in Coming(i) /\ w \notin Coming(i)'
        BY <2>2, <2>4 DEF Coming, WorkerShape
      <3>3. Coming(i)' \subseteq Coming(i) \ {w}
        BY <2>1, <3>2 DEF Coming
      <3> QED
        BY <3>1, <3>2, <3>3 DEF CopyChange
    <2>5. CASE item[w] # i
      <3>1. delivered'[i] = delivered[i]
        BY <2>3, <2>5 DEF TypeOK
      <3>2. Coming(i)' \subseteq Coming(i)
        BY <2>1, <2>2 DEF Coming
      <3> QED
        BY <3>1, <3>2 DEF CopyChange
    <2> QED
      BY <2>4, <2>5
  <1>9. ASSUME NEW w \in Workers, Claim(w)
        PROVE  CopyChange(i)
    <2>1. PICK S \in SUBSET Due(w) :
              /\ row' = [j \in Ids |-> IF j \in S THEN Claimed(row[j]) ELSE row[j]]
              /\ batch' = [batch EXCEPT ![w] = S]
              /\ pc' = [pc EXCEPT ![w] = IF S = {} THEN "purge" ELSE "deliver"]
      BY <1>9 DEF Claim
    <2>2. UNCHANGED <<item, delivered>>
      BY <1>9 DEF Claim
    <2>3. \A v \in Workers \ {w} : pc'[v] = pc[v] /\ item'[v] = item[v] /\ batch'[v] = batch[v]
      BY <2>1, <2>2 DEF TypeOK
    <2>4. batch'[w] = S /\ pc'[w] # "send"
      BY <2>1 DEF TypeOK
    <2>5. CASE i \in S
      <3>1. row'[i] = Claimed(row[i]) /\ row[i] \in Row
        BY <2>1, <2>5 DEF TypeOK
      <3>2. row'[i].attempts = row[i].attempts + 1
        BY <3>1, UpdateAttempts
      <3>3. Coming(i)' \subseteq Coming(i) \cup {w}
        BY <2>3 DEF Coming
      <3> QED
        BY <1>9, <2>2, <3>2, <3>3 DEF CopyChange
    <2>6. CASE i \notin S
      BY <1>2, <2>2, <2>3, <2>4, <2>6 DEF Coming
    <2> QED
      BY <2>5, <2>6
  <1> QED
    BY <1>3, <1>4, <1>6, <1>7, <1>8, <1>9 DEF Next, WorkerStep, FaultStep

\* Cardinalities of the sets of workers involved.
LEMMA ComingCardinality ==
    ASSUME IsFiniteSet(Workers), NEW S \in SUBSET Workers, NEW T \in SUBSET Workers
    PROVE  /\ Cardinality(S) \in Nat /\ Cardinality(T) \in Nat
           /\ T \subseteq S => Cardinality(T) <= Cardinality(S)
           /\ \A w \in S : T \subseteq S \ {w} => Cardinality(T) + 1 <= Cardinality(S)
           /\ \A w \in Workers : T \subseteq S \cup {w} => Cardinality(T) <= Cardinality(S) + 1
  <1>1. IsFiniteSet(S) /\ IsFiniteSet(T)
    BY FS_Subset
  <1>2. Cardinality(S) \in Nat /\ Cardinality(T) \in Nat
    BY <1>1, FS_CardinalityType
  <1>3. T \subseteq S => Cardinality(T) <= Cardinality(S)
    BY <1>1, FS_Subset
  <1>4. ASSUME NEW w \in S, T \subseteq S \ {w}
        PROVE  Cardinality(T) + 1 <= Cardinality(S)
    <2>1. Cardinality(S \ {w}) = Cardinality(S) - 1 /\ IsFiniteSet(S \ {w})
      BY <1>1, FS_RemoveElement
    <2>2. Cardinality(T) <= Cardinality(S \ {w})
      BY <1>4, <2>1, FS_Subset
    <2> QED
      BY <1>2, <2>1, <2>2
  <1>5. ASSUME NEW w \in Workers, T \subseteq S \cup {w}
        PROVE  Cardinality(T) <= Cardinality(S) + 1
    <2>1. IsFiniteSet(S \cup {w}) /\ Cardinality(S \cup {w}) <= Cardinality(S) + 1
      <3>1. /\ IsFiniteSet(S \cup {w})
            /\ Cardinality(S \cup {w}) \in {Cardinality(S), Cardinality(S) + 1}
        BY <1>1, FS_AddElement, Zenon
      <3> QED
        BY <1>2, <3>1
    <2>2. Cardinality(T) <= Cardinality(S \cup {w}) /\ Cardinality(S \cup {w}) \in Nat
      BY <1>5, <2>1, FS_Subset, FS_CardinalityType
    <2> QED
      BY <1>2, <2>1, <2>2
  <1> QED
    BY <1>2, <1>3, <1>4, <1>5

\* No recipient gets a copy that no attempt paid for, whatever the leases are
\* and however many workers deliver the same row: Claim counts the attempt in
\* the statement that takes the row, before anything is sent.
THEOREM CopiesAreCounted ==
    ASSUME IsFiniteSet(Workers)
    PROVE  Spec => []CopiesWithinAttempts
  <1> DEFINE Inv == TypeOK /\ WorkerShape /\ FreshRows /\ CopiesWithinAttempts
  <1>1. Init => Inv
    <2> SUFFICES ASSUME Init PROVE Inv
      OBVIOUS
    <2>1. TypeOK
      BY TypeInit
    <2>2. WorkerShape
      BY DEF Init, WorkerShape
    <2>3. \A i \in Ids : row[i].attempts = 0 /\ delivered[i] = 0
      BY DEF Init
    <2>4. \A i \in Ids : Coming(i) = {}
      BY IdsAssumption DEF Init, Coming
    <2>5. CopiesWithinAttempts
      <3> SUFFICES ASSUME NEW i \in Ids
                   PROVE  delivered[i] + Cardinality(Coming(i)) <= row[i].attempts
        BY DEF CopiesWithinAttempts, Coming
      <3>1. Cardinality(Coming(i)) = 0
        BY <2>4, FS_EmptySet
      <3> QED
        BY <2>3, <3>1
    <2> QED
      BY <2>1, <2>2, <2>3, <2>5 DEF FreshRows
  <1>2. Inv /\ [Next]_vars => CopiesWithinAttempts'
    <2> SUFFICES ASSUME Inv, [Next]_vars, NEW i \in Ids
                 PROVE  delivered'[i] + Cardinality(Coming(i)') <= row'[i].attempts
      BY DEF CopiesWithinAttempts, Coming
    <2>1. delivered[i] + Cardinality(Coming(i)) <= row[i].attempts
      BY DEF CopiesWithinAttempts, Coming
    <2>2. TypeOK'
      BY TypeNext
    <2>3. delivered[i] \in Nat /\ delivered'[i] \in Nat /\ row[i].attempts \in Nat /\ row'[i].attempts \in Nat
      BY <2>2 DEF TypeOK, Row
    <2>4. Coming(i) \in SUBSET Workers /\ Coming(i)' \in SUBSET Workers
      BY DEF Coming
    <2> DEFINE c == Cardinality(Coming(i))
               d == Cardinality(Coming(i)')
    <2>5. /\ c \in Nat /\ d \in Nat
          /\ Coming(i)' \subseteq Coming(i) => d <= c
          /\ \A w \in Coming(i) : Coming(i)' \subseteq Coming(i) \ {w} => d + 1 <= c
          /\ \A w \in Workers : Coming(i)' \subseteq Coming(i) \cup {w} => d <= c + 1
      BY <2>4, ComingCardinality
    <2>6. row[i].attempts <= row'[i].attempts
      BY <2>3, AttemptSteps
    <2>7. CopyChange(i)
      BY CopySteps
    <2> HIDE DEF c, d
    <2>8. delivered'[i] + d <= row'[i].attempts
      <3>1. delivered[i] + c <= row[i].attempts
        BY <2>1 DEF c
      <3>2. CASE delivered'[i] = delivered[i] /\ Coming(i)' \subseteq Coming(i)
        BY <2>3, <2>5, <2>6, <3>1, <3>2
      <3>3. CASE \E w \in Coming(i) : /\ delivered'[i] \in {delivered[i], delivered[i] + 1}
                                      /\ Coming(i)' \subseteq Coming(i) \ {w}
        BY <2>3, <2>5, <2>6, <3>1, <3>3
      <3>4. CASE \E w \in Workers : /\ Claim(w) /\ row'[i].attempts = row[i].attempts + 1
                                    /\ delivered'[i] = delivered[i]
                                    /\ Coming(i)' \subseteq Coming(i) \cup {w}
        BY <2>3, <2>5, <3>1, <3>4
      <3> QED
        BY <2>7, <3>2, <3>3, <3>4 DEF CopyChange
    <2> QED
      BY <2>8 DEF d
  <1>3. Inv /\ [Next]_vars => Inv'
    BY <1>2, TypeNext, ShapeNext, FreshNext
  <1>4. Inv => CopiesWithinAttempts
    OBVIOUS
  <1> QED
    BY <1>1, <1>3, <1>4, PTL DEF Spec


-----------------------------------------------------------------------------
(* The rows the workers have                                               *)

\* A worker comes to have a row only by claiming it from the table.
LEMMA HoldSteps ==
    ASSUME TypeOK, [Next]_vars, NEW v \in Workers, NEW i \in Ids, Holds(v, i)'
    PROVE  Holds(v, i) \/ Stored(i)
  <1> DEFINE Goal == Holds(v, i) \/ Stored(i)
  <1>0. i # NoItem
    BY IdsAssumption
  <1>1. ASSUME UNCHANGED <<batch, item>>
        PROVE  Goal
    BY <1>1 DEF Holds
  <1>2. ASSUME WriterStep \/ Tick \/ UNCHANGED vars
        PROVE  Goal
    BY <1>1, <1>2 DEF WriterStep, Enqueue, Supersede, DetachAlert, Tick, vars, workerVars
  <1>3. ASSUME NEW w \in Workers, BeginPass(w) \/ PassFails(w) \/ SendOK(w) \/ SendFails(w) \/ Purge(w)
        PROVE  Goal
    BY <1>1, <1>3 DEF BeginPass, PassFails, SendOK, SendFails, Purge
  <1>4. ASSUME NEW w \in Workers, Claim(w)
        PROVE  Goal
    <2>1. PICK S \in SUBSET Due(w) : batch' = [batch EXCEPT ![w] = S]
      BY <1>4 DEF Claim
    <2>2. item' = item
      BY <1>4 DEF Claim
    <2>3. i \in S => Stored(i)
      BY DEF Due, Served, Pending
    <2>4. Holds(v, i) \/ i \in S
      BY <2>1, <2>2 DEF Holds, TypeOK
    <2> QED
      BY <2>3, <2>4
  <1>5. ASSUME NEW w \in Workers, NEW j \in Ids, StartDelivery(w, j)
        PROVE  Goal
    BY <1>5 DEF StartDelivery, Holds, TypeOK
  <1>6. ASSUME NEW w \in Workers, NextItem(w)
        PROVE  Goal
    BY <1>0, <1>6 DEF NextItem, Holds, TypeOK
  <1>7. ASSUME NEW w \in Workers, MarkSent(w) \/ MarkRetry(w) \/ MarkFailed(w) \/ OutcomeLost(w)
        PROVE  Goal
    BY <1>6, <1>7 DEF MarkSent, MarkRetry, MarkFailed, OutcomeLost
  <1>8. ASSUME NEW w \in Workers, Crash(w)
        PROVE  Goal
    BY <1>0, <1>8 DEF Crash, Holds, TypeOK
  <1> QED
    BY <1>2, <1>3, <1>4, <1>5, <1>7, <1>8 DEF Next, WorkerStep, FaultStep

\* Whatever the leases are, the row a worker has was written.
LEMMA HeldNext == TypeOK /\ HeldRowsWritten /\ [Next]_vars => HeldRowsWritten'
  <1> SUFFICES ASSUME TypeOK, HeldRowsWritten, [Next]_vars,
                      NEW v \in Workers, NEW i \in Ids, Holds(v, i)'
               PROVE  row'[i].stage # "unwritten"
    BY DEF HeldRowsWritten
  <1>1. row[i].stage # "unwritten"
    BY HoldSteps DEF HeldRowsWritten, Stored
  <1>2. RowChange(i)
    BY RowSteps
  <1> QED
    BY <1>1, <1>2 DEF RowChange, NewRow

-----------------------------------------------------------------------------
(* The bound on the attempts                                               *)

\* Why no row is tried too often: each attempt at the limit is in the hands
\* of a worker, was swallowed by a fault, or closed the row.
AttemptsInv ==
    /\ \A i \in Ids : Open(i) =>
          row[i].attempts < MaxAttempts + faults + Cardinality(LastTriers(i))
    /\ \A i \in Ids : row[i].attempts < MaxAttempts + faults + Cardinality(Workers)
    /\ \A w \in Workers, i \in Ids : Holds(w, i) => tries[w][i] \in Nat

\* What a step that counts no attempt on row i may do to those on their last
\* attempt: all stay, or one leaves by a fault, or the row is closed.
TriersStay(i) ==
    \/ LastTriers(i) \subseteq LastTriers(i)' /\ faults <= faults'
    \/ /\ faults' = faults + 1
       /\ \E w \in Workers : LastTriers(i) \ {w} \subseteq LastTriers(i)'
    \/ ~Open(i)' /\ faults <= faults'

\* Workers whose rows and memory a step leaves alone stay on their attempt.
LEMMA TriersKept ==
    ASSUME NEW i \in Ids, NEW V \in SUBSET Workers,
           \A v \in V : Holds(v, i) => Holds(v, i)' /\ tries'[v][i] = tries[v][i]
    PROVE  LastTriers(i) \cap V \subseteq LastTriers(i)'
  BY DEF LastTriers

\* A worker that moves on with an outcome closes the row, may try it again,
\* or leaves it by a fault.
LEMMA NextItemTriers ==
    ASSUME TypeOK, WorkerShape, HeldRowsWritten, NEW w \in Workers, NextItem(w),
           item[w] \in Ids, NEW i \in Ids, faults <= faults',
           i = item[w] => \/ faults' = faults + 1
                          \/ ~Open(i)'
                          \/ tries[w][i] < MaxAttempts
    PROVE  TriersStay(i)
  <1>1. /\ \A v \in Workers : batch'[v] = batch[v]
        /\ \A v \in Workers \ {w} : item'[v] = item[v] /\ tries'[v] = tries[v]
        /\ \A j \in Ids : Holds(w, j)' => Holds(w, j) /\ tries'[w][j] = tries[w][j]
        /\ \A j \in Ids : Holds(w, j) /\ ~Holds(w, j)' => j = item[w]
    BY NextItemHolds
  <1>2. \A v \in Workers \ {w} : Holds(v, i) => Holds(v, i)' /\ tries'[v][i] = tries[v][i]
    BY <1>1 DEF Holds
  <1>3. LastTriers(i) \cap (Workers \ {w}) \subseteq LastTriers(i)'
    BY <1>2, TriersKept
  <1>4. LastTriers(i) \ {w} \subseteq LastTriers(i)'
    BY <1>3 DEF LastTriers
  <1>5. CASE i # item[w]
    <2>1. Holds(w, i) => Holds(w, i)' /\ tries'[w][i] = tries[w][i]
      BY <1>1, <1>5
    <2>2. LastTriers(i) \subseteq LastTriers(i)'
      BY <1>4, <2>1 DEF LastTriers
    <2> QED
      BY <2>2 DEF TriersStay
  <1>6. CASE i = item[w] /\ tries[w][i] < MaxAttempts
    <2>1. tries[w][i] \in Nat /\ MaxAttempts \in Nat
      BY BoundsAssumption DEF TypeOK
    <2>2. w \notin LastTriers(i)
      BY <1>6, <2>1 DEF LastTriers
    <2>3. LastTriers(i) \subseteq LastTriers(i)'
      BY <1>4, <2>2
    <2> QED
      BY <2>3 DEF TriersStay
  <1> QED
    BY <1>4, <1>5, <1>6 DEF TriersStay

\* A row that is closed by the worker that has it is open no more.
LEMMA MarkCloses ==
    ASSUME TypeOK, HeldRowsWritten, NEW w \in Workers, NEW r, SetRow(item[w], r),
           NEW i \in Ids, i = item[w],
           r.cols \cap {"sent_at", "failed_at"} # {}, r.stage = row[item[w]].stage
    PROVE  ~Open(i)'
  <1>1. row[i].stage # "unwritten"
    BY DEF HeldRowsWritten, Holds
  <1>2. CASE Stored(i)
    <2>1. row'[i] = r
      BY <1>2 DEF SetRow, TypeOK
    <2> QED
      BY <1>1, <2>1 DEF Open, Pending, Stored, Finished
  <1>3. CASE ~Stored(i)
    <2>1. row' = row
      BY <1>3 DEF SetRow
    <2> QED
      BY <1>1, <1>3, <2>1 DEF Open, Pending, Stored
  <1> QED
    BY <1>2, <1>3

\* Every step either leaves those on their last attempt as TriersStay says,
\* or is a claim of the row.
LEMMA TrierSteps ==
    ASSUME TypeOK, WorkerShape, HeldRowsWritten, SentInv, [Next]_vars, NEW i \in Ids
    PROVE  TriersStay(i) \/ \E w \in Workers : Claim(w) /\ i \in batch'[w]
  <1> DEFINE Goal == TriersStay(i)
  <1>0. faults \in Nat /\ i # NoItem
    BY IdsAssumption DEF TypeOK
  <1>1. ASSUME UNCHANGED <<batch, item, tries>>, faults <= faults'
        PROVE  Goal
    <2>1. \A v \in Workers : Holds(v, i) => Holds(v, i)' /\ tries'[v][i] = tries[v][i]
      BY <1>1 DEF Holds
    <2>2. LastTriers(i) \cap Workers \subseteq LastTriers(i)'
      BY <2>1, TriersKept
    <2> QED
      BY <1>1, <2>2 DEF TriersStay, LastTriers
  <1>2. ASSUME WriterStep \/ Tick \/ UNCHANGED vars
        PROVE  Goal
    <2>1. UNCHANGED <<batch, item, tries, faults>>
      BY <1>2 DEF WriterStep, Enqueue, Supersede, DetachAlert, Tick, vars, workerVars
    <2> QED
      BY <1>0, <1>1, <2>1
  <1>3. ASSUME NEW w \in Workers, BeginPass(w) \/ PassFails(w) \/ SendOK(w) \/ SendFails(w) \/ Purge(w)
        PROVE  Goal
    BY <1>0, <1>1, <1>3 DEF BeginPass, PassFails, SendOK, SendFails, Purge, Fault
  <1>4. ASSUME NEW w \in Workers, NEW j \in Ids, StartDelivery(w, j)
        PROVE  Goal
    <2>1. item[w] = NoItem /\ j \in batch[w]
      BY <1>4 DEF StartDelivery, WorkerShape
    <2>2. UNCHANGED <<tries, faults>> /\ \A v \in Workers \ {w} : batch'[v] = batch[v] /\ item'[v] = item[v]
      BY <1>4 DEF StartDelivery, TypeOK
    <2>3. batch'[w] = batch[w] \ {j} /\ item'[w] = j
      BY <1>4 DEF StartDelivery, TypeOK
    <2>4. \A v \in Workers : Holds(v, i) => Holds(v, i)' /\ tries'[v][i] = tries[v][i]
      BY <1>0, <2>1, <2>2, <2>3 DEF Holds
    <2>5. LastTriers(i) \cap Workers \subseteq LastTriers(i)'
      BY <2>4, TriersKept
    <2> QED
      BY <1>0, <2>2, <2>5 DEF TriersStay, LastTriers
  <1>5. \A w \in Workers : pc[w] \in {"send", "sent", "failed", "broken"} => item[w] \in Ids
    BY DEF SentInv
  <1>6. ASSUME NEW w \in Workers, OutcomeLost(w)
        PROVE  Goal
    <2>1. NextItem(w) /\ item[w] \in Ids /\ faults' = faults + 1
      BY <1>5, <1>6 DEF OutcomeLost, Fault
    <2> QED
      BY <1>0, <2>1, NextItemTriers
  <1>7. ASSUME NEW w \in Workers, Crash(w)
        PROVE  Goal
    <2>1. /\ \A v \in Workers \ {w} : batch'[v] = batch[v] /\ item'[v] = item[v] /\ tries'[v] = tries[v]
          /\ faults' = faults + 1
      BY <1>7 DEF Crash, Fault, TypeOK
    <2>2. \A v \in Workers \ {w} : Holds(v, i) => Holds(v, i)' /\ tries'[v][i] = tries[v][i]
      BY <2>1 DEF Holds
    <2>3. LastTriers(i) \cap (Workers \ {w}) \subseteq LastTriers(i)'
      BY <2>2, TriersKept
    <2>4. LastTriers(i) \ {w} \subseteq LastTriers(i)'
      BY <2>3 DEF LastTriers
    <2> QED
      BY <2>1, <2>4 DEF TriersStay
  <1>8. ASSUME NEW w \in Workers, MarkSent(w)
        PROVE  Goal
    <2> DEFINE C == (row[item[w]].cols \ {"body_sealed", "last_error"}) \cup {"sent_at"}
               r == [row[item[w]] EXCEPT !.cols = C]
    <2>1. SetRow(item[w], r) /\ NextItem(w) /\ item[w] \in Ids /\ faults' = faults
      BY <1>5, <1>8 DEF MarkSent
    <2>2. r.cols = C /\ r.stage = row[item[w]].stage
      BY <2>1, UpdateFields DEF TypeOK
    <2>3. "sent_at" \in r.cols
      BY <2>2
    <2> HIDE DEF r
    <2>4. i = item[w] => ~Open(i)'
      BY <2>1, <2>2, <2>3, MarkCloses
    <2> QED
      BY <1>0, <2>1, <2>4, NextItemTriers
  <1>9. ASSUME NEW w \in Workers, MarkFailed(w)
        PROVE  Goal
    <2> DEFINE r == Closed(row[item[w]])
    <2>1. SetRow(item[w], r) /\ NextItem(w) /\ item[w] \in Ids /\ faults' = faults
      BY <1>5, <1>9 DEF MarkFailed
    <2>2. "failed_at" \in r.cols /\ r.stage = row[item[w]].stage
      BY <2>1, UpdateFields DEF TypeOK
    <2> HIDE DEF r
    <2>3. i = item[w] => ~Open(i)'
      BY <2>1, <2>2, MarkCloses
    <2> QED
      BY <1>0, <2>1, <2>3, NextItemTriers
  <1>10. ASSUME NEW w \in Workers, MarkRetry(w)
         PROVE  Goal
    <2>1. NextItem(w) /\ item[w] \in Ids /\ faults' = faults /\ tries[w][item[w]] < MaxAttempts
      BY <1>5, <1>10 DEF MarkRetry, MayRetry
    <2> QED
      BY <1>0, <2>1, NextItemTriers
  <1>11. ASSUME NEW w \in Workers, Claim(w), i \notin batch'[w]
         PROVE  Goal
    <2>1. PICK S \in SUBSET Due(w) :
              /\ batch' = [batch EXCEPT ![w] = S]
              /\ tries' = [tries EXCEPT ![w] = [j \in Ids |-> IF j \in S THEN row[j].attempts + 1 ELSE 0]]
      BY <1>11 DEF Claim
    <2>2. UNCHANGED <<item, faults>> /\ ~Holds(w, i)
      BY <1>0, <1>11 DEF Claim, WorkerShape, Holds
    <2>3. \A v \in Workers : Holds(v, i) => Holds(v, i)' /\ tries'[v][i] = tries[v][i]
      BY <2>1, <2>2 DEF Holds, TypeOK
    <2>4. LastTriers(i) \cap Workers \subseteq LastTriers(i)'
      BY <2>3, TriersKept
    <2> QED
      BY <1>0, <2>2, <2>4 DEF TriersStay, LastTriers
  <1> QED
    BY <1>2, <1>3, <1>4, <1>6, <1>7, <1>8, <1>9, <1>10, <1>11 DEF Next, WorkerStep, FaultStep

\* A claim counts one attempt and adds its worker to those that have the row.
LEMMA ClaimTriers ==
    ASSUME TypeOK, TypeOK', WorkerShape, IsFiniteSet(Workers), NEW w \in Workers, Claim(w),
           NEW i \in Ids, i \in batch'[w]
    PROVE  /\ Open(i) /\ faults' = faults
           /\ w \notin LastTriers(i)
           /\ row[i].attempts + 1 >= MaxAttempts => LastTriers(i) \cup {w} \subseteq LastTriers(i)'
  <1>1. PICK S \in SUBSET Due(w) :
            /\ batch' = [batch EXCEPT ![w] = S]
            /\ tries' = [tries EXCEPT ![w] = [j \in Ids |-> IF j \in S THEN row[j].attempts + 1 ELSE 0]]
    BY DEF Claim
  <1>2. UNCHANGED <<item, faults>> /\ i \in S /\ batch'[w] = S
    BY <1>1 DEF Claim, TypeOK
  <1>3. ~Holds(w, i)
    BY IdsAssumption DEF Claim, WorkerShape, Holds
  <1>4. Open(i)
    BY <1>2 DEF Due, Served, Open
  <1>5. \A v \in Workers \ {w} : Holds(v, i) => Holds(v, i)' /\ tries'[v][i] = tries[v][i]
    BY <1>1, <1>2 DEF Holds, TypeOK
  <1>6. LastTriers(i) \cap (Workers \ {w}) \subseteq LastTriers(i)'
    BY <1>5, TriersKept
  <1>7. Holds(w, i)' /\ tries'[w][i] = row[i].attempts + 1
    BY <1>1, <1>2 DEF Holds, TypeOK
  <1> QED
    BY <1>2, <1>3, <1>4, <1>6, <1>7 DEF LastTriers

\* What a bound loses on one side it wins on the other.
LEMMA SumTransfers ==
    ASSUME NEW a \in Nat, NEW m \in Nat, NEW f \in Nat, NEW g \in Nat, NEW c \in Nat, NEW d \in Nat,
           a < m + f + c, f + c <= g + d
    PROVE  a < m + g + d
  OBVIOUS

\* Every step keeps the bound.
LEMMA AttemptsNext ==
    ASSUME IsFiniteSet(Workers), TypeOK, WorkerShape, HeldRowsWritten, FreshRows, SentInv,
           AttemptsInv, [Next]_vars
    PROVE  AttemptsInv'
  <1>1. TypeOK'
    BY TypeNext
  <1>2. ASSUME NEW i \in Ids
        PROVE  /\ Open(i)' => row'[i].attempts < MaxAttempts + faults' + Cardinality(LastTriers(i)')
               /\ row'[i].attempts < MaxAttempts + faults' + Cardinality(Workers)
    <2> DEFINE L == LastTriers(i)
               M == LastTriers(i)'
               c == Cardinality(L)
               d == Cardinality(M)
               n == Cardinality(Workers)
    <2>1. L \in SUBSET Workers /\ M \in SUBSET Workers /\ Workers \in SUBSET Workers
      BY DEF LastTriers
    <2>2. /\ c \in Nat /\ d \in Nat /\ n \in Nat
          /\ L \subseteq M => c <= d
          /\ \A w \in L : L \ {w} \subseteq M => c <= d + 1
          /\ \A w \in M : L \subseteq M \ {w} => c + 1 <= d
          /\ \A w \in Workers : L \subseteq Workers \ {w} => c + 1 <= n
      <3>1. c \in Nat /\ d \in Nat /\ n \in Nat
        BY <2>1, ComingCardinality
      <3>2. L \subseteq M => c <= d
        BY <2>1, ComingCardinality
      <3>3. \A w \in M : L \subseteq M \ {w} => c + 1 <= d
        BY <2>1, ComingCardinality
      <3>4. \A w \in Workers : L \subseteq Workers \ {w} => c + 1 <= n
        BY <2>1, ComingCardinality
      <3>5. \A w \in Workers : L \subseteq M \cup {w} => c <= d + 1
        BY <2>1, ComingCardinality
      <3>6. ASSUME NEW w \in L, L \ {w} \subseteq M PROVE c <= d + 1
        <4>1. L \subseteq M \cup {w} /\ w \in Workers
          BY <2>1, <3>6
        <4> QED
          BY <3>5, <4>1
      <3> HIDE DEF c, d, n, L, M
      <3> QED
        BY <3>1, <3>2, <3>3, <3>4, <3>6
    <2>3. /\ row[i].attempts \in Nat /\ row'[i].attempts \in Nat
          /\ faults \in Nat /\ faults' \in Nat /\ MaxAttempts \in Nat
      BY <1>1, BoundsAssumption DEF TypeOK, Row
    <2>4. /\ Open(i) => row[i].attempts < MaxAttempts + faults + c
          /\ row[i].attempts < MaxAttempts + faults + n
      BY DEF AttemptsInv
    <2>5. Open(i)' => Open(i)
      BY OpenSteps
    <2>6. CASE row'[i].attempts = row[i].attempts /\ TriersStay(i)
      <3>1. faults <= faults' /\ (Open(i)' => faults + c <= faults' + d)
        <4>1. CASE L \subseteq M /\ faults <= faults'
          <5> HIDE DEF c, d, L, M
          <5> QED
            BY <2>2, <2>3, <4>1
        <4>2. CASE faults' = faults + 1 /\ \E w \in Workers : L \ {w} \subseteq M
          <5>1. L \subseteq M \/ \E w \in L : L \ {w} \subseteq M
            BY <4>2
          <5> HIDE DEF c, d, L, M
          <5> QED
            BY <2>2, <2>3, <4>2, <5>1
        <4>3. CASE ~Open(i)' /\ faults <= faults'
          BY <4>3
        <4> QED
          BY <2>6, <4>1, <4>2, <4>3 DEF TriersStay
      <3> HIDE DEF c, d, n, L, M
      <3>2. row'[i].attempts < MaxAttempts + faults' + n
        BY <2>2, <2>3, <2>4, <2>6, <3>1
      <3>3. ASSUME Open(i)' PROVE row'[i].attempts < MaxAttempts + faults' + d
        <4>1. /\ row[i].attempts < MaxAttempts + faults + c
              /\ faults + c <= faults' + d
          BY <2>4, <2>5, <3>1, <3>3
        <4>2. c \in Nat /\ d \in Nat
          BY <2>2
        <4>3. row[i].attempts < MaxAttempts + faults' + d
          BY <2>3, <4>1, <4>2, SumTransfers
        <4> QED
          BY <2>6, <4>3
      <3> QED
        BY <3>2, <3>3 DEF d, n, M
    <2>7. ASSUME NEW w \in Workers, Claim(w), i \in batch'[w],
                 row'[i].attempts \in {row[i].attempts, row[i].attempts + 1}
          PROVE  /\ row'[i].attempts < MaxAttempts + faults' + n
                 /\ row'[i].attempts < MaxAttempts + faults' + d
      <3>1. /\ Open(i) /\ faults' = faults /\ w \notin L
            /\ row[i].attempts + 1 >= MaxAttempts => L \cup {w} \subseteq M
        BY <1>1, <2>7, ClaimTriers
      <3>2. c + 1 <= n
        <4>1. L \subseteq Workers \ {w}
          BY <2>1, <3>1
        <4> QED
          BY <2>2, <4>1
      <3>3. row[i].attempts + 1 >= MaxAttempts => c + 1 <= d
        <4>1. row[i].attempts + 1 >= MaxAttempts => w \in M /\ L \subseteq M \ {w}
          BY <3>1
        <4> QED
          BY <2>2, <4>1
      <3> HIDE DEF c, d, n, L, M
      <3> QED
        BY <2>2, <2>3, <2>4, <2>7, <3>1, <3>2, <3>3
    <2>8. \/ row'[i].attempts = row[i].attempts
          \/ row'[i].attempts = row[i].attempts + 1 /\ \E w \in Workers : Claim(w) /\ i \in batch'[w]
      BY AttemptSteps
    <2>9. TriersStay(i) \/ \E w \in Workers : Claim(w) /\ i \in batch'[w]
      BY TrierSteps
    <2> QED
      BY <2>6, <2>7, <2>8, <2>9
  <1>3. \A w \in Workers, i \in Ids : Holds(w, i)' => tries'[w][i] \in Nat
    BY <1>1 DEF TypeOK
  <1> QED
    BY <1>2, <1>3 DEF AttemptsInv

\* A row is tried MaxAttempts times, once more for each fault and once more
\* for each further worker that has it at the limit: Claim reads the attempts
\* from the table, and a worker at the limit closes the row or is cut short
\* by a fault.  Nothing is assumed of the lease.
THEOREM AttemptsBounded ==
    ASSUME IsFiniteSet(Workers), Workers # {}
    PROVE  Spec => []AttemptsPaid
  <1> DEFINE Inv == TypeOK /\ WorkerShape /\ HeldRowsWritten /\ FreshRows /\ SentInv /\ AttemptsInv
  <1>1. Init => Inv
    <2> SUFFICES ASSUME Init PROVE Inv
      OBVIOUS
    <2>1. TypeOK
      BY TypeInit
    <2>2. \A i \in Ids : row[i].attempts = 0
      BY DEF Init
    <2>3. MaxAttempts \in Nat /\ MaxAttempts > 0 /\ faults = 0
      BY BoundsAssumption DEF Init
    <2>4. WorkerShape /\ HeldRowsWritten /\ SentInv /\ FreshRows
      BY <2>2, IdsAssumption DEF Init, WorkerShape, HeldRowsWritten, Holds, SentInv, SentWasDelivered, FreshRows
    <2>5. \A i \in Ids : Cardinality(LastTriers(i)) \in Nat
      <3>1. \A i \in Ids : LastTriers(i) \in SUBSET Workers
        BY DEF LastTriers
      <3> QED
        BY <3>1, ComingCardinality
    <2>6. Cardinality(Workers) \in Nat
      BY FS_CardinalityType
    <2>7. \A w \in Workers, i \in Ids : tries[w][i] \in Nat
      BY <2>1 DEF TypeOK
    <2>8. AttemptsInv
      BY <2>2, <2>3, <2>5, <2>6, <2>7 DEF AttemptsInv
    <2> QED
      BY <2>1, <2>4, <2>8
  <1>2. Inv /\ [Next]_vars => Inv'
    BY TypeNext, ShapeNext, HeldNext, FreshNext, SentNext, AttemptsNext
  <1>3. Inv => AttemptsPaid
    BY DEF AttemptsInv, AttemptsPaid, Open
  <1> QED
    BY <1>1, <1>2, <1>3, PTL DEF Spec

-----------------------------------------------------------------------------
(* Claims and leases                                                       *)

\* A row whose lease has not run out in anybody's hands is with one worker,
\* and not due while it is.
LeaseInv ==
    /\ SharedOnlyWhenOverrun
    /\ \A w \in Workers, i \in Ids : Holds(w, i) /\ i \notin overrun => row[i].wait > 0

\* A worker comes to have a row only by a claim of a row that is due, and
\* the claim hides the row.
LEMMA ClaimsDueRows ==
    ASSUME TypeOK, [Next]_vars, NEW v \in Workers, NEW i \in Ids, Holds(v, i)', ~Holds(v, i)
    PROVE  /\ row[i].wait = 0 /\ row'[i].wait > 0
           /\ \A u \in Workers \ {v} : Holds(u, i)' => Holds(u, i)
  <1> DEFINE Goal == /\ row[i].wait = 0 /\ row'[i].wait > 0
                     /\ \A u \in Workers \ {v} : Holds(u, i)' => Holds(u, i)
  <1>0. i # NoItem
    BY IdsAssumption
  <1>1. ASSUME UNCHANGED <<batch, item>>
        PROVE  Goal
    BY <1>1 DEF Holds
  <1>2. ASSUME WriterStep \/ Tick \/ UNCHANGED vars
        PROVE  Goal
    BY <1>1, <1>2 DEF WriterStep, Enqueue, Supersede, DetachAlert, Tick, vars, workerVars
  <1>3. ASSUME NEW w \in Workers, BeginPass(w) \/ PassFails(w) \/ SendOK(w) \/ SendFails(w) \/ Purge(w)
        PROVE  Goal
    BY <1>1, <1>3 DEF BeginPass, PassFails, SendOK, SendFails, Purge
  <1>4. ASSUME NEW w \in Workers, Claim(w)
        PROVE  Goal
    <2>1. PICK S \in SUBSET Due(w) :
              /\ row' = [j \in Ids |-> IF j \in S THEN Claimed(row[j]) ELSE row[j]]
              /\ batch' = [batch EXCEPT ![w] = S]
      BY <1>4 DEF Claim
    <2>2. item' = item
      BY <1>4 DEF Claim
    <2>3. \A u \in Workers \ {w} : Holds(u, i)' => Holds(u, i)
      BY <2>1, <2>2 DEF Holds, TypeOK
    <2>4. v = w /\ i \in S
      BY <2>1, <2>2, <2>3 DEF Holds, TypeOK
    <2>5. row[i].wait = 0
      BY <2>4 DEF Due
    <2>6. row'[i] = Claimed(row[i]) /\ row[i] \in Row
      BY <2>1, <2>4 DEF TypeOK
    <2>7. row'[i].wait = Lease
      BY <2>6 DEF Claimed, Row
    <2> QED
      BY <2>3, <2>4, <2>5, <2>7, BoundsAssumption
  <1>5. ASSUME NEW w \in Workers, NEW j \in Ids, StartDelivery(w, j)
        PROVE  Goal
    BY <1>5 DEF StartDelivery, Holds, TypeOK
  <1>6. ASSUME NEW w \in Workers, NextItem(w)
        PROVE  Goal
    BY <1>0, <1>6 DEF NextItem, Holds, TypeOK
  <1>7. ASSUME NEW w \in Workers, MarkSent(w) \/ MarkRetry(w) \/ MarkFailed(w) \/ OutcomeLost(w)
        PROVE  Goal
    BY <1>6, <1>7 DEF MarkSent, MarkRetry, MarkFailed, OutcomeLost
  <1>8. ASSUME NEW w \in Workers, Crash(w)
        PROVE  Goal
    BY <1>0, <1>8 DEF Crash, Holds, TypeOK
  <1> QED
    BY <1>2, <1>3, <1>4, <1>5, <1>7, <1>8 DEF Next, WorkerStep, FaultStep

\* A row goes to a second worker only after its lease ran out in the hands of
\* the first, for any lease, batch size and delivery timeout: Claim takes due
\* rows only and hides what it takes in the same statement.
THEOREM ClaimsRespectLeases == LeaseSpec => []SharedOnlyWhenOverrun
  <1> DEFINE Inv == TypeOK /\ LeaseInv
  <1>1. LeaseInit => Inv
    <2> SUFFICES ASSUME LeaseInit PROVE Inv
      OBVIOUS
    <2>1. TypeOK
      BY TypeInit DEF LeaseInit
    <2>2. \A w \in Workers, i \in Ids : ~Holds(w, i)
      BY IdsAssumption DEF LeaseInit, Init, Holds
    <2> QED
      BY <2>1, <2>2 DEF LeaseInv, SharedOnlyWhenOverrun
  <1>2. Inv /\ [LeaseNext]_leaseVars => Inv'
    <2> SUFFICES ASSUME Inv, [LeaseNext]_leaseVars PROVE Inv'
      OBVIOUS
    <2>1. [Next]_vars
      BY DEF LeaseNext, leaseVars
    <2>2. TypeOK /\ TypeOK'
      BY <2>1, TypeNext
    <2>3. ASSUME NEW i \in Ids, i \notin overrun'
          PROVE  /\ \A w \in Workers : Holds(w, i)' => row'[i].wait > 0
                 /\ \A v, w \in Workers : Holds(v, i)' /\ Holds(w, i)' => v = w
      <3>1. i \notin overrun
        BY <2>3 DEF LeaseNext, leaseVars
      <3>2. CASE Held(i)
        <4>1. row[i].wait > 0
          BY <3>1, <3>2 DEF Held, LeaseInv
        <4>2. row'[i].wait > 0
          <5>1. row[i].wait \in Nat /\ row'[i].wait \in Nat
            BY <2>2, BoundsAssumption DEF TypeOK, Row, Waits
          <5>2. CASE LeaseNext
            <6>1. i \notin RunsOut
              BY <2>3, <5>2 DEF LeaseNext
            <6> QED
              BY <3>2, <4>1, <5>1, <6>1 DEF RunsOut
          <5>3. CASE UNCHANGED leaseVars
            BY <4>1, <5>3 DEF leaseVars, vars
          <5> QED
            BY <5>2, <5>3
        <4>3. \A w \in Workers : Holds(w, i)' => Holds(w, i)
          <5>1. row[i].wait # 0
            BY <2>2, <4>1, BoundsAssumption DEF TypeOK, Row, Waits
          <5> QED
            BY <2>1, <2>2, <5>1, ClaimsDueRows
        <4> QED
          BY <3>1, <4>2, <4>3 DEF LeaseInv, SharedOnlyWhenOverrun
      <3>3. CASE ~Held(i)
        <4>1. \A w \in Workers : Holds(w, i)' =>
                  /\ row'[i].wait > 0
                  /\ \A u \in Workers \ {w} : ~Holds(u, i)'
          BY <2>1, <2>2, <3>3, ClaimsDueRows DEF Held
        <4> QED
          BY <4>1
      <3> QED
        BY <3>2, <3>3
    <2> QED
      BY <2>2, <2>3 DEF LeaseInv, SharedOnlyWhenOverrun
  <1>3. Inv => SharedOnlyWhenOverrun
    BY DEF LeaseInv
  <1> QED
    BY <1>1, <1>2, <1>3, PTL DEF LeaseSpec

-----------------------------------------------------------------------------
(* The promise of NotificationDelivery                                     *)

\* The status of a row depends on its stage and on what finished it.
LEMMA StatusStays ==
    ASSUME NEW i \in Ids, row'[i].stage = row[i].stage,
           \A c \in {"sent_at", "failed_at"} : c \in row'[i].cols <=> c \in row[i].cols
    PROVE  Status(i)' = Status(i)
  BY DEF Status, Stored

LEMMA StatusValues ==
    ASSUME TypeOK, NEW i \in Ids
    PROVE  /\ Status(i) = "none" <=> row[i].stage = "unwritten"
           /\ Status(i) = "gone" <=> row[i].stage = "purged"
           /\ Status(i) = "sent" <=> Stored(i) /\ "sent_at" \in row[i].cols
           /\ Status(i) = "pending" <=> Pending(i)
           /\ Status(i) = "failed" <=> Stored(i) /\ "sent_at" \notin row[i].cols /\ "failed_at" \in row[i].cols
           /\ Status(i) \in {"none", "gone", "sent", "pending", "failed"}
  <1>1. row[i].stage \in {"unwritten", "stored", "purged"}
    BY DEF TypeOK, Row
  <1> QED
    BY <1>1 DEF Status, Stored, Pending, Finished

\* Closing rows that are pending is a Fail of the abstract queue.
LEMMA CloseIsFail ==
    ASSUME TypeOK, TypeOK', delivered' = delivered, NEW S \in SUBSET Ids,
           \A i \in S : Pending(i) /\ row'[i] = Closed(row[i]),
           \A i \in Ids \ S : row'[i].stage = row[i].stage /\ Status(i)' = Status(i)
    PROVE  Delivery!Fail(S)
  <1>1. ASSUME NEW i \in S PROVE Status(i) = "pending" /\ Status(i)' = "failed"
    <2>1. Status(i) = "pending" /\ row[i] \in Row
      BY StatusValues DEF TypeOK
    <2>2. row'[i].stage = row[i].stage
          /\ row'[i].cols = (row[i].cols \ {"body_sealed"}) \cup {"failed_at", "last_error"}
      BY <2>1, UpdateFields
    <2>3. row'[i].stage = "stored" /\ "sent_at" \notin row'[i].cols /\ "failed_at" \in row'[i].cols
      BY <2>2 DEF Pending, Stored, Finished
    <2> QED
      BY <2>1, <2>3 DEF Status, Stored
  <1> QED
    BY <1>1 DEF Delivery!Fail

\* Every step of the queue is a step of the abstract queue or changes nothing
\* it speaks of.
LEMMA DeliveryStep ==
    ASSUME TypeOK, HeldRowsWritten, SentInv, [Next]_vars
    PROVE  [Delivery!DNext]_(Delivery!dvars)
  <1> DEFINE st == [i \in Ids |-> Status(i)]
             Goal == [Delivery!DNext]_(Delivery!dvars)
  <1>0. TypeOK'
    BY TypeNext
  <1>1. ASSUME \A i \in Ids : Status(i)' = Status(i), delivered' = delivered
        PROVE  Goal
    BY <1>1 DEF Delivery!dvars
  <1>2. ASSUME row' = row, delivered' = delivered
        PROVE  Goal
    BY <1>1, <1>2 DEF Status, Stored
  <1>3. ASSUME NEW S \in SUBSET Ids, Delivery!Fail(S)
        PROVE  Goal
    BY <1>3 DEF Delivery!DNext
  <1>4. ASSUME NEW i \in Ids, Delivery!Submit(i) \/ Delivery!Arrive(i) \/ Delivery!Sent(i)
        PROVE  Goal
    BY <1>4 DEF Delivery!DNext
  <1>5. \A w \in Workers : pc[w] \in {"send", "sent", "failed", "broken"} =>
                              item[w] \in Ids /\ row[item[w]].stage # "unwritten"
    BY DEF SentInv, HeldRowsWritten, Holds
  <1>6. ASSUME NEW i \in Ids, NEW k \in Kinds, NEW to \in Recipients, Enqueue(i, k, to)
        PROVE  Goal
    <2>1. row[i].stage = "unwritten" /\ row' = [row EXCEPT ![i] = NewRow(k, to)] /\ delivered' = delivered
      BY <1>6 DEF Enqueue
    <2>2. Status(i) = "none"
      BY <2>1, StatusValues
    <2>3. row'[i] = NewRow(k, to) /\ \A j \in Ids \ {i} : row'[j] = row[j]
      BY <2>1 DEF TypeOK
    <2>4. Status(i)' = "pending"
      BY <2>3 DEF Status, Stored, NewRow
    <2>5. \A j \in Ids \ {i} : Status(j)' = Status(j)
      BY <2>3 DEF Status, Stored
    <2>6. Delivery!Submit(i)
      BY <2>1, <2>2, <2>4, <2>5 DEF Delivery!Submit
    <2> QED
      BY <1>4, <2>6
  <1>7. ASSUME NEW k \in AllKinds, NEW to \in Recipients, Supersede(k, to)
        PROVE  Goal
    <2> DEFINE S == {i \in Ids : Pending(i) /\ row[i].kind = k /\ row[i].to = to}
    <2>1. row' = [i \in Ids |-> IF i \in S THEN Closed(row[i]) ELSE row[i]] /\ delivered' = delivered
      BY <1>7 DEF Supersede
    <2>2. \A i \in Ids \ S : row'[i].stage = row[i].stage /\ Status(i)' = Status(i)
      BY <2>1 DEF Status, Stored
    <2>3. \A i \in S : Pending(i) /\ row'[i] = Closed(row[i])
      BY <2>1
    <2>4. S \in SUBSET Ids
      OBVIOUS
    <2> HIDE DEF S
    <2>5. Delivery!Fail(S)
      BY <1>0, <2>1, <2>2, <2>3, <2>4, CloseIsFail
    <2> QED
      BY <1>3, <2>4, <2>5
  <1>8. ASSUME NEW w \in Workers, BeginPass(w)
        PROVE  Goal
    <2> DEFINE S == {i \in Served(w) : Expired(i)}
    <2>1. row' = [i \in Ids |-> IF i \in S THEN Closed(row[i]) ELSE row[i]] /\ delivered' = delivered
      BY <1>8 DEF BeginPass
    <2>2. \A i \in Ids \ S : row'[i].stage = row[i].stage /\ Status(i)' = Status(i)
      BY <2>1 DEF Status, Stored
    <2>3. \A i \in S : Pending(i) /\ row'[i] = Closed(row[i])
      BY <2>1 DEF Served
    <2>4. S \in SUBSET Ids
      BY DEF Served
    <2> HIDE DEF S
    <2>5. Delivery!Fail(S)
      BY <1>0, <2>1, <2>2, <2>3, <2>4, CloseIsFail
    <2> QED
      BY <1>3, <2>4, <2>5
  <1>9. ASSUME NEW i \in Ids, DetachAlert(i)
        PROVE  Goal
    <2>1. row' = [row EXCEPT ![i] = [row[i] EXCEPT !.cols = @ \ {"alert_id"}]] /\ delivered' = delivered
      BY <1>9 DEF DetachAlert
    <2>2. ASSUME NEW j \in Ids PROVE Status(j)' = Status(j)
      <3>1. row'[j] = row[j] \/ row'[j] = [row[j] EXCEPT !.cols = row[j].cols \ {"alert_id"}]
        BY <2>1 DEF TypeOK
      <3> DEFINE C == row[j].cols \ {"alert_id"}
      <3>2. [row[j] EXCEPT !.cols = C].stage = row[j].stage /\ [row[j] EXCEPT !.cols = C].cols = C
        BY UpdateFields DEF TypeOK
      <3> QED
        BY <3>1, <3>2, StatusStays
    <2> QED
      BY <1>1, <2>1, <2>2
  <1>10. ASSUME NEW w \in Workers, Claim(w)
         PROVE  Goal
    <2>1. delivered' = delivered
      BY <1>10 DEF Claim
    <2>2. ASSUME NEW i \in Ids PROVE Status(i)' = Status(i)
      <3>1. row'[i] = row[i] \/ row'[i] = Claimed(row[i])
        BY <1>10 DEF Claim
      <3>2. Claimed(row[i]).stage = row[i].stage /\ Claimed(row[i]).cols = row[i].cols
        BY UpdateFields DEF TypeOK
      <3> QED
        BY <3>1, <3>2, StatusStays
    <2> QED
      BY <1>1, <2>1, <2>2
  <1>11. ASSUME NEW w \in Workers,
                PassFails(w) \/ OutcomeLost(w) \/ Crash(w) \/ \E j \in Ids : StartDelivery(w, j)
         PROVE  Goal
    BY <1>2, <1>11 DEF PassFails, OutcomeLost, Crash, StartDelivery
  <1>12. ASSUME NEW w \in Workers, SendOK(w) \/ SendFails(w)
         PROVE  Goal
    <2>1. row' = row /\ pc[w] = "send"
      BY <1>12 DEF SendOK, SendFails
    <2>2. item[w] \in Ids /\ Status(item[w]) # "none"
      BY <1>5, <2>1, StatusValues
    <2>3. \A i \in Ids : Status(i)' = Status(i)
      BY <2>1 DEF Status, Stored
    <2>4. delivered' = [delivered EXCEPT ![item[w]] = @ + 1] \/ delivered' = [delivered EXCEPT ![item[w]] = @ + 0]
      BY <1>12 DEF SendOK, SendFails
    <2>5. CASE delivered' = [delivered EXCEPT ![item[w]] = @ + 1]
      <3>1. Delivery!Arrive(item[w])
        BY <2>2, <2>3, <2>5 DEF Delivery!Arrive
      <3> QED
        BY <1>4, <2>2, <3>1
    <2>6. CASE delivered' = [delivered EXCEPT ![item[w]] = @ + 0]
      <3>1. delivered' = delivered
        BY <2>2, <2>6 DEF TypeOK
      <3> QED
        BY <1>2, <2>1, <3>1
    <2> QED
      BY <2>4, <2>5, <2>6
  <1>13. ASSUME NEW w \in Workers, MarkSent(w)
         PROVE  Goal
    <2> DEFINE C == (row[item[w]].cols \ {"body_sealed", "last_error"}) \cup {"sent_at"}
               r == [row[item[w]] EXCEPT !.cols = C]
    <2>1. SetRow(item[w], r) /\ delivered' = delivered /\ item[w] \in Ids /\ delivered[item[w]] > 0
      BY <1>5, <1>13 DEF MarkSent, SentInv
    <2>2. r.stage = row[item[w]].stage /\ r.cols = C
      BY <2>1, UpdateFields DEF TypeOK
    <2>3. "sent_at" \in r.cols
      BY <2>2
    <2> HIDE DEF r
    <2>4. CASE ~Stored(item[w])
      BY <1>2, <2>1, <2>4 DEF SetRow
    <2>5. CASE Stored(item[w])
      <3>1. row' = [row EXCEPT ![item[w]] = r]
        BY <2>1, <2>5 DEF SetRow
      <3>2. ASSUME NEW i \in Ids, i # item[w] PROVE Status(i)' = Status(i)
        BY <3>1, <3>2 DEF Status, Stored, TypeOK
      <3>3. ASSUME NEW i \in Ids, i = item[w] PROVE Status(i)' = "sent"
        <4>1. row'[i] = r
          BY <3>1, <3>3 DEF TypeOK
        <4> QED
          BY <2>2, <2>3, <2>5, <3>3, <4>1 DEF Status, Stored
      <3>4. Status(item[w]) \in {"pending", "failed", "sent"}
        BY <2>1, <2>5, StatusValues DEF Stored
      <3>5. CASE Status(item[w]) = "sent"
        <4>1. \A i \in Ids : Status(i)' = Status(i)
          BY <3>2, <3>3, <3>5
        <4> QED
          BY <1>1, <2>1, <4>1
      <3>6. CASE Status(item[w]) \in {"pending", "failed"}
        <4>1. st' = [st EXCEPT ![item[w]] = "sent"]
          BY <3>2, <3>3
        <4>2. Delivery!Sent(item[w])
          BY <2>1, <3>6, <4>1 DEF Delivery!Sent
        <4> QED
          BY <1>4, <2>1, <4>2
      <3> QED
        BY <3>4, <3>5, <3>6
    <2> QED
      BY <2>4, <2>5
  <1>14. ASSUME NEW w \in Workers, MarkRetry(w)
         PROVE  Goal
    <2> DEFINE C == row[item[w]].cols \cup {"last_error"}
               n == Backoff(tries[w][item[w]])
               r == [row[item[w]] EXCEPT !.wait = n, !.cols = C]
    <2>1. SetRow(item[w], r) /\ delivered' = delivered /\ item[w] \in Ids
      BY <1>5, <1>14 DEF MarkRetry
    <2>2. r.stage = row[item[w]].stage /\ r.cols = C
      <3> HIDE DEF n, C
      <3> QED
        BY <2>1, UpdateFields DEF TypeOK
    <2> HIDE DEF r
    <2>3. ASSUME NEW i \in Ids PROVE Status(i)' = Status(i)
      <3>1. row'[i] = row[i] \/ (i = item[w] /\ row'[i] = r)
        BY <2>1, SetRowChange
      <3> QED
        BY <2>2, <3>1, StatusStays
    <2> QED
      BY <1>1, <2>1, <2>3
  <1>15. ASSUME NEW w \in Workers, MarkFailed(w)
         PROVE  Goal
    <2> DEFINE r == Closed(row[item[w]])
    <2>1. SetRow(item[w], r) /\ delivered' = delivered /\ item[w] \in Ids
      BY <1>5, <1>15 DEF MarkFailed
    <2>2. /\ r.stage = row[item[w]].stage
          /\ r.cols = (row[item[w]].cols \ {"body_sealed"}) \cup {"failed_at", "last_error"}
      BY <2>1, UpdateFields DEF TypeOK
    <2>3. CASE Pending(item[w])
      <3>1. row' = [row EXCEPT ![item[w]] = r]
        BY <2>1, <2>3 DEF SetRow, Pending
      <3>2. \A i \in Ids \ {item[w]} : row'[i].stage = row[i].stage /\ Status(i)' = Status(i)
        BY <3>1 DEF Status, Stored, TypeOK
      <3>3. \A i \in {item[w]} : Pending(i) /\ row'[i] = Closed(row[i])
        BY <2>1, <2>3, <3>1 DEF TypeOK
      <3>4. Delivery!Fail({item[w]})
        BY <1>0, <2>1, <3>2, <3>3, CloseIsFail
      <3> QED
        BY <1>3, <2>1, <3>4
    <2>4. CASE ~Pending(item[w])
      <3> HIDE DEF r
      <3>1. ASSUME NEW i \in Ids PROVE Status(i)' = Status(i)
        <4>1. row'[i] = row[i] \/ (i = item[w] /\ Stored(i) /\ row'[i] = r)
          BY <2>1 DEF SetRow, TypeOK
        <4>2. CASE row'[i] = row[i]
          BY <4>2 DEF Status, Stored
        <4>3. CASE i = item[w] /\ Stored(i) /\ row'[i] = r
          BY <2>2, <2>4, <4>3 DEF Status, Stored, Pending, Finished
        <4> QED
          BY <4>1, <4>2, <4>3
      <3> QED
        BY <1>1, <2>1, <3>1
    <2> QED
      BY <2>3, <2>4
  <1>16. ASSUME NEW w \in Workers, Purge(w)
         PROVE  Goal
    <2>1. PICK S \in SUBSET Purgeable(w) :
              row' = [i \in Ids |-> IF i \in S THEN [row[i] EXCEPT !.stage = "purged"] ELSE row[i]]
      BY <1>16 DEF Purge
    <2>2. delivered' = delivered /\ S \in SUBSET Ids
      BY <1>16 DEF Purge, Purgeable
    <2>3. ASSUME NEW i \in S PROVE Status(i) \in {"sent", "failed"} /\ Status(i)' = "gone"
      <3>1. i \in Ids /\ Stored(i) /\ Finished(i)
        BY <2>2 DEF Purgeable
      <3>2. row'[i].stage = "purged"
        BY <2>1, <3>1, UpdateFields DEF TypeOK
      <3>3. Status(i) \in {"sent", "failed"}
        BY <3>1, StatusValues DEF Stored, Finished
      <3> QED
        BY <3>2, <3>3 DEF Status, Stored
    <2>4. ASSUME NEW i \in Ids \ S PROVE Status(i)' = Status(i)
      BY <2>1, <2>4 DEF Status, Stored
    <2>5. Delivery!Forget(S)
      BY <2>2, <2>3, <2>4 DEF Delivery!Forget
    <2> QED
      BY <2>2, <2>5 DEF Delivery!DNext
  <1>17. CASE Tick
    <2>1. delivered' = delivered
      BY <1>17 DEF Tick
    <2>2. ASSUME NEW i \in Ids PROVE Status(i)' = Status(i)
      <3>1. row'[i] = [row[i] EXCEPT !.wait = Sooner(@), !.ttl = Sooner(@)]
        BY <1>17 DEF Tick
      <3>2. row'[i].stage = row[i].stage /\ row'[i].cols = row[i].cols
        BY <3>1, UpdateFields DEF TypeOK
      <3> QED
        BY <3>2, StatusStays
    <2> QED
      BY <1>1, <2>1, <2>2
  <1>18. CASE UNCHANGED vars
    BY <1>2, <1>18 DEF vars
  <1>19. "password_reset" \in AllKinds
    BY DEF AllKinds
  <1> QED
    BY <1>6, <1>7, <1>8, <1>9, <1>10, <1>11, <1>12, <1>13, <1>14, <1>15, <1>16, <1>17, <1>18, <1>19
       DEF Next, WriterStep, WorkerStep, FaultStep

\* The queue implements the safety part of NotificationDelivery: whatever
\* fails, whatever the leases are and however many replicas there are, "sent"
\* is recorded only after a copy arrived and is final, only waiting
\* notifications are given up, and only settled ones are forgotten.
THEOREM PromiseKept == Spec => Delivery!DSafety
  <1> DEFINE Inv == TypeOK /\ HeldRowsWritten /\ SentInv
  <1>1. Init => Inv
    <2> SUFFICES ASSUME Init PROVE Inv
      OBVIOUS
    <2>1. HeldRowsWritten
      BY IdsAssumption DEF Init, HeldRowsWritten, Holds
    <2>2. SentInv
      BY DEF Init, SentInv, SentWasDelivered
    <2> QED
      BY <2>1, <2>2, TypeInit
  <1>2. Inv /\ [Next]_vars => Inv'
    BY TypeNext, HeldNext, SentNext
  <1>3. Init => Delivery!DInit
    BY DEF Init, Delivery!DInit, Status
  <1>4. Inv /\ [Next]_vars => [Delivery!DNext]_(Delivery!dvars)
    BY DeliveryStep
  <1> QED
    BY <1>1, <1>2, <1>3, <1>4, PTL DEF Spec, Delivery!DSafety

=============================================================================
