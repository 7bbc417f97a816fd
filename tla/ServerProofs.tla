---------------------------- MODULE ServerProofs ---------------------------
(***************************************************************************)
(* Proofs about the server's own state: which settings and channels the    *)
(* processes go by, what a rate-limited client may spend, what schema a    *)
(* server stands on, and when it takes a host for offline, for any number  *)
(* of processes, requests and clients, any sizes of bucket and any         *)
(* binaries.                                                               *)
(***************************************************************************)
EXTENDS Settings, RateLimit, Migrations, HostPresence,
        FunctionTheorems, FiniteSetTheorems, SequenceTheorems, WellFoundedInduction, TLAPS

-----------------------------------------------------------------------------
(* The inductive invariant of settings and channels                        *)

Values == {Empty, 1, 2, 3}
Sets == [SetFields -> Values]
ChRows == [on: BOOLEAN, config: Configs \cup {Empty}, secret: Secrets \cup {Empty}, key: {1, 2}, verified: BOOLEAN]
ChCopies == [on: BOOLEAN, config: Configs \cup {Empty}, verified: BOOLEAN, secret: Secrets \cup {Empty}, unreadable: BOOLEAN]
WriteCalls == [pc: {"write"}, given: UNION {[D -> Values] : D \in SUBSET SetFields}]
StoreCalls == [pc: {"store", "tell"}, new: Sets]
SaveCalls == [pc: {"save"}, next: ChCopies, secret: Secrets \cup {Empty, Untouched}]
RememberCalls == [pc: {"remember"}, ch: ChCopies]
TestCalls == [pc: {"test", "mark"}, config: Configs \cup {Empty}, secret: Secrets \cup {Empty}]
Calls == {AtRest} \cup WriteCalls \cup StoreCalls \cup SaveCalls \cup RememberCalls \cup TestCalls

CallsTypeOK ==
    /\ SetTypeOK
    /\ setRow \in Sets /\ setMem \in Sets /\ creq \in [CReqs -> Calls]
    /\ chRow \in ChRows /\ chMem \in ChCopies
    /\ doubt \in {"none", "now", "past"} /\ overlapped \in BOOLEAN

\* Whoever changes something holds the mutex, and nobody else does.
Changing == {"write", "store", "tell", "save", "remember"}
OneChange == \A q \in CReqs : creq[q].pc \in Changing <=> mutex = q

AtWork(pcs) == \E q \in CReqs : creq[q].pc \in pcs

\* The copies are behind the rows only while the change that wrote the row is
\* on its way to them, or after an answer that was lost.
CopiesBehind ==
    doubt # "now" =>
        /\ ~AtWork({"store"}) => setMem = setRow
        /\ ~AtWork({"store", "tell"}) => told = setRow
        /\ ~AtWork({"remember"}) => chMem = Scan(chRow, keyNow) /\ mailer = MailerConfig(chMem)

\* What a request carries is what the row says now, or may be written to it.
CarriedOf(q) ==
    LET c == creq[q] IN
    /\ c.pc \in {"store", "tell"} => c.new = setRow
    /\ c.pc = "remember" => c.ch = Scan(chRow, keyNow)
    /\ c.pc = "write" =>
          /\ \A f \in SetFields : MergedSet(setRow, c.given)[f] \in Allowed(f)
          /\ doubt = "none" => VersionsRule(MergedSet(setRow, c.given))
    /\ c.pc = "save" /\ c.next.on => c.next.config # Empty
    /\ c.pc = "mark" => <<c.config, c.secret>> \in tested
    /\ c.pc \in {"test", "mark"} /\ ~overlapped /\ doubt = "none" =>
          c.config = chRow.config /\ c.secret = chRow.secret

SettingsInv ==
    /\ CallsTypeOK /\ OneChange /\ CopiesBehind
    /\ \A q \in CReqs : CarriedOf(q)
    /\ RowKeepsRules /\ VerifiedWasTested
    /\ chRow.on => chRow.config # Empty

-----------------------------------------------------------------------------
(* The inductive invariant of the rate limiter                             *)

\* What is in the bucket whatever the rate; a key without one is full.
Stored(b) == IF b = NoBucket THEN Burst ELSE b.tokens

FastestRate == CHOOSE m \in RateChoices : \A r \in RateChoices : r <= m

InFlight(k) == {a \in Attempts : flight[a] = k}

\* The clock never goes back, and a limiter that is off has no buckets.
BucketsInTime ==
    /\ lastSweep <= now
    /\ \A k \in Keys : bucket[k] # NoBucket => bucket[k].last <= now /\ rate # 0
    /\ ~retuned => rate # 0

\* Attempts under way while less than a price is stored have been overtaken by
\* a payment, and may still be free.
FreeToCome ==
    \A k \in Keys :
        unpaid[k] + (IF Stored(bucket[k]) < Unit THEN Cardinality(InFlight(k)) ELSE 0)
            <= (Cardinality(Attempts) - 1) * paid[k]

\* What was paid and what is stored came in by the time of the last look.
PaysFor(k, n) ==
    IF bucket[k] = NoBucket THEN n * Unit <= now * FastestRate
    ELSE n * Unit + bucket[k].tokens <= Burst + bucket[k].last * FastestRate
PaidFor == \A k \in Keys : PaysFor(k, paid[k])

LimitInv == LimitTypeOK /\ BucketsInTime /\ SweepInvisible /\ FreeToCome /\ PaidFor

-----------------------------------------------------------------------------
(* The inductive invariant of migrations                                   *)

HeldPcs == {"locked", "ensure", "next", "ran", "mark", "ok", "refused"}
Commands ==
    [pc: HeldPcs \cup {"wait"}, op: {"up", "require", "status", "baseline"}, bin: Binaries, upto: Nat, todo: Seq(Nat)]
Histories == UNION {[D -> Checksums] : D \in SUBSET Versions}

RunnersTypeOK ==
    /\ MigTypeOK
    /\ dbSchema \in Seq([v: Nat, c: Checksums])
    /\ dbHistory \in Histories \cup {NoTable}
    /\ runner \in [Runners -> Commands \cup {NoCommand}]

\* A command that is past the lock is the one that holds it.
OneAtATime == \A r \in Runners : runner[r].pc \in HeldPcs <=> advisory = r

HasScript(v) == \E i \in DOMAIN dbSchema : dbSchema[i].v = v

\* A script that is in the schema without a row was there from the start, and
\* so was everything below it; without any row, so was the first.
RowsOrByHand ==
    /\ \A i \in DOMAIN dbSchema :
          \/ dbSchema[i].v \in DOMAIN HistoryRows
          \/ \A b \in Binaries : \A v \in DOMAIN b : v < dbSchema[i].v => HasScript(v)
    /\ HistoryRows = <<>> => dbSchema = <<>> \/ HasScript(1)

\* What was planned under the lock is still right.
PlanStands(c) ==
    /\ c.pc \in {"next", "ran"} \/ (c.pc = "ensure" /\ c.op # "baseline") =>
          /\ c.op = "up" /\ c.todo # <<>> /\ PlanAccepts(c.bin)
          /\ ToSet(c.todo) = Pending(c.bin)
          /\ \A i, j \in DOMAIN c.todo : i < j => c.todo[i] < c.todo[j]
    /\ c.pc = "ran" => ~HasScript(Head(c.todo))
    /\ c.pc = "mark" \/ (c.pc = "ensure" /\ c.op = "baseline") =>
          c.op = "baseline" /\ c.upto \in DOMAIN c.bin /\ HistoryRows = <<>>

SchemaInv ==
    /\ RunnersTypeOK /\ OneAtATime /\ ScriptsInOrder /\ HistoryTrue /\ RowsOrByHand /\ ReadyOnOwnSchema
    /\ \A r \in Runners : PlanStands(runner[r])

-----------------------------------------------------------------------------
(* Settings and channels                                                   *)

LEMMA CallKinds ==
    ASSUME NEW c \in Calls
    PROVE  /\ c.pc \in {"rest", "write", "store", "tell", "save", "remember", "test", "mark"}
           /\ c.pc = "write" => c \in WriteCalls
           /\ c.pc \in {"store", "tell"} => c \in StoreCalls
           /\ c.pc = "save" => c \in SaveCalls
           /\ c.pc = "remember" => c \in RememberCalls
           /\ c.pc \in {"test", "mark"} => c \in TestCalls
  <1>1. CASE c = AtRest
    BY <1>1 DEF AtRest
  <1>2. CASE c \in WriteCalls
    BY <1>2 DEF WriteCalls
  <1>3. CASE c \in StoreCalls
    BY <1>3 DEF StoreCalls
  <1>4. CASE c \in SaveCalls
    BY <1>4 DEF SaveCalls
  <1>5. CASE c \in RememberCalls
    BY <1>5 DEF RememberCalls
  <1>6. CASE c \in TestCalls
    BY <1>6 DEF TestCalls
  <1> QED
    BY <1>1, <1>2, <1>3, <1>4, <1>5, <1>6 DEF Calls

LEMMA RestIsCall == AtRest \in Calls /\ AtRest.pc = "rest"
  BY DEF Calls, AtRest

LEMMA ScanType ==
    ASSUME NEW row \in ChRows, NEW key \in {1, 2}
    PROVE  /\ Scan(row, key) \in ChCopies
           /\ Scan(row, key).config = row.config
           /\ ~Scan(row, key).unreadable => Scan(row, key).secret = row.secret
  <1> DEFINE u == row.secret # Empty /\ row.key # key
             s == IF row.secret = Empty \/ row.key # key THEN Empty ELSE row.secret
  <1>1. u \in BOOLEAN /\ s \in Secrets \cup {Empty} /\ (~u => s = row.secret)
    BY DEF ChRows
  <1>2. Scan(row, key) = [on |-> row.on, config |-> row.config, verified |-> row.verified, secret |-> s, unreadable |-> u]
    BY DEF Scan
  <1> HIDE DEF u, s
  <1>3. row.on \in BOOLEAN /\ row.verified \in BOOLEAN /\ row.config \in Configs \cup {Empty}
    BY DEF ChRows
  <1>4. Scan(row, key) \in ChCopies
    BY <1>1, <1>2, <1>3 DEF ChCopies
  <1> QED
    BY <1>1, <1>2, <1>4

\* That a channel was verified changes nothing for the mailer.
LEMMA VerifiedRow ==
    ASSUME NEW row \in ChRows, NEW key \in {1, 2}
    PROVE  LET new == [row EXCEPT !.verified = TRUE]
           IN  /\ new \in ChRows /\ new.on = row.on /\ new.config = row.config /\ new.secret = row.secret
               /\ MailerConfig(Scan(new, key)) = MailerConfig(Scan(row, key))
  <1> DEFINE new == [row EXCEPT !.verified = TRUE]
  <1>1. /\ new \in ChRows
        /\ new.on = row.on /\ new.config = row.config /\ new.secret = row.secret /\ new.key = row.key
    BY DEF ChRows
  <1> HIDE DEF new
  <1> DEFINE u == row.secret # Empty /\ row.key # key
             s == IF row.secret = Empty \/ row.key # key THEN Empty ELSE row.secret
  <1>2. Scan(row, key) = [on |-> row.on, config |-> row.config, verified |-> row.verified, secret |-> s, unreadable |-> u]
    BY DEF Scan
  <1>3. Scan(new, key) = [on |-> row.on, config |-> row.config, verified |-> new.verified, secret |-> s, unreadable |-> u]
    BY <1>1 DEF Scan
  <1> HIDE DEF u, s
  <1>4. MailerConfig(Scan(new, key)) = MailerConfig(Scan(row, key))
    BY <1>2, <1>3 DEF MailerConfig
  <1> QED
    BY <1>1, <1>4 DEF new

\* A step of the request that holds the mutex, or takes it.
LEMMA HolderStep ==
    ASSUME creq \in [CReqs -> Calls], OneChange, NEW q \in CReqs, NEW c \in Calls,
           mutex = q \/ (mutex = NoHolder /\ creq[q].pc \notin Changing),
           creq' = [creq EXCEPT ![q] = c],
           mutex' = IF c.pc \in Changing THEN q ELSE NoHolder
    PROVE  /\ creq' \in [CReqs -> Calls] /\ creq'[q] = c /\ mutex' \in CReqs \cup {NoHolder}
           /\ \A p \in CReqs \ {q} : creq'[p] = creq[p] /\ creq[p].pc \notin Changing
           /\ OneChange'
           /\ \A pcs \in SUBSET Changing : /\ AtWork(pcs) <=> creq[q].pc \in pcs
                                           /\ (\E p \in CReqs : creq'[p].pc \in pcs) <=> c.pc \in pcs
  <1>1. creq' \in [CReqs -> Calls] /\ creq'[q] = c /\ \A p \in CReqs \ {q} : creq'[p] = creq[p]
    OBVIOUS
  <1>2. \A p \in CReqs \ {q} : creq[p].pc \notin Changing
    BY SettingsAssumption DEF OneChange
  <1>3. OneChange'
    BY <1>1, <1>2, SettingsAssumption DEF OneChange
  <1>4. ASSUME NEW pcs \in SUBSET Changing
        PROVE  /\ AtWork(pcs) <=> creq[q].pc \in pcs
               /\ (\E p \in CReqs : creq'[p].pc \in pcs) <=> c.pc \in pcs
    <2>1. AtWork(pcs) <=> creq[q].pc \in pcs
      BY <1>2 DEF AtWork
    <2>2. (\E p \in CReqs : creq'[p].pc \in pcs) <=> c.pc \in pcs
      BY <1>1, <1>2
    <2> QED
      BY <2>1, <2>2
  <1> QED
    BY <1>1, <1>2, <1>3, <1>4

\* A step of a request that has nothing to do with the mutex.
LEMMA FreeStep ==
    ASSUME creq \in [CReqs -> Calls], OneChange, NEW q \in CReqs, NEW c \in Calls,
           creq[q].pc \notin Changing, c.pc \notin Changing,
           creq' = [creq EXCEPT ![q] = c], UNCHANGED mutex
    PROVE  /\ creq' \in [CReqs -> Calls] /\ creq'[q] = c
           /\ \A p \in CReqs \ {q} : creq'[p] = creq[p]
           /\ OneChange'
           /\ \A pcs \in SUBSET Changing : AtWork(pcs) <=> \E p \in CReqs : creq'[p].pc \in pcs
  <1>1. creq' \in [CReqs -> Calls] /\ creq'[q] = c /\ \A p \in CReqs \ {q} : creq'[p] = creq[p]
    OBVIOUS
  <1>2. OneChange'
    BY <1>1 DEF OneChange
  <1>3. ASSUME NEW pcs \in SUBSET Changing
        PROVE  AtWork(pcs) <=> \E p \in CReqs : creq'[p].pc \in pcs
    BY <1>1 DEF AtWork
  <1> QED
    BY <1>1, <1>2, <1>3

\* What the other requests carry stays true.
LEMMA CarriedKept ==
    ASSUME NEW p \in CReqs, CarriedOf(p), creq'[p] = creq[p],
           doubt' = "none" => doubt = "none", overlapped => overlapped', tested \subseteq tested',
           creq[p].pc \in Changing => UNCHANGED <<setRow, chRow, keyNow>>,
           creq[p].pc \in {"test", "mark"} /\ ~overlapped' /\ doubt' = "none" =>
              chRow'.config = chRow.config /\ chRow'.secret = chRow.secret
    PROVE  (CarriedOf(p))'
  <1>1. CASE creq[p].pc \in Changing
    BY <1>1 DEF CarriedOf, Changing
  <1>2. CASE creq[p].pc \notin Changing
    BY <1>2 DEF CarriedOf, Changing
  <1> QED
    BY <1>1, <1>2

LEMMA SettingsParts ==
    ASSUME SettingsInv
    PROVE  /\ CallsTypeOK /\ OneChange /\ CopiesBehind /\ RowKeepsRules /\ VerifiedWasTested
           /\ chRow.on => chRow.config # Empty
           /\ \A q \in CReqs : CarriedOf(q)
           /\ setRow \in Sets /\ setMem \in Sets /\ creq \in [CReqs -> Calls]
           /\ chRow \in ChRows /\ chMem \in ChCopies /\ keyNow \in {1, 2}
           /\ doubt \in {"none", "now", "past"} /\ overlapped \in BOOLEAN
           /\ edits \in 0..MaxChanges /\ lost \in 0..MaxLost
           /\ MaxChanges \in Nat /\ MaxLost \in Nat
           /\ mutex \in CReqs \cup {NoHolder} /\ NoHolder \notin CReqs
  BY SettingsAssumption DEF SettingsInv, CallsTypeOK, SetTypeOK

\* A step of a change of settings: the channel stands still.
LEMMA ServiceStep ==
    ASSUME SettingsInv, NEW q \in CReqs, NEW c \in Calls,
           mutex = q \/ (mutex = NoHolder /\ creq[q].pc \notin Changing),
           creq[q].pc \notin {"remember"}, c.pc \notin {"remember", "save", "test", "mark"},
           creq' = [creq EXCEPT ![q] = c],
           mutex' = IF c.pc \in Changing THEN q ELSE NoHolder,
           UNCHANGED <<chRow, chMem, mailer, keyNow, lost, doubt, tested, overlapped>>,
           edits' \in 0..MaxChanges,
           setRow' \in Sets, setMem' \in Sets,
           \A f \in SetFields : setRow'[f] \in Allowed(f) /\ setMem'[f] \in Allowed(f),
           RowKeepsRules',
           doubt # "now" => /\ c.pc # "store" => setMem' = setRow'
                            /\ c.pc \notin {"store", "tell"} => told' = setRow',
           c.pc \in {"store", "tell"} => c.new = setRow',
           c.pc = "write" => /\ \A f \in SetFields : MergedSet(setRow', c.given)[f] \in Allowed(f)
                             /\ doubt = "none" => VersionsRule(MergedSet(setRow', c.given))
    PROVE  SettingsInv'
  <1>0. /\ CallsTypeOK /\ OneChange /\ CopiesBehind /\ VerifiedWasTested /\ \A p \in CReqs : CarriedOf(p)
        /\ creq \in [CReqs -> Calls] /\ (chRow.on => chRow.config # Empty)
    BY SettingsParts
  <1>1. /\ creq' \in [CReqs -> Calls] /\ creq'[q] = c /\ mutex' \in CReqs \cup {NoHolder}
        /\ \A p \in CReqs \ {q} : creq'[p] = creq[p] /\ creq[p].pc \notin Changing
        /\ OneChange'
        /\ \A pcs \in SUBSET Changing : /\ AtWork(pcs) <=> creq[q].pc \in pcs
                                        /\ (\E p \in CReqs : creq'[p].pc \in pcs) <=> c.pc \in pcs
    BY <1>0, HolderStep
  <1>2. CallsTypeOK'
    BY <1>0, <1>1 DEF CallsTypeOK, SetTypeOK
  <1>3. CopiesBehind'
    <2>1. {"store"} \in SUBSET Changing /\ {"store", "tell"} \in SUBSET Changing /\ {"remember"} \in SUBSET Changing
      BY DEF Changing
    <2>2. /\ AtWork({"store"})' <=> c.pc \in {"store"}
          /\ AtWork({"store", "tell"})' <=> c.pc \in {"store", "tell"}
          /\ ~AtWork({"remember"})
      BY <1>1, <2>1 DEF AtWork
    <2> QED
      BY <1>0, <2>2 DEF CopiesBehind
  <1>4. ASSUME NEW p \in CReqs PROVE (CarriedOf(p))'
    <2>1. CASE p = q
      BY <1>1, <2>1 DEF CarriedOf
    <2>2. CASE p # q
      BY <1>0, <1>1, <2>2, CarriedKept
    <2> QED
      BY <2>1, <2>2
  <1>5. VerifiedWasTested'
    BY <1>0 DEF VerifiedWasTested
  <1> QED
    BY <1>0, <1>1, <1>2, <1>3, <1>4, <1>5 DEF SettingsInv

LEMMA ApplyInv ==
    ASSUME SettingsInv, NEW q \in CReqs, NEW D \in SUBSET SetFields, NEW given \in [D -> Values],
           \A f \in D : given[f] \in Allowed(f), Apply(q, given)
    PROVE  SettingsInv'
  <1> DEFINE E == {f \in D : given[f] # setMem[f]}
             g == [f \in E |-> given[f]]
             c == [pc |-> "write", given |-> g]
  <1>0. /\ CallsTypeOK /\ OneChange /\ CopiesBehind /\ RowKeepsRules /\ creq \in [CReqs -> Calls]
        /\ setRow \in Sets /\ setMem \in Sets /\ edits \in 0..MaxChanges /\ MaxChanges \in Nat
        /\ \A f \in SetFields : setRow[f] \in Allowed(f) /\ setMem[f] \in Allowed(f)
    BY SettingsParts DEF CallsTypeOK, SetTypeOK
  <1>1. /\ creq[q] = AtRest /\ mutex = NoHolder /\ creq' = [creq EXCEPT ![q] = c] /\ mutex' = q
        /\ edits' \in 0..MaxChanges /\ ValidateAll(MergedSet(setMem, given))
        /\ UNCHANGED <<setRow, setMem, told, chRow, chMem, mailer, keyNow, lost, doubt, tested, overlapped>>
    BY <1>0 DEF Apply, Begin
  <1>2. /\ g \in [E -> Values] /\ DOMAIN g = E /\ E \in SUBSET SetFields
        /\ \A f \in E : g[f] \in Allowed(f) /\ g[f] = given[f]
    OBVIOUS
  <1>3. DOMAIN given = D /\ E \subseteq D /\ \A f \in D \ E : given[f] = setMem[f]
    OBVIOUS
  <1> HIDE DEF g, E
  <1>4. c \in Calls /\ c.pc = "write" /\ c.given = g
    BY <1>2 DEF Calls, WriteCalls
  <1> HIDE DEF c
  <1>5. ASSUME NEW f \in SetFields PROVE MergedSet(setRow, g)[f] \in Allowed(f)
    BY <1>0, <1>2 DEF MergedSet
  <1>6. ~AtWork({"store"}) /\ ~AtWork({"store", "tell"})
    BY <1>0, <1>1, SettingsParts DEF OneChange, AtWork, Changing
  <1>7. ASSUME doubt = "none" PROVE VersionsRule(MergedSet(setRow, g))
    <2>1. setMem = setRow
      BY <1>0, <1>6, <1>7 DEF CopiesBehind
    <2>2. ASSUME NEW f \in SetFields
          PROVE  (IF f \in DOMAIN g THEN g[f] ELSE setRow[f]) = (IF f \in DOMAIN given THEN given[f] ELSE setMem[f])
      BY <1>2, <1>3, <2>1
    <2>3. MergedSet(setRow, g) = MergedSet(setMem, given)
      BY <2>2 DEF MergedSet
    <2> QED
      BY <1>1, <2>3 DEF ValidateAll
  <1>8. creq[q].pc \notin Changing /\ creq[q].pc # "remember" /\ "write" \in Changing
    BY <1>1, RestIsCall DEF Changing
  <1>9. doubt # "now" => setMem = setRow /\ told = setRow
    BY <1>0, <1>6 DEF CopiesBehind
  <1>10. RowKeepsRules'
    BY <1>0, <1>1 DEF RowKeepsRules
  <1>11. mutex' = IF c.pc \in Changing THEN q ELSE NoHolder
    BY <1>1, <1>4, <1>8
  <1> QED
    BY <1>0, <1>1, <1>4, <1>5, <1>7, <1>8, <1>9, <1>10, <1>11, ServiceStep

LEMMA ServiceInv ==
    ASSUME SettingsInv, NEW q \in CReqs, WriteRow(q) \/ Store(q) \/ Tell(q)
    PROVE  SettingsInv'
  <1>0. /\ CallsTypeOK /\ OneChange /\ CopiesBehind /\ RowKeepsRules /\ creq \in [CReqs -> Calls] /\ creq[q] \in Calls
        /\ setRow \in Sets /\ setMem \in Sets /\ edits \in 0..MaxChanges
        /\ \A f \in SetFields : setRow[f] \in Allowed(f) /\ setMem[f] \in Allowed(f)
        /\ CarriedOf(q) /\ doubt \in {"none", "now", "past"}
    BY SettingsParts DEF CallsTypeOK, SetTypeOK
  <1>1. "write" \in Changing /\ "store" \in Changing /\ "tell" \in Changing /\ "rest" \notin Changing
    BY DEF Changing
  <1>2. /\ mutex = q => creq[q].pc \in Changing
        /\ creq[q].pc \in Changing => mutex = q
        /\ \A pcs \in SUBSET Changing : mutex = q => (AtWork(pcs) <=> creq[q].pc \in pcs)
    BY <1>0, SettingsParts DEF OneChange, AtWork
  <1>3. CASE WriteRow(q)
    <2> DEFINE m == MergedSet(setRow, creq[q].given)
    <2>1. /\ creq[q].pc = "write" /\ mutex = q /\ creq[q] \in WriteCalls
          /\ UNCHANGED <<setMem, told, chRow, chMem, mailer, keyNow, edits, lost, doubt, tested, overlapped>>
      BY <1>0, <1>1, <1>2, <1>3, CallKinds DEF WriteRow
    <2>2. ~AtWork({"store"}) /\ ~AtWork({"store", "tell"})
      BY <1>2, <2>1 DEF Changing
    <2>3. m \in Sets
      <3>1. PICK D \in SUBSET SetFields : creq[q].given \in [D -> Values]
        BY <2>1 DEF WriteCalls
      <3> QED
        BY <1>0, <3>1 DEF MergedSet, Sets
    <2>4. /\ \A f \in SetFields : m[f] \in Allowed(f)
          /\ doubt = "none" => VersionsRule(m)
      BY <1>0, <2>1 DEF CarriedOf
    <2>5. CASE TimesRule(m)
      <3> DEFINE c == [pc |-> "store", new |-> m]
      <3>1. setRow' = m /\ creq' = [creq EXCEPT ![q] = c] /\ mutex' = q
        BY <1>3, <2>1, <2>5 DEF WriteRow
      <3>2. c \in Calls /\ c.pc = "store" /\ c.new = m
        BY <2>3 DEF Calls, StoreCalls
      <3>3. RowKeepsRules'
        BY <2>1, <2>4, <2>5, <3>1 DEF RowKeepsRules
      <3> HIDE DEF c, m
      <3> QED
        BY <1>0, <1>1, <2>1, <2>3, <2>4, <3>1, <3>2, <3>3, ServiceStep
    <2>6. CASE ~TimesRule(m)
      <3>1. UNCHANGED setRow /\ creq' = [creq EXCEPT ![q] = AtRest] /\ mutex' = NoHolder
        BY <1>3, <2>1, <2>6 DEF WriteRow
      <3>2. RowKeepsRules'
        BY <1>0, <2>1, <3>1 DEF RowKeepsRules
      <3>3. doubt # "now" => setMem' = setRow' /\ told' = setRow'
        BY <1>0, <2>1, <2>2, <3>1 DEF CopiesBehind
      <3> QED
        BY <1>0, <1>1, <2>1, <3>1, <3>2, <3>3, RestIsCall, ServiceStep
    <2> QED
      BY <2>5, <2>6
  <1>4. CASE Store(q)
    <2> DEFINE c == [creq[q] EXCEPT !.pc = "tell"]
    <2>1. /\ creq[q].pc = "store" /\ mutex = q /\ creq[q] \in StoreCalls
          /\ setMem' = creq[q].new /\ creq' = [creq EXCEPT ![q] = c]
          /\ UNCHANGED <<setRow, told, chRow, chMem, mailer, keyNow, mutex, edits, lost, doubt, tested, overlapped>>
      BY <1>0, <1>1, <1>2, <1>4, CallKinds DEF Store
    <2>2. creq[q].new = setRow
      BY <1>0, <2>1 DEF CarriedOf
    <2>3. c \in Calls /\ c.pc = "tell" /\ c.new = setRow
      BY <2>1, <2>2 DEF Calls, StoreCalls
    <2> HIDE DEF c
    <2>4. RowKeepsRules'
      BY <1>0, <2>1 DEF RowKeepsRules
    <2> QED
      BY <1>0, <1>1, <2>1, <2>2, <2>3, <2>4, ServiceStep
  <1>5. CASE Tell(q)
    <2>1. /\ creq[q].pc = "tell" /\ mutex = q /\ told' = creq[q].new /\ mutex' = NoHolder
          /\ creq' = [creq EXCEPT ![q] = AtRest]
          /\ UNCHANGED <<setRow, setMem, chRow, chMem, mailer, keyNow, edits, lost, doubt, tested, overlapped>>
      BY <1>0, <1>1, <1>2, <1>5 DEF Tell
    <2>2. creq[q].new = setRow
      BY <1>0, <2>1 DEF CarriedOf
    <2>3. ~AtWork({"store"})
      BY <1>2, <2>1 DEF Changing
    <2>4. doubt # "now" => setMem' = setRow' /\ told' = setRow'
      BY <1>0, <2>1, <2>2, <2>3 DEF CopiesBehind
    <2>5. RowKeepsRules'
      BY <1>0, <2>1 DEF RowKeepsRules
    <2> QED
      BY <1>0, <1>1, <2>1, <2>4, <2>5, RestIsCall, ServiceStep
  <1> QED
    BY <1>3, <1>4, <1>5

\* A step of a change of the channel: the settings stand still.
LEMMA ChannelStep ==
    ASSUME SettingsInv, NEW q \in CReqs, NEW c \in Calls,
           mutex = q \/ (mutex = NoHolder /\ creq[q].pc \notin Changing),
           creq[q].pc \notin {"write", "store", "tell"}, c.pc \notin {"write", "store", "tell", "test", "mark"},
           creq' = [creq EXCEPT ![q] = c],
           mutex' = IF c.pc \in Changing THEN q ELSE NoHolder,
           UNCHANGED <<setRow, setMem, told, keyNow, lost, doubt, tested>>,
           edits' \in 0..MaxChanges, overlapped' \in BOOLEAN, overlapped => overlapped',
           chRow' \in ChRows, chMem' \in ChCopies,
           chRow'.on => chRow'.config # Empty,
           VerifiedWasTested',
           \A p \in CReqs : creq[p].pc \in {"test", "mark"} /\ ~overlapped' =>
              chRow'.config = chRow.config /\ chRow'.secret = chRow.secret,
           doubt # "now" /\ c.pc # "remember" => chMem' = Scan(chRow', keyNow) /\ mailer' = MailerConfig(chMem'),
           c.pc = "remember" => c.ch = Scan(chRow', keyNow),
           c.pc = "save" /\ c.next.on => c.next.config # Empty
    PROVE  SettingsInv'
  <1>0. /\ CallsTypeOK /\ OneChange /\ CopiesBehind /\ RowKeepsRules /\ \A p \in CReqs : CarriedOf(p)
        /\ creq \in [CReqs -> Calls]
    BY SettingsParts
  <1>1. /\ creq' \in [CReqs -> Calls] /\ creq'[q] = c /\ mutex' \in CReqs \cup {NoHolder}
        /\ \A p \in CReqs \ {q} : creq'[p] = creq[p] /\ creq[p].pc \notin Changing
        /\ OneChange'
        /\ \A pcs \in SUBSET Changing : /\ AtWork(pcs) <=> creq[q].pc \in pcs
                                        /\ (\E p \in CReqs : creq'[p].pc \in pcs) <=> c.pc \in pcs
    BY <1>0, HolderStep
  <1>2. CallsTypeOK'
    BY <1>0, <1>1 DEF CallsTypeOK, SetTypeOK
  <1>3. CopiesBehind'
    <2>1. {"store"} \in SUBSET Changing /\ {"store", "tell"} \in SUBSET Changing /\ {"remember"} \in SUBSET Changing
      BY DEF Changing
    <2>2. /\ AtWork({"remember"})' <=> c.pc \in {"remember"}
          /\ ~AtWork({"store"}) /\ ~AtWork({"store", "tell"})
      BY <1>1, <2>1 DEF AtWork
    <2> QED
      BY <1>0, <2>2 DEF CopiesBehind
  <1>4. ASSUME NEW p \in CReqs PROVE (CarriedOf(p))'
    <2>1. CASE p = q
      BY <1>1, <2>1 DEF CarriedOf
    <2>2. CASE p # q
      <3>1. creq'[p] = creq[p] /\ creq[p].pc \notin Changing /\ CarriedOf(p)
        BY <1>0, <1>1, <2>2
      <3> QED
        BY <3>1, CarriedKept
    <2> QED
      BY <2>1, <2>2
  <1>5. RowKeepsRules'
    BY <1>0 DEF RowKeepsRules
  <1> QED
    BY <1>1, <1>2, <1>3, <1>4, <1>5 DEF SettingsInv

LEMMA UpdateChannelInv ==
    ASSUME SettingsInv, NEW q \in CReqs,
           NEW on \in BOOLEAN \cup {Untouched}, NEW config \in Configs \cup {Empty, Untouched},
           NEW secret \in Secrets \cup {Empty, Untouched}, UpdateChannel(q, on, config, secret)
    PROVE  SettingsInv'
  <1> DEFINE next == Patched(chMem, on, config, secret)
             c == [pc |-> "save", next |-> next, secret |-> secret]
  <1>0. /\ CallsTypeOK /\ OneChange /\ CopiesBehind /\ VerifiedWasTested /\ creq \in [CReqs -> Calls]
        /\ chRow \in ChRows /\ chMem \in ChCopies /\ edits \in 0..MaxChanges /\ MaxChanges \in Nat
        /\ (chRow.on => chRow.config # Empty) /\ overlapped \in BOOLEAN
    BY SettingsParts
  <1>1. /\ creq[q] = AtRest /\ mutex = NoHolder /\ creq' = [creq EXCEPT ![q] = c] /\ mutex' = q
        /\ edits' \in 0..MaxChanges /\ (next.on => ChannelReady(next))
        /\ UNCHANGED <<setRow, setMem, told, chRow, chMem, mailer, keyNow, lost, doubt, tested, overlapped>>
    BY <1>0 DEF UpdateChannel, Begin
  <1>2. next \in ChCopies
    <2> DEFINE o == IF on = Untouched THEN chMem.on ELSE on
               u == IF secret = Untouched THEN chMem.unreadable ELSE FALSE
               k == IF config = Untouched THEN chMem.config ELSE config
               s == IF secret = Untouched THEN chMem.secret ELSE secret
    <2>1. o \in BOOLEAN /\ u \in BOOLEAN
      BY <1>0 DEF ChCopies
    <2>2. k \in Configs \cup {Empty} /\ s \in Secrets \cup {Empty}
      BY <1>0 DEF ChCopies
    <2>3. next = [chMem EXCEPT !.on = o, !.config = k, !.secret = s, !.unreadable = u]
      BY DEF Patched
    <2> HIDE DEF o, u, k, s, next
    <2> QED
      BY <1>0, <2>1, <2>2, <2>3 DEF ChCopies
  <1>3. next.on => next.config # Empty
    BY <1>1 DEF ChannelReady
  <1> HIDE DEF next
  <1>4. c \in Calls /\ c.pc = "save" /\ c.next = next
    BY <1>2 DEF Calls, SaveCalls
  <1> HIDE DEF c
  <1>5. ~AtWork({"remember"})
    BY <1>0, <1>1, SettingsParts DEF OneChange, AtWork, Changing
  <1>6. creq[q].pc = "rest" /\ "save" \in Changing /\ "rest" \notin Changing
    BY <1>1, RestIsCall DEF Changing
  <1>7. doubt # "now" /\ c.pc # "remember" => chMem' = Scan(chRow', keyNow) /\ mailer' = MailerConfig(chMem')
    BY <1>0, <1>1, <1>5 DEF CopiesBehind
  <1>8. VerifiedWasTested'
    BY <1>0, <1>1 DEF VerifiedWasTested
  <1>9. mutex' = IF c.pc \in Changing THEN q ELSE NoHolder
    BY <1>1, <1>4, <1>6
  <1>10. /\ overlapped' \in BOOLEAN /\ (overlapped => overlapped') /\ chRow' = chRow /\ chMem' = chMem
    BY <1>0, <1>1
  <1> QED
    BY <1>0, <1>1, <1>3, <1>4, <1>6, <1>7, <1>8, <1>9, <1>10, ChannelStep

LEMMA SavingInv ==
    ASSUME SettingsInv, NEW q \in CReqs, SaveChannel(q) \/ Remember(q)
    PROVE  SettingsInv'
  <1>0. /\ CallsTypeOK /\ OneChange /\ CopiesBehind /\ VerifiedWasTested /\ creq \in [CReqs -> Calls] /\ creq[q] \in Calls
        /\ chRow \in ChRows /\ chMem \in ChCopies /\ edits \in 0..MaxChanges /\ keyNow \in {1, 2}
        /\ (chRow.on => chRow.config # Empty) /\ overlapped \in BOOLEAN /\ CarriedOf(q)
    BY SettingsParts
  <1>1. "save" \in Changing /\ "remember" \in Changing /\ "rest" \notin Changing
    BY DEF Changing
  <1>2. creq[q].pc \in Changing => mutex = q
    BY <1>0 DEF OneChange
  <1>3. CASE SaveChannel(q)
    <2> DEFINE row == Saved(chRow, creq[q].next, creq[q].secret)
               c == [pc |-> "remember", ch |-> Scan(row, keyNow)]
               others == \E p \in CReqs : creq[p].pc \in {"test", "mark"}
    <2>1. /\ creq[q].pc = "save" /\ mutex = q /\ creq[q] \in SaveCalls
          /\ chRow' = row /\ creq' = [creq EXCEPT ![q] = c]
          /\ overlapped' = (overlapped \/ others)
          /\ UNCHANGED <<setRow, setMem, told, chMem, mailer, keyNow, mutex, edits, lost, doubt, tested>>
      BY <1>0, <1>1, <1>2, <1>3, CallKinds DEF SaveChannel
    <2>2. PICK next \in ChCopies, secret \in Secrets \cup {Empty, Untouched} :
             creq[q].next = next /\ creq[q].secret = secret
      BY <2>1 DEF SaveCalls
    <2>3. row \in ChRows
      <3> DEFINE v == chRow.verified /\ secret = Untouched /\ chRow.config = next.config
                 s == IF secret = Untouched THEN chRow.secret ELSE secret
                 k == IF secret = Untouched THEN chRow.key ELSE keyNow
      <3>1. row = [on |-> next.on, config |-> next.config, secret |-> s, key |-> k, verified |-> v]
        BY <2>2 DEF Saved
      <3>2. v \in BOOLEAN /\ s \in Secrets \cup {Empty} /\ k \in {1, 2}
        BY <1>0 DEF ChRows
      <3>3. next.on \in BOOLEAN /\ next.config \in Configs \cup {Empty}
        BY DEF ChCopies
      <3> HIDE DEF v, s, k, row
      <3> QED
        BY <3>1, <3>2, <3>3 DEF ChRows
    <2>4. /\ row.on => row.config # Empty
          /\ row.verified => chRow.verified /\ row.config = chRow.config /\ row.secret = chRow.secret
      BY <1>0, <2>1, <2>2 DEF Saved, CarriedOf
    <2> HIDE DEF row
    <2>5. c \in Calls /\ c.pc = "remember" /\ c.ch = Scan(row, keyNow)
      BY <1>0, <2>3, ScanType DEF Calls, RememberCalls
    <2> HIDE DEF c
    <2>6. overlapped' \in BOOLEAN /\ (overlapped => overlapped') /\ (~overlapped' => ~others)
      BY <2>1
    <2>7. VerifiedWasTested'
      BY <1>0, <2>1, <2>4, <2>6 DEF VerifiedWasTested
    <2>8. mutex' = IF c.pc \in Changing THEN q ELSE NoHolder
      BY <1>1, <2>1, <2>5
    <2>9. \A p \in CReqs : creq[p].pc \in {"test", "mark"} /\ ~overlapped' =>
             chRow'.config = chRow.config /\ chRow'.secret = chRow.secret
      BY <2>6
    <2> QED
      BY <1>0, <1>1, <2>1, <2>3, <2>4, <2>5, <2>6, <2>7, <2>8, <2>9, ChannelStep
  <1>4. CASE Remember(q)
    <2>1. /\ creq[q].pc = "remember" /\ mutex = q /\ creq[q] \in RememberCalls
          /\ chMem' = creq[q].ch /\ mailer' = MailerConfig(creq[q].ch) /\ mutex' = NoHolder
          /\ creq' = [creq EXCEPT ![q] = AtRest]
          /\ UNCHANGED <<setRow, setMem, told, chRow, keyNow, edits, lost, doubt, tested, overlapped>>
      BY <1>0, <1>1, <1>2, <1>4, CallKinds DEF Remember
    <2>2. creq[q].ch = Scan(chRow, keyNow) /\ creq[q].ch \in ChCopies
      BY <1>0, <2>1 DEF CarriedOf, RememberCalls
    <2>3. VerifiedWasTested'
      BY <1>0, <2>1 DEF VerifiedWasTested
    <2>4. mutex' = IF AtRest.pc \in Changing THEN q ELSE NoHolder
      BY <1>1, <2>1, RestIsCall
    <2> QED
      BY <1>0, <1>1, <2>1, <2>2, <2>3, <2>4, RestIsCall, ChannelStep
  <1> QED
    BY <1>3, <1>4

\* A step of a test: nobody's change is touched.
LEMMA TestStep ==
    ASSUME SettingsInv, NEW q \in CReqs, NEW c \in Calls,
           creq[q].pc \notin Changing, c.pc \notin Changing,
           creq' = [creq EXCEPT ![q] = c],
           UNCHANGED <<setRow, setMem, told, mailer, keyNow, mutex>>,
           lost' \in 0..MaxLost, edits' \in 0..MaxChanges, overlapped' \in BOOLEAN, overlapped => overlapped',
           doubt' \in {"none", "now", "past"}, doubt' = "none" => doubt = "none", doubt' # "now" => doubt # "now",
           tested \subseteq tested',
           chRow' \in ChRows, chMem' \in ChCopies,
           chRow'.on = chRow.on, chRow'.config = chRow.config, chRow'.secret = chRow.secret,
           chRow' # chRow => mutex = NoHolder,
           VerifiedWasTested',
           doubt' # "now" /\ ~AtWork({"remember"}) => chMem' = Scan(chRow', keyNow) /\ mailer = MailerConfig(chMem'),
           c.pc = "mark" => <<c.config, c.secret>> \in tested',
           c.pc \in {"test", "mark"} /\ ~overlapped' /\ doubt' = "none" =>
              c.config = chRow.config /\ c.secret = chRow.secret
    PROVE  SettingsInv'
  <1>0. /\ CallsTypeOK /\ OneChange /\ CopiesBehind /\ RowKeepsRules /\ \A p \in CReqs : CarriedOf(p)
        /\ creq \in [CReqs -> Calls] /\ (chRow.on => chRow.config # Empty) /\ NoHolder \notin CReqs
    BY SettingsParts
  <1>1. /\ creq' \in [CReqs -> Calls] /\ creq'[q] = c
        /\ \A p \in CReqs \ {q} : creq'[p] = creq[p]
        /\ OneChange'
        /\ \A pcs \in SUBSET Changing : AtWork(pcs) <=> \E p \in CReqs : creq'[p].pc \in pcs
    BY <1>0, FreeStep
  <1>2. CallsTypeOK'
    BY <1>0, <1>1 DEF CallsTypeOK, SetTypeOK
  <1>3. CopiesBehind'
    <2>1. {"store"} \in SUBSET Changing /\ {"store", "tell"} \in SUBSET Changing /\ {"remember"} \in SUBSET Changing
      BY DEF Changing
    <2>2. /\ AtWork({"remember"})' <=> AtWork({"remember"})
          /\ AtWork({"store"})' <=> AtWork({"store"})
          /\ AtWork({"store", "tell"})' <=> AtWork({"store", "tell"})
      BY <1>1, <2>1 DEF AtWork
    <2> QED
      BY <1>0, <2>2 DEF CopiesBehind
  <1>4. ASSUME NEW p \in CReqs PROVE (CarriedOf(p))'
    <2>1. CASE p = q
      BY <1>1, <2>1 DEF CarriedOf, Changing
    <2>2. CASE p # q
      <3>1. creq'[p] = creq[p] /\ CarriedOf(p)
        BY <1>0, <1>1, <2>2
      <3>2. creq[p].pc \in Changing => UNCHANGED <<setRow, chRow, keyNow>>
        BY <1>0 DEF OneChange
      <3> QED
        BY <3>1, <3>2, CarriedKept
    <2> QED
      BY <2>1, <2>2
  <1>5. RowKeepsRules'
    BY <1>0 DEF RowKeepsRules
  <1> QED
    BY <1>0, <1>1, <1>2, <1>3, <1>4, <1>5 DEF SettingsInv

LEMMA TestingInv ==
    ASSUME SettingsInv, NEW q \in CReqs, TestChannel(q) \/ TestSent(q) \/ MarkVerified(q)
    PROVE  SettingsInv'
  <1>0. /\ CallsTypeOK /\ OneChange /\ CopiesBehind /\ VerifiedWasTested /\ creq \in [CReqs -> Calls] /\ creq[q] \in Calls
        /\ chRow \in ChRows /\ chMem \in ChCopies /\ keyNow \in {1, 2}
        /\ edits \in 0..MaxChanges /\ MaxChanges \in Nat /\ lost \in 0..MaxLost
        /\ overlapped \in BOOLEAN /\ CarriedOf(q) /\ doubt \in {"none", "now", "past"}
        /\ mutex \in CReqs \cup {NoHolder} /\ NoHolder \notin CReqs
    BY SettingsParts
  <1>1. "test" \notin Changing /\ "mark" \notin Changing /\ "rest" \notin Changing
    BY DEF Changing
  <1>2. doubt # "now" /\ ~AtWork({"remember"}) => chMem = Scan(chRow, keyNow) /\ mailer = MailerConfig(chMem)
    BY <1>0 DEF CopiesBehind
  <1>3. CASE TestChannel(q)
    <2> DEFINE c == [pc |-> "test", config |-> chMem.config, secret |-> chMem.secret]
               others == \E p \in CReqs : creq[p].pc = "remember"
    <2>1. /\ creq[q] = AtRest /\ edits' \in 0..MaxChanges /\ ChannelReady(chMem)
          /\ creq' = [creq EXCEPT ![q] = c]
          /\ overlapped' = (overlapped \/ others)
          /\ UNCHANGED <<setRow, setMem, told, chRow, chMem, mailer, keyNow, mutex, lost, doubt, tested>>
      BY <1>0, <1>3 DEF TestChannel, Begin
    <2>2. c \in Calls /\ c.pc = "test" /\ c.config = chMem.config /\ c.secret = chMem.secret
      BY <1>0 DEF Calls, TestCalls, ChCopies
    <2> HIDE DEF c
    <2>3. overlapped' \in BOOLEAN /\ (overlapped => overlapped') /\ (~overlapped' => ~AtWork({"remember"}))
      BY <2>1 DEF AtWork
    <2>4. ASSUME ~overlapped', doubt = "none" PROVE c.config = chRow.config /\ c.secret = chRow.secret
      <3>1. chMem = Scan(chRow, keyNow) /\ ~chMem.unreadable
        BY <1>2, <2>1, <2>3, <2>4 DEF ChannelReady
      <3> QED
        BY <1>0, <2>2, <3>1, ScanType
    <2>5. VerifiedWasTested'
      BY <1>0, <2>1, <2>3 DEF VerifiedWasTested
    <2>6. creq[q].pc = "rest"
      BY <2>1, RestIsCall
    <2> QED
      BY <1>0, <1>1, <1>2, <2>1, <2>2, <2>3, <2>4, <2>5, <2>6, TestStep
  <1>4. CASE TestSent(q)
    <2> DEFINE c == [creq[q] EXCEPT !.pc = "mark"]
    <2>1. /\ creq[q].pc = "test" /\ creq[q] \in TestCalls
          /\ UNCHANGED <<setRow, setMem, told, chRow, chMem, mailer, keyNow, mutex, edits, lost, doubt, overlapped>>
      BY <1>0, <1>4, CallKinds DEF TestSent
    <2>2. /\ c \in Calls /\ c.pc = "mark" /\ c.config = creq[q].config /\ c.secret = creq[q].secret
      BY <2>1 DEF Calls, TestCalls
    <2> HIDE DEF c
    <2>3. CASE tested' = tested \cup {<<creq[q].config, creq[q].secret>>} /\ creq' = [creq EXCEPT ![q] = c]
      <3>1. VerifiedWasTested'
        BY <1>0, <2>1, <2>3 DEF VerifiedWasTested
      <3>2. ~overlapped' /\ doubt' = "none" => c.config = chRow.config /\ c.secret = chRow.secret
        BY <1>0, <2>1, <2>2 DEF CarriedOf
      <3>3. <<c.config, c.secret>> \in tested' /\ tested \subseteq tested'
        BY <2>2, <2>3
      <3> QED
        BY <1>0, <1>1, <1>2, <2>1, <2>2, <2>3, <3>1, <3>2, <3>3, TestStep
    <2>4. CASE creq' = [creq EXCEPT ![q] = AtRest] /\ UNCHANGED tested
      <3>1. VerifiedWasTested'
        BY <1>0, <2>1, <2>4 DEF VerifiedWasTested
      <3> QED
        BY <1>0, <1>1, <1>2, <2>1, <2>4, <3>1, RestIsCall, TestStep
    <2>5. \/ tested' = tested \cup {<<creq[q].config, creq[q].secret>>} /\ creq' = [creq EXCEPT ![q] = c]
          \/ creq' = [creq EXCEPT ![q] = AtRest] /\ UNCHANGED tested
      BY <1>4 DEF TestSent, c
    <2> QED
      BY <2>3, <2>4, <2>5
  <1>5. CASE MarkVerified(q)
    <2>1. /\ creq[q].pc = "mark" /\ mutex = NoHolder
          /\ chRow' = [chRow EXCEPT !.verified = TRUE] /\ chMem' = Scan(chRow', keyNow)
          /\ creq' = [creq EXCEPT ![q] = AtRest]
          /\ UNCHANGED <<setRow, setMem, told, mailer, keyNow, mutex, edits, lost, doubt, tested, overlapped>>
      BY <1>5 DEF MarkVerified
    <2>2. /\ chRow' \in ChRows /\ chRow'.on = chRow.on /\ chRow'.config = chRow.config /\ chRow'.secret = chRow.secret
          /\ MailerConfig(Scan(chRow', keyNow)) = MailerConfig(Scan(chRow, keyNow))
      BY <1>0, <2>1, VerifiedRow
    <2>3. chMem' \in ChCopies
      BY <1>0, <2>1, <2>2, ScanType
    <2>4. VerifiedWasTested'
      BY <1>0, <2>1, <2>2 DEF VerifiedWasTested, CarriedOf
    <2>5. doubt' # "now" /\ ~AtWork({"remember"}) => chMem' = Scan(chRow', keyNow') /\ mailer = MailerConfig(chMem')
      BY <1>2, <2>1, <2>2
    <2> QED
      BY <1>0, <1>1, <2>1, <2>2, <2>3, <2>4, <2>5, RestIsCall, TestStep
  <1> QED
    BY <1>3, <1>4, <1>5

LEMMA WriteFailsInv ==
    ASSUME SettingsInv, NEW q \in CReqs, WriteFails(q)
    PROVE  SettingsInv'
  <1>0. /\ CallsTypeOK /\ OneChange /\ CopiesBehind /\ VerifiedWasTested /\ RowKeepsRules
        /\ creq \in [CReqs -> Calls] /\ creq[q] \in Calls /\ \A p \in CReqs : CarriedOf(p)
        /\ chRow \in ChRows /\ chMem \in ChCopies /\ keyNow \in {1, 2}
        /\ edits \in 0..MaxChanges /\ lost \in 0..MaxLost /\ MaxLost \in Nat
        /\ overlapped \in BOOLEAN /\ doubt \in {"none", "now", "past"}
        /\ mutex \in CReqs \cup {NoHolder} /\ NoHolder \notin CReqs
        /\ (chRow.on => chRow.config # Empty)
    BY SettingsParts
  <1>1. /\ creq[q].pc \in {"write", "store", "save", "remember", "mark"}
        /\ lost' \in 0..MaxLost /\ (creq[q].pc = "mark" => mutex = NoHolder)
        /\ mutex' = NoHolder /\ creq' = [creq EXCEPT ![q] = AtRest]
        /\ UNCHANGED <<setRow, setMem, told, chMem, mailer, keyNow, edits, tested, overlapped>>
    BY <1>0 DEF WriteFails
  <1>2. CASE creq[q].pc # "mark"
    <2>1. /\ mutex = q /\ UNCHANGED chRow
          /\ doubt' = IF creq[q].pc \in {"store", "remember"} THEN "now" ELSE doubt
      BY <1>0, <1>1, <1>2 DEF WriteFails, OneChange, Changing
    <2>2. "rest" \notin Changing
      BY DEF Changing
    <2>3. /\ creq' \in [CReqs -> Calls] /\ creq'[q] = AtRest
          /\ \A p \in CReqs \ {q} : creq'[p] = creq[p] /\ creq[p].pc \notin Changing
          /\ OneChange'
          /\ \A pcs \in SUBSET Changing : AtWork(pcs) <=> creq[q].pc \in pcs
      <3>1. mutex' = IF AtRest.pc \in Changing THEN q ELSE NoHolder
        BY <1>1, <2>2, RestIsCall
      <3>2. /\ creq' \in [CReqs -> Calls] /\ creq'[q] = AtRest
            /\ \A p \in CReqs \ {q} : creq'[p] = creq[p] /\ creq[p].pc \notin Changing
            /\ OneChange'
            /\ \A pcs \in SUBSET Changing : /\ AtWork(pcs) <=> creq[q].pc \in pcs
                                            /\ (\E p \in CReqs : creq'[p].pc \in pcs) <=> AtRest.pc \in pcs
        BY <1>0, <1>1, <2>1, <3>1, RestIsCall, HolderStep
      <3> QED
        BY <3>2
    <2>4. doubt' # "now" => doubt # "now" /\ creq[q].pc \in {"write", "save"}
      BY <1>1, <1>2, <2>1
    <2>5. CopiesBehind'
      <3>1. {"store"} \in SUBSET Changing /\ {"store", "tell"} \in SUBSET Changing /\ {"remember"} \in SUBSET Changing
        BY DEF Changing
      <3>2. doubt' # "now" => ~AtWork({"store"}) /\ ~AtWork({"store", "tell"}) /\ ~AtWork({"remember"})
        BY <2>3, <2>4, <3>1
      <3> QED
        BY <1>0, <1>1, <2>1, <2>4, <3>2 DEF CopiesBehind
    <2>6. ASSUME NEW p \in CReqs PROVE (CarriedOf(p))'
      <3>1. CASE p = q
        BY <2>3, <3>1, RestIsCall DEF CarriedOf
      <3>2. CASE p # q
        <4>1. creq'[p] = creq[p] /\ CarriedOf(p) /\ (doubt' = "none" => doubt = "none")
          BY <1>0, <2>1, <2>3, <3>2
        <4> QED
          BY <1>1, <2>1, <4>1, CarriedKept
      <3> QED
        BY <3>1, <3>2
    <2>7. CallsTypeOK'
      BY <1>0, <1>1, <2>1, <2>3 DEF CallsTypeOK, SetTypeOK
    <2>8. RowKeepsRules' /\ VerifiedWasTested'
      BY <1>0, <1>1, <2>1 DEF RowKeepsRules, VerifiedWasTested
    <2> QED
      BY <1>0, <2>1, <2>3, <2>5, <2>6, <2>7, <2>8 DEF SettingsInv
  <1>3. CASE creq[q].pc = "mark"
    <2>1. /\ mutex = NoHolder /\ UNCHANGED mutex
          /\ chRow' = chRow \/ chRow' = [chRow EXCEPT !.verified = TRUE]
          /\ doubt' = IF chRow' # chRow THEN "now" ELSE doubt
      BY <1>0, <1>1, <1>3 DEF WriteFails
    <2>2. chRow' \in ChRows /\ chRow'.on = chRow.on /\ chRow'.config = chRow.config /\ chRow'.secret = chRow.secret
      BY <1>0, <2>1, VerifiedRow
    <2>3. VerifiedWasTested'
      BY <1>0, <1>1, <2>1 DEF VerifiedWasTested
    <2>4. creq[q].pc \notin Changing /\ "rest" \notin Changing
      BY <1>3 DEF Changing
    <2>5. doubt' # "now" /\ ~AtWork({"remember"}) => chMem' = Scan(chRow', keyNow') /\ mailer = MailerConfig(chMem')
      BY <1>0, <1>1, <2>1 DEF CopiesBehind
    <2>6. /\ doubt' \in {"none", "now", "past"} /\ (doubt' = "none" => doubt = "none") /\ (doubt' # "now" => doubt # "now")
          /\ UNCHANGED <<setRow, setMem, told, mailer, keyNow, mutex>> /\ overlapped' \in BOOLEAN /\ (overlapped => overlapped')
          /\ tested \subseteq tested' /\ chMem' \in ChCopies /\ edits' \in 0..MaxChanges
      BY <1>0, <1>1, <2>1
    <2> QED
      BY <1>0, <1>1, <2>1, <2>2, <2>3, <2>4, <2>5, <2>6, RestIsCall, TestStep
  <1> QED
    BY <1>2, <1>3

LEMMA RestartInv ==
    ASSUME SettingsInv, RestartServer
    PROVE  SettingsInv'
  <1>0. /\ CallsTypeOK /\ VerifiedWasTested /\ RowKeepsRules /\ chRow \in ChRows /\ setRow \in Sets
        /\ lost \in 0..MaxLost /\ MaxLost \in Nat /\ doubt \in {"none", "now", "past"}
        /\ NoHolder \notin CReqs /\ (chRow.on => chRow.config # Empty)
    BY SettingsParts
  <1>1. /\ lost' \in 0..MaxLost /\ keyNow' \in {1, 2} /\ setMem' = setRow /\ told' = setRow
        /\ chMem' = Scan(chRow, keyNow') /\ mailer' = MailerConfig(chMem')
        /\ mutex' = NoHolder /\ doubt' = IF doubt = "now" THEN "past" ELSE doubt
        /\ creq' = [p \in CReqs |-> AtRest]
        /\ UNCHANGED <<setRow, chRow, edits, tested, overlapped>>
    BY <1>0 DEF RestartServer
  <1>2. creq' \in [CReqs -> Calls] /\ \A p \in CReqs : creq'[p].pc = "rest"
    BY <1>1, RestIsCall
  <1>3. chMem' \in ChCopies
    BY <1>0, <1>1, ScanType
  <1>4. CallsTypeOK'
    BY <1>0, <1>1, <1>2, <1>3 DEF CallsTypeOK, SetTypeOK
  <1>5. OneChange' /\ CopiesBehind'
    BY <1>0, <1>1, <1>2 DEF OneChange, Changing, CopiesBehind
  <1>6. \A p \in CReqs : (CarriedOf(p))'
    BY <1>2 DEF CarriedOf
  <1>7. RowKeepsRules' /\ VerifiedWasTested'
    BY <1>0, <1>1 DEF RowKeepsRules, VerifiedWasTested
  <1> QED
    BY <1>0, <1>1, <1>4, <1>5, <1>6, <1>7 DEF SettingsInv

LEMMA SettingsInit ==
    SetInit => SettingsInv
  <1> SUFFICES ASSUME SetInit PROVE SettingsInv
    OBVIOUS
  <1>1. /\ setRow = DefaultSet /\ setMem = DefaultSet /\ told = DefaultSet
        /\ chRow = FirstRow /\ chMem = Scan(FirstRow, 1) /\ mailer = MailerConfig(chMem)
        /\ keyNow = 1 /\ mutex = NoHolder /\ creq = [q \in CReqs |-> AtRest]
        /\ edits = 0 /\ lost = 0 /\ doubt = "none" /\ tested = {} /\ overlapped = FALSE
    BY DEF SetInit
  <1>2. DefaultSet \in Sets /\ \A f \in SetFields : DefaultSet[f] \in Allowed(f)
    <2>1. \A f \in SetFields : DefaultSet[f] \in Values
      BY DefaultsAssumption DEF Allowed, Values
    <2> QED
      BY <2>1, DefaultsAssumption DEF Sets
  <1>3. FirstRow \in ChRows /\ FirstRow.on = FALSE /\ FirstRow.verified = FALSE
    BY DEF FirstRow, ChRows
  <1>4. Scan(FirstRow, 1) \in ChCopies
    BY <1>3, ScanType
  <1>5. creq \in [CReqs -> Calls] /\ \A p \in CReqs : creq[p].pc = "rest"
    BY <1>1, RestIsCall
  <1>6. CallsTypeOK
    <2>1. SetTypeOK
      BY <1>1, <1>2, SettingsAssumption DEF SetTypeOK
    <2>2. setRow \in Sets /\ setMem \in Sets /\ chRow \in ChRows /\ chMem \in ChCopies
      BY <1>1, <1>2, <1>3, <1>4
    <2> QED
      BY <1>1, <1>5, <2>1, <2>2 DEF CallsTypeOK
  <1>7. OneChange /\ CopiesBehind
    BY <1>1, <1>5, SettingsAssumption DEF OneChange, Changing, CopiesBehind
  <1>8. \A p \in CReqs : CarriedOf(p)
    BY <1>5 DEF CarriedOf
  <1>9. RowKeepsRules /\ VerifiedWasTested
    BY <1>1, <1>3, DefaultsAssumption DEF RowKeepsRules, VerifiedWasTested, ValidateAll
  <1> QED
    BY <1>1, <1>3, <1>6, <1>7, <1>8, <1>9 DEF SettingsInv

LEMMA SettingsStays ==
    SettingsInv /\ UNCHANGED cvars => SettingsInv'
  <1> SUFFICES ASSUME SettingsInv, UNCHANGED cvars PROVE SettingsInv'
    OBVIOUS
  <1>1. UNCHANGED <<setRow, setMem, told, chRow, chMem, mailer, keyNow, mutex, creq, edits, lost, doubt, tested, overlapped>>
    BY DEF cvars
  <1>2. /\ CallsTypeOK /\ OneChange /\ CopiesBehind /\ RowKeepsRules /\ VerifiedWasTested
        /\ (chRow.on => chRow.config # Empty) /\ \A p \in CReqs : CarriedOf(p)
    BY SettingsParts
  <1>3. CallsTypeOK' /\ OneChange'
    BY <1>1, <1>2 DEF CallsTypeOK, SetTypeOK, OneChange
  <1>4. CopiesBehind'
    BY <1>1, <1>2 DEF CopiesBehind, AtWork
  <1>5. ASSUME NEW p \in CReqs PROVE (CarriedOf(p))'
    BY <1>1, <1>2 DEF CarriedOf
  <1>6. RowKeepsRules' /\ VerifiedWasTested'
    BY <1>1, <1>2 DEF RowKeepsRules, VerifiedWasTested
  <1> QED
    BY <1>1, <1>2, <1>3, <1>4, <1>5, <1>6 DEF SettingsInv

LEMMA ServiceSteps ==
    SettingsInv /\ [ServiceNext]_cvars => SettingsInv'
  <1> SUFFICES ASSUME SettingsInv, [ServiceNext]_cvars PROVE SettingsInv'
    OBVIOUS
  <1>1. ASSUME NEW q \in CReqs, NEW f \in SetFields, NEW v \in Allowed(f), Apply(q, [x \in {f} |-> v])
        PROVE  SettingsInv'
    <2>1. {f} \in SUBSET SetFields /\ v \in Values
      BY DEF Allowed, Values
    <2>2. [x \in {f} |-> v] \in [{f} -> Values] /\ \A x \in {f} : [y \in {f} |-> v][x] \in Allowed(x)
      BY <2>1
    <2> QED
      BY <1>1, <2>1, <2>2, ApplyInv
  <1>2. ASSUME NEW q \in CReqs, NEW f \in SetFields, NEW g \in SetFields, Apply(q, [x \in {f, g} |-> DefaultSet[x]])
        PROVE  SettingsInv'
    <2>1. {f, g} \in SUBSET SetFields /\ \A x \in {f, g} : DefaultSet[x] \in Allowed(x) /\ DefaultSet[x] \in Values
      BY DefaultsAssumption DEF Allowed, Values
    <2>2. /\ [x \in {f, g} |-> DefaultSet[x]] \in [{f, g} -> Values]
          /\ \A x \in {f, g} : [y \in {f, g} |-> DefaultSet[y]][x] \in Allowed(x)
      BY <2>1
    <2> QED
      BY <1>2, <2>1, <2>2, ApplyInv
  <1>3. ASSUME NEW q \in CReqs, WriteRow(q) \/ Store(q) \/ Tell(q) PROVE SettingsInv'
    BY <1>3, ServiceInv
  <1> QED
    BY <1>1, <1>2, <1>3, WriteFailsInv, RestartInv, SettingsStays DEF ServiceNext

LEMMA ChannelSteps ==
    SettingsInv /\ [ChannelNext]_cvars => SettingsInv'
  <1> SUFFICES ASSUME SettingsInv, [ChannelNext]_cvars PROVE SettingsInv'
    OBVIOUS
  <1>1. ASSUME NEW q \in CReqs, SaveChannel(q) \/ Remember(q) PROVE SettingsInv'
    BY <1>1, SavingInv
  <1>2. ASSUME NEW q \in CReqs, TestChannel(q) \/ TestSent(q) \/ MarkVerified(q) PROVE SettingsInv'
    BY <1>2, TestingInv
  <1> QED
    BY <1>1, <1>2, UpdateChannelInv, WriteFailsInv, RestartInv, SettingsStays DEF ChannelNext

LEMMA SettingsHoldNow ==
    SettingsInv => SettingsHold
  <1> SUFFICES ASSUME SettingsInv PROVE SettingsHold
    OBVIOUS
  <1>1. /\ CallsTypeOK /\ OneChange /\ CopiesBehind /\ RowKeepsRules /\ VerifiedWasTested
        /\ (chRow.on => chRow.config # Empty) /\ chRow \in ChRows
    BY SettingsParts
  <1>2. CopiesFollow
    BY <1>1 DEF CopiesFollow, Quiet, CopiesBehind, AtWork
  <1>3. OnIsReady
    <2>1. ASSUME chRow.on, Quiet, doubt # "now" PROVE mailer.blocked \/ mailer.password = chRow.secret
      <3>1. chMem = Scan(chRow, keyNow) /\ mailer = MailerConfig(chMem)
        BY <1>2, <2>1 DEF CopiesFollow
      <3>2. /\ chMem.on = chRow.on
            /\ chMem.secret = IF chRow.secret = Empty \/ chRow.key # keyNow THEN Empty ELSE chRow.secret
            /\ chMem.unreadable = (chRow.secret # Empty /\ chRow.key # keyNow)
        BY <3>1 DEF Scan
      <3>3. mailer.password = chMem.secret /\ mailer.blocked = chMem.unreadable
        BY <2>1, <3>1, <3>2 DEF MailerConfig
      <3> QED
        BY <3>2, <3>3
    <2> QED
      BY <1>1, <2>1 DEF OnIsReady
  <1> QED
    BY <1>1, <1>2, <1>3 DEF SettingsHold, CallsTypeOK

\* Whatever requests for the settings are under way together, and however many
\* writes fail or lose their answer: between two changes, and unless such an
\* answer was lost since the start, memory and subscribers have what the row
\* says; the rule between the times holds of the row, and the one between the
\* versions as long as no answer was lost (Service.apply, Apply).
THEOREM SettingsFollow == ServiceSpec => []SettingsHold
  <1> QED
    BY SettingsInit, ServiceSteps, SettingsHoldNow, PTL DEF ServiceSpec

\* The same of a channel's copy and mailer; a channel that is on has a config,
\* and its mailer, as far as it follows the row, has the stored secret or is
\* blocked; and one shown as verified was tested with the config and the secret
\* it has, unless a change and a test overlapped or an answer was lost
\* (Channels.Update, Test, MarkVerified).
THEOREM ChannelsFollow == ChannelSpec => []SettingsHold
  <1> QED
    BY SettingsInit, ChannelSteps, SettingsHoldNow, PTL DEF ChannelSpec

-----------------------------------------------------------------------------
(* Numbers and finite sets                                                 *)

LEMMA LeastOf ==
    ASSUME NEW S \in SUBSET Nat, S # {}
    PROVE  \E u \in S : \A v \in S : u <= v
  <1> DEFINE R == {p \in Nat \X Nat : p[1] < p[2]}
  <1>1. IsWellFoundedOn(R, Nat)
    BY NatLessThanWellFounded DEF OpToRel
  <1>2. PICK u \in S : \A v \in S : ~(<<v, u>> \in R)
    BY <1>1, WFMin
  <1>3. ASSUME NEW v \in S PROVE u <= v
    <2>1. u \in Nat /\ v \in Nat /\ <<v, u>> \in Nat \X Nat
      OBVIOUS
    <2>2. v < u => <<v, u>> \in R
      BY <2>1
    <2> QED
      BY <1>2, <2>1, <2>2
  <1> QED
    BY <1>3

\* A finite set of numbers has a greatest one: of the sets without one, a
\* smallest would have one after all.
LEMMA GreatestOf ==
    ASSUME NEW S \in SUBSET Nat, S # {}, IsFiniteSet(S)
    PROVE  \E m \in S : \A r \in S : r <= m
  <1> DEFINE HasGreatest(T) == \E m \in T : \A r \in T : r <= m
             Bad == {n \in Nat : \E T \in SUBSET S : T # {} /\ Cardinality(T) = n /\ ~HasGreatest(T)}
  <1>1. SUFFICES ASSUME Bad # {} PROVE FALSE
    <2>1. Cardinality(S) \in Nat
      BY FS_CardinalityType
    <2> QED
      BY <1>1, <2>1
  <1>2. PICK n \in Bad : \A k \in Bad : n <= k
    BY <1>1, LeastOf
  <1>3. PICK T \in SUBSET S : T # {} /\ Cardinality(T) = n /\ ~HasGreatest(T)
    BY <1>2
  <1>4. PICK x \in T : TRUE
    BY <1>3
  <1>5. IsFiniteSet(T) /\ n \in Nat
    BY <1>2, FS_Subset
  <1>6. IsFiniteSet(T \ {x}) /\ Cardinality(T \ {x}) = n - 1 /\ n - 1 \in Nat
    <2>1. IsFiniteSet(T \ {x}) /\ Cardinality(T \ {x}) = n - 1
      BY <1>3, <1>4, <1>5, FS_RemoveElement
    <2> QED
      BY <2>1, FS_CardinalityType
  <1>7. T \ {x} # {}
    BY <1>3, <1>4
  <1>8. n - 1 \notin Bad
    BY <1>2, <1>5
  <1>9. PICK m \in T \ {x} : \A r \in T \ {x} : r <= m
    BY <1>6, <1>7, <1>8
  <1>10. x \in Nat /\ m \in Nat /\ \A r \in T : r \in Nat
    BY <1>4, <1>9
  <1>11. CASE x <= m
    BY <1>3, <1>9, <1>10, <1>11
  <1>12. CASE ~(x <= m)
    <2>1. \A r \in T : r <= x
      BY <1>9, <1>10, <1>12
    <2> QED
      BY <1>3, <1>4, <2>1
  <1> QED
    BY <1>10, <1>11, <1>12

LEMMA Products ==
    ASSUME NEW a \in Nat, NEW b \in Nat, NEW c \in Nat
    PROVE  /\ a * c \in Nat
           /\ (a + b) * c = a * c + b * c
           /\ a <= b => a * c <= b * c /\ c * a <= c * b
  OBVIOUS

-----------------------------------------------------------------------------
(* The limiter                                                             *)

LEMMA FastestRateIs ==
    ASSUME rate \in RateChoices
    PROVE  FastestRate \in Nat /\ \A r \in RateChoices : r \in Nat /\ r <= FastestRate
  <1>1. \E m \in RateChoices : \A r \in RateChoices : r <= m
    BY RateAssumption, GreatestOf
  <1> QED
    BY <1>1, RateAssumption DEF FastestRate

Buckets == [tokens: 0..Burst, last: 0..MaxNow]

\* What holds of one bucket.
LEMMA BucketIs ==
    ASSUME LimitTypeOK, BucketsInTime, NEW k \in Keys
    PROVE  /\ Burst \in Nat /\ Unit \in Nat /\ Unit > 0 /\ Burst >= Unit /\ rate \in Nat /\ now \in Nat
           /\ bucket[k] = NoBucket \/ bucket[k] \in Buckets
           /\ bucket[k] \in Buckets => /\ bucket[k] # NoBucket
                                       /\ bucket[k].tokens \in Nat /\ bucket[k].tokens <= Burst
                                       /\ bucket[k].last \in Nat /\ bucket[k].last <= now
                                       /\ now - bucket[k].last \in Nat
           /\ Stored(bucket[k]) \in 0..Burst /\ Refilled(bucket[k]) \in 0..Burst
           /\ Stored(bucket[k]) <= Refilled(bucket[k])
           /\ IdleLong(bucket[k]) => Refilled(bucket[k]) = Burst
  <1>1. /\ Burst \in Nat /\ Unit \in Nat /\ Unit > 0 /\ Burst >= Unit /\ rate \in Nat /\ now \in Nat
        /\ bucket[k] = NoBucket \/ bucket[k] \in Buckets
    BY RateAssumption DEF LimitTypeOK, Buckets
  <1>2. CASE bucket[k] = NoBucket
    BY <1>1, <1>2, RateAssumption DEF Stored, Refilled, IdleLong, Buckets
  <1>3. CASE bucket[k] \in Buckets /\ bucket[k] # NoBucket
    <2>1. /\ bucket[k].tokens \in Nat /\ bucket[k].tokens <= Burst
          /\ bucket[k].last \in Nat /\ bucket[k].last <= now /\ now - bucket[k].last \in Nat
      BY <1>1, <1>3 DEF Buckets, BucketsInTime
    <2> DEFINE x == (now - bucket[k].last) * rate
    <2>2. x \in Nat
      BY <1>1, <2>1, Products
    <2>3. /\ Refilled(bucket[k]) = AtMost(Burst, bucket[k].tokens + x) /\ Stored(bucket[k]) = bucket[k].tokens
          /\ IdleLong(bucket[k]) <=> x >= Burst
      BY <1>3 DEF Refilled, Stored, IdleLong
    <2> HIDE DEF x
    <2> QED
      BY <1>1, <1>3, <2>1, <2>2, <2>3 DEF AtMost
  <1> QED
    BY <1>1, <1>2, <1>3, RateAssumption DEF Buckets

LEMMA LimitParts ==
    ASSUME LimitInv
    PROVE  /\ LimitTypeOK /\ BucketsInTime /\ SweepInvisible /\ FreeToCome /\ PaidFor
           /\ rate \in RateChoices /\ now \in 0..MaxNow /\ lastSweep \in 0..MaxNow /\ lastSweep <= now
           /\ bucket \in [Keys -> Buckets \cup {NoBucket}]
           /\ flight \in [Attempts -> Keys \cup {NoBucket}] /\ level \in [Keys -> 0..Burst]
           /\ paid \in [Keys -> Nat] /\ unpaid \in [Keys -> Nat] /\ retuned \in BOOLEAN
           /\ MaxNow \in Nat /\ Unit \in Nat /\ Unit > 0 /\ Burst \in Nat /\ Burst >= Unit
           /\ FastestRate \in Nat /\ rate \in Nat /\ rate <= FastestRate
  BY FastestRateIs, RateAssumption DEF LimitInv, LimitTypeOK, BucketsInTime, Buckets

\* What a look at a bucket, of k, does to every bucket: sweeping drops only
\* full ones, and the bucket looked at holds what it had less the price.
LEMMA TouchStep ==
    ASSUME LimitInv, NEW k \in Keys, NEW consume \in BOOLEAN, rate # 0, Touch(k, consume), UNCHANGED <<rate, now>>
    PROVE  LET have == Refilled(bucket[k])
               pays == consume /\ have >= Unit
               left == IF pays THEN have - Unit ELSE have
           IN  /\ bucket' \in [Keys -> Buckets \cup {NoBucket}]
               /\ lastSweep' \in 0..MaxNow /\ lastSweep' <= now
               /\ \A j \in Keys : bucket'[j] # NoBucket => bucket'[j].last <= now
               /\ \A j \in Keys \ {k} : /\ Refilled(bucket[j])' = Refilled(bucket[j])
                                        /\ Stored(bucket'[j]) = Stored(bucket[j]) \/ Stored(bucket'[j]) = Burst
                                        /\ \A n \in Nat : PaysFor(j, n) => PaysFor(j, n)'
               /\ Enough(k) <=> have >= Unit
               /\ left \in 0..Burst /\ Refilled(bucket[k])' = left /\ Stored(bucket'[k]) = left
               /\ \A n \in Nat : PaysFor(k, n) => /\ pays => PaysFor(k, n + 1)'
                                                  /\ ~pays => PaysFor(k, n)'
  <1> DEFINE have == Refilled(bucket[k])
             pays == consume /\ have >= Unit
             left == IF pays THEN have - Unit ELSE have
             new == [tokens |-> left, last |-> now]
  <1>0. /\ LimitTypeOK /\ BucketsInTime /\ PaidFor /\ bucket \in [Keys -> Buckets \cup {NoBucket}]
        /\ now \in 0..MaxNow /\ lastSweep \in 0..MaxNow /\ lastSweep <= now /\ MaxNow \in Nat
        /\ Unit \in Nat /\ Unit > 0 /\ Burst \in Nat /\ Burst >= Unit /\ paid \in [Keys -> Nat]
        /\ FastestRate \in Nat /\ rate \in Nat /\ rate <= FastestRate
    BY LimitParts
  <1>1. ~Disabled
    BY <1>0 DEF Disabled
  <1>2. ASSUME NEW j \in Keys
        PROVE  /\ Swept[j] = bucket[j] \/ (Swept[j] = NoBucket /\ Refilled(bucket[j]) = Burst)
               /\ Refilled(Swept[j]) = Refilled(bucket[j])
    <2>1. Swept[j] = IF SweepDue /\ IdleLong(bucket[j]) THEN NoBucket ELSE bucket[j]
      BY DEF Swept
    <2>2. IdleLong(bucket[j]) => Refilled(bucket[j]) = Burst
      BY <1>0, BucketIs
    <2>3. Refilled(NoBucket) = Burst
      BY DEF Refilled
    <2> QED
      BY <2>1, <2>2, <2>3
  <1>3. /\ \A j \in Keys \ {k} : bucket'[j] = Swept[j]
        /\ bucket'[k] = IF Swept[k] = NoBucket /\ ~consume THEN NoBucket
                        ELSE [tokens |-> IF consume /\ Refilled(Swept[k]) >= Unit THEN Refilled(Swept[k]) - Unit ELSE Refilled(Swept[k]),
                              last |-> now]
        /\ DOMAIN bucket' = Keys
        /\ lastSweep' = IF SweepDue THEN now ELSE lastSweep
    BY <1>1 DEF Touch, Take, Swept
  <1>4. have \in 0..Burst
    BY <1>0, BucketIs
  <1>5. left \in 0..Burst
    BY <1>0, <1>4
  <1>6. bucket'[k] = IF Swept[k] = NoBucket /\ ~consume THEN NoBucket ELSE new
    BY <1>2, <1>3
  <1>7. new \in Buckets /\ new.tokens = left /\ new.last = now /\ new # NoBucket
    BY <1>0, <1>5, RateAssumption DEF Buckets
  <1>8. ASSUME NEW j \in Keys, j # k
        PROVE  /\ bucket'[j] \in Buckets \cup {NoBucket}
               /\ bucket'[j] # NoBucket => bucket'[j].last <= now
               /\ Refilled(bucket[j])' = Refilled(bucket[j])
               /\ Stored(bucket'[j]) = Stored(bucket[j]) \/ Stored(bucket'[j]) = Burst
               /\ \A n \in Nat : PaysFor(j, n) => PaysFor(j, n)'
    <2>2. CASE bucket'[j] = bucket[j]
      BY <1>0, <1>8, <2>2 DEF BucketsInTime, Refilled, PaysFor
    <2>3. CASE bucket'[j] = NoBucket /\ Refilled(bucket[j]) = Burst /\ bucket[j] # NoBucket
      <3>1. Refilled(bucket[j])' = Burst /\ Stored(bucket'[j]) = Burst
        BY <2>3 DEF Refilled, Stored
      <3>2. /\ bucket[j].tokens \in Nat /\ bucket[j].last \in Nat /\ now - bucket[j].last \in Nat
        BY <1>0, <2>3, BucketIs
      <3> DEFINE d == now - bucket[j].last
      <3>3. bucket[j].tokens + d * rate >= Burst
        <4>1. d * rate \in Nat
          BY <1>0, <3>2, Products
        <4> QED
          BY <1>0, <2>3, <3>2, <4>1 DEF Refilled, AtMost
      <3>4. d * rate <= d * FastestRate /\ d * rate \in Nat /\ d * FastestRate \in Nat
        BY <1>0, <3>2, Products
      <3>5. now * FastestRate = bucket[j].last * FastestRate + d * FastestRate
        <4>1. now = bucket[j].last + d /\ d \in Nat
          BY <1>0, <3>2
        <4> HIDE DEF d
        <4> QED
          BY <1>0, <3>2, <4>1, Products
      <3> HIDE DEF d
      <3>6. ASSUME NEW n \in Nat, PaysFor(j, n) PROVE PaysFor(j, n)'
        <4>1. n * Unit + bucket[j].tokens <= Burst + bucket[j].last * FastestRate
          BY <2>3, <3>6 DEF PaysFor
        <4>2. n * Unit \in Nat /\ bucket[j].last * FastestRate \in Nat /\ now * FastestRate \in Nat
          BY <1>0, <3>2, Products
        <4>3. n * Unit <= now * FastestRate
          BY <1>0, <3>2, <3>3, <3>4, <3>5, <4>1, <4>2
        <4> QED
          BY <2>3, <4>3 DEF PaysFor
      <3> QED
        BY <2>3, <3>1, <3>6
    <2> QED
      BY <1>2, <1>3, <1>8, <2>2, <2>3
  <1>9. Enough(k) <=> have >= Unit
    BY <1>1, <1>2 DEF Enough
  <1>10. Refilled(bucket[k])' = left /\ Stored(bucket'[k]) = left
    <2>1. CASE bucket'[k] = NoBucket
      <3>1. Swept[k] = NoBucket /\ ~consume
        BY <1>6, <1>7, <2>1
      <3>2. have = Burst
        BY <1>2, <3>1 DEF Refilled
      <3> QED
        BY <2>1, <3>1, <3>2 DEF Refilled, Stored
    <2>2. CASE bucket'[k] = new
      <3>1. Refilled(bucket[k])' = AtMost(Burst, left + (now' - now) * rate')
        BY <1>7, <2>2 DEF Refilled
      <3>2. (now' - now) * rate' = 0
        BY <1>0
      <3>3. Stored(bucket'[k]) = left
        BY <1>7, <2>2 DEF Stored
      <3> HIDE DEF left
      <3> QED
        BY <1>0, <1>5, <3>1, <3>2, <3>3 DEF AtMost
    <2> QED
      BY <1>6, <2>1, <2>2
  <1>11. ASSUME NEW n \in Nat, PaysFor(k, n)
         PROVE  /\ pays => PaysFor(k, n + 1)'
                /\ ~pays => PaysFor(k, n)'
    <2>1. n * Unit + have <= Burst + now * FastestRate
      <3>1. CASE bucket[k] = NoBucket
        <4>1. have = Burst /\ n * Unit <= now * FastestRate /\ n * Unit \in Nat /\ now * FastestRate \in Nat
          BY <1>0, <1>11, <3>1, Products DEF Refilled, PaysFor
        <4> HIDE DEF have
        <4> QED
          BY <1>0, <4>1
      <3>2. CASE bucket[k] # NoBucket
        <4>1. /\ bucket[k].tokens \in Nat /\ bucket[k].last \in Nat /\ now - bucket[k].last \in Nat
          BY <1>0, <3>2, BucketIs
        <4> DEFINE d == now - bucket[k].last
        <4>2. have <= bucket[k].tokens + d * rate
          <5>1. d * rate \in Nat
            BY <1>0, <4>1, Products
          <5> QED
            BY <1>0, <3>2, <4>1, <5>1 DEF Refilled, AtMost
        <4>3. d * rate <= d * FastestRate /\ d * rate \in Nat /\ d * FastestRate \in Nat
          BY <1>0, <4>1, Products
        <4>4. now * FastestRate = bucket[k].last * FastestRate + d * FastestRate
          <5>1. now = bucket[k].last + d /\ d \in Nat
            BY <1>0, <4>1
          <5> HIDE DEF d
          <5> QED
            BY <1>0, <4>1, <5>1, Products
        <4> HIDE DEF d, have
        <4>5. n * Unit + bucket[k].tokens <= Burst + bucket[k].last * FastestRate
          BY <1>11, <3>2 DEF PaysFor
        <4>6. n * Unit \in Nat /\ bucket[k].last * FastestRate \in Nat /\ now * FastestRate \in Nat
          BY <1>0, <4>1, Products
        <4> QED
          BY <1>0, <1>4, <4>1, <4>2, <4>3, <4>4, <4>5, <4>6
      <3> QED
        BY <3>1, <3>2
    <2>2. (n + 1) * Unit = n * Unit + Unit /\ n * Unit \in Nat /\ now * FastestRate \in Nat
      BY <1>0, Products
    <2>3. CASE bucket'[k] = NoBucket
      <3>1. Swept[k] = NoBucket /\ ~consume
        BY <1>6, <1>7, <2>3
      <3>2. have = Burst /\ ~pays
        BY <1>2, <3>1 DEF Refilled
      <3>3. n * Unit <= now * FastestRate
        <4> HIDE DEF have, pays
        <4> QED
          BY <1>0, <2>1, <2>2, <3>2
      <3>4. PaysFor(k, n)'
        BY <2>3, <3>3 DEF PaysFor
      <3> HIDE DEF pays
      <3> QED
        BY <3>2, <3>4
    <2>4. CASE bucket'[k] = new
      <3>1. ASSUME pays PROVE PaysFor(k, n + 1)'
        <4>1. left = have - Unit
          BY <3>1
        <4> HIDE DEF left, have
        <4>2. (n + 1) * Unit + left <= Burst + now * FastestRate
          BY <1>0, <1>4, <2>1, <2>2, <4>1
        <4>3. bucket'[k].tokens = left /\ bucket'[k].last = now /\ bucket'[k] # NoBucket
          BY <1>7, <2>4
        <4> QED
          BY <4>2, <4>3 DEF PaysFor
      <3>2. ASSUME ~pays PROVE PaysFor(k, n)'
        <4>1. left = have
          BY <3>2
        <4> HIDE DEF left, have
        <4>2. n * Unit + left <= Burst + now * FastestRate
          BY <2>1, <4>1
        <4>3. bucket'[k].tokens = left /\ bucket'[k].last = now /\ bucket'[k] # NoBucket
          BY <1>7, <2>4
        <4> QED
          BY <4>2, <4>3 DEF PaysFor
      <3> HIDE DEF pays
      <3> QED
        BY <3>1, <3>2
    <2> QED
      BY <1>6, <2>3, <2>4
  <1>12. bucket' \in [Keys -> Buckets \cup {NoBucket}]
    <2>1. bucket'[k] \in Buckets \cup {NoBucket}
      BY <1>6, <1>7
    <2>2. \A j \in Keys : bucket'[j] \in Buckets \cup {NoBucket}
      BY <1>8, <2>1
    <2>3. bucket' = [j \in Keys |-> bucket'[j]]
      BY <1>1 DEF Touch, Take, Swept
    <2> QED
      BY <2>2, <2>3
  <1>13. lastSweep' \in 0..MaxNow /\ lastSweep' <= now
    BY <1>0, <1>3
  <1>14. bucket'[k] # NoBucket => bucket'[k].last <= now
    BY <1>0, <1>6, <1>7
  <1> HIDE DEF left, pays, have, new
  <1>15. /\ bucket' \in [Keys -> Buckets \cup {NoBucket}]
         /\ lastSweep' \in 0..MaxNow /\ lastSweep' <= now
         /\ \A j \in Keys : bucket'[j] # NoBucket => bucket'[j].last <= now
         /\ \A j \in Keys \ {k} : /\ Refilled(bucket[j])' = Refilled(bucket[j])
                                  /\ Stored(bucket'[j]) = Stored(bucket[j]) \/ Stored(bucket'[j]) = Burst
                                  /\ \A n \in Nat : PaysFor(j, n) => PaysFor(j, n)'
         /\ Enough(k) <=> have >= Unit
         /\ left \in 0..Burst /\ Refilled(bucket[k])' = left /\ Stored(bucket'[k]) = left
         /\ \A n \in Nat : PaysFor(k, n) => /\ pays => PaysFor(k, n + 1)'
                                            /\ ~pays => PaysFor(k, n)'
    BY <1>5, <1>8, <1>9, <1>10, <1>11, <1>12, <1>13, <1>14
  <1> QED
    BY <1>15 DEF left, pays, have

LEMMA FlightCounts ==
    ASSUME LimitInv
    PROVE  /\ IsFiniteSet(Attempts) /\ Cardinality(Attempts) \in Nat
           /\ \A k \in Keys : /\ IsFiniteSet(InFlight(k)) /\ Cardinality(InFlight(k)) \in Nat
                              /\ Cardinality(InFlight(k)) <= Cardinality(Attempts)
  <1>1. IsFiniteSet(Attempts)
    BY RateAssumption
  <1>2. \A k \in Keys : InFlight(k) \subseteq Attempts
    BY DEF InFlight
  <1> QED
    BY <1>1, <1>2, FS_Subset, FS_CardinalityType

LEMMA OffIsEmpty ==
    ASSUME LimitInv, rate = 0, NEW j \in Keys
    PROVE  bucket[j] = NoBucket /\ Stored(bucket[j]) = Burst
  <1>1. bucket[j] = NoBucket
    BY LimitParts DEF BucketsInTime
  <1> QED
    BY <1>1 DEF Stored

LEMMA GateInv ==
    ASSUME LimitInv, NEW a \in Attempts, NEW k \in Keys, Gate(a, k)
    PROVE  LimitInv'
  <1>0. /\ LimitTypeOK /\ BucketsInTime /\ SweepInvisible /\ FreeToCome /\ PaidFor
        /\ rate \in RateChoices /\ now \in 0..MaxNow /\ lastSweep \in 0..MaxNow /\ lastSweep <= now
        /\ bucket \in [Keys -> Buckets \cup {NoBucket}]
        /\ flight \in [Attempts -> Keys \cup {NoBucket}] /\ level \in [Keys -> 0..Burst]
        /\ paid \in [Keys -> Nat] /\ unpaid \in [Keys -> Nat] /\ retuned \in BOOLEAN
        /\ Unit \in Nat /\ Unit > 0 /\ Burst \in Nat /\ Burst >= Unit
    BY LimitParts
  <1>1. /\ flight[a] = NoBucket /\ Touch(k, FALSE)
        /\ flight' = IF Enough(k) THEN [flight EXCEPT ![a] = k] ELSE flight
        /\ UNCHANGED <<rate, now, level, paid, unpaid, retuned>>
    BY DEF Gate
  <1>2. flight' \in [Attempts -> Keys \cup {NoBucket}]
    BY <1>0, <1>1
  <1>3. ASSUME NEW j \in Keys, j # k \/ ~Enough(k) PROVE InFlight(j)' = InFlight(j)
    BY <1>0, <1>1, <1>3, RateAssumption DEF InFlight
  <1>4. CASE rate = 0
    <2>1. UNCHANGED <<bucket, lastSweep>>
      BY <1>1, <1>4 DEF Touch, Disabled
    <2>2. LimitTypeOK' /\ BucketsInTime' /\ PaidFor'
      BY <1>0, <1>1, <1>2, <2>1 DEF LimitTypeOK, BucketsInTime, PaidFor, PaysFor
    <2>3. SweepInvisible'
      BY <1>0, <1>1, <2>1 DEF SweepInvisible, Refilled, Listed
    <2>4. FreeToCome'
      <3> SUFFICES ASSUME NEW j \in Keys
                   PROVE  unpaid'[j] + (IF Stored(bucket'[j]) < Unit THEN Cardinality(InFlight(j)') ELSE 0)
                             <= (Cardinality(Attempts) - 1) * paid'[j]
        BY DEF FreeToCome
      <3>1. Stored(bucket[j]) = Burst /\ bucket'[j] = bucket[j] /\ ~(Burst < Unit)
        BY <1>0, <1>4, <2>1, OffIsEmpty
      <3> QED
        BY <1>0, <1>1, <3>1 DEF FreeToCome
    <2> QED
      BY <2>2, <2>3, <2>4 DEF LimitInv
  <1>5. CASE rate # 0
    <2> DEFINE have == Refilled(bucket[k])
    <2>1. /\ bucket' \in [Keys -> Buckets \cup {NoBucket}]
          /\ lastSweep' \in 0..MaxNow /\ lastSweep' <= now
          /\ \A j \in Keys : bucket'[j] # NoBucket => bucket'[j].last <= now
          /\ \A j \in Keys \ {k} : /\ Refilled(bucket[j])' = Refilled(bucket[j])
                                   /\ Stored(bucket'[j]) = Stored(bucket[j]) \/ Stored(bucket'[j]) = Burst
                                   /\ \A n \in Nat : PaysFor(j, n) => PaysFor(j, n)'
          /\ Enough(k) <=> have >= Unit
          /\ Refilled(bucket[k])' = have /\ Stored(bucket'[k]) = have
          /\ \A n \in Nat : PaysFor(k, n) => PaysFor(k, n)'
      <3>1. FALSE \in BOOLEAN
        OBVIOUS
      <3> QED
        BY <1>1, <1>5, <3>1, TouchStep
    <2>2. LimitTypeOK' /\ BucketsInTime'
      BY <1>0, <1>1, <1>2, <1>5, <2>1 DEF LimitTypeOK, BucketsInTime, Buckets
    <2>3. SweepInvisible'
      <3>1. \A j \in Keys : Refilled(bucket[j])' = Refilled(bucket[j])
        BY <2>1
      <3> QED
        BY <1>0, <1>1, <3>1 DEF SweepInvisible, Listed
    <2>4. PaidFor'
      <3>1. \A j \in Keys : paid[j] \in Nat /\ paid'[j] = paid[j] /\ PaysFor(j, paid[j])
        BY <1>0, <1>1 DEF PaidFor
      <3>2. ASSUME NEW j \in Keys PROVE PaysFor(j, paid[j])'
        <4>1. \A n \in Nat : PaysFor(j, n) => PaysFor(j, n)'
          BY <2>1
        <4>2. PICK n \in Nat : n = paid[j]
          BY <3>1
        <4>3. PaysFor(j, n)' /\ paid'[j] = n
          BY <3>1, <4>1, <4>2
        <4> QED
          BY <4>3 DEF PaysFor
      <3> QED
        BY <3>2 DEF PaidFor
    <2>5. FreeToCome'
      <3> SUFFICES ASSUME NEW j \in Keys
                   PROVE  unpaid'[j] + (IF Stored(bucket'[j]) < Unit THEN Cardinality(InFlight(j)') ELSE 0)
                             <= (Cardinality(Attempts) - 1) * paid'[j]
        BY DEF FreeToCome
      <3>0. unpaid[j] + (IF Stored(bucket[j]) < Unit THEN Cardinality(InFlight(j)) ELSE 0)
               <= (Cardinality(Attempts) - 1) * paid[j]
        BY <1>0 DEF FreeToCome
      <3>1. /\ Cardinality(InFlight(j)) \in Nat /\ unpaid[j] \in Nat /\ Stored(bucket[j]) \in 0..Burst
            /\ Stored(bucket[j]) <= Refilled(bucket[j]) /\ Refilled(bucket[j]) \in 0..Burst
            /\ Cardinality(Attempts) \in Nat /\ paid[j] \in Nat
        BY <1>0, FlightCounts, BucketIs
      <3> DEFINE some == Cardinality(InFlight(j))
                 bound == (Cardinality(Attempts) - 1) * paid[j]
      <3>2. bound \in Int
        BY <3>1
      <3>3. Stored(bucket'[j]) < Unit => Stored(bucket[j]) < Unit /\ InFlight(j)' = InFlight(j)
        BY <1>0, <1>3, <2>1, <3>1
      <3>4. Stored(bucket'[j]) < Unit => Cardinality(InFlight(j)') = some
        BY <3>3
      <3>5. unpaid'[j] = unpaid[j] /\ (Cardinality(Attempts) - 1) * paid'[j] = bound
        BY <1>1
      <3>6. unpaid[j] + (IF Stored(bucket[j]) < Unit THEN some ELSE 0) <= bound /\ some \in Nat
        BY <3>0, <3>1
      <3> HIDE DEF some, bound
      <3> QED
        BY <3>1, <3>2, <3>3, <3>4, <3>5, <3>6
    <2> QED
      BY <2>2, <2>3, <2>4, <2>5 DEF LimitInv
  <1> QED
    BY <1>4, <1>5

LEMMA ChargeInv ==
    ASSUME LimitInv, NEW a \in Attempts, Charge(a)
    PROVE  LimitInv'
  <1>0. /\ LimitTypeOK /\ BucketsInTime /\ SweepInvisible /\ FreeToCome /\ PaidFor
        /\ rate \in RateChoices /\ now \in 0..MaxNow /\ lastSweep \in 0..MaxNow /\ lastSweep <= now
        /\ bucket \in [Keys -> Buckets \cup {NoBucket}]
        /\ flight \in [Attempts -> Keys \cup {NoBucket}] /\ level \in [Keys -> 0..Burst]
        /\ paid \in [Keys -> Nat] /\ unpaid \in [Keys -> Nat] /\ retuned \in BOOLEAN
        /\ Unit \in Nat /\ Unit > 0 /\ Burst \in Nat /\ Burst >= Unit
    BY LimitParts
  <1>1. PICK k \in Keys : flight[a] = k
    BY <1>0 DEF Charge
  <1>2. /\ Touch(k, TRUE)
        /\ IF Disabled THEN UNCHANGED <<level, paid, unpaid>>
           ELSE IF Enough(k)
           THEN /\ paid' = [paid EXCEPT ![k] = @ + 1]
                /\ level' = [level EXCEPT ![k] = IF @ >= Unit THEN @ - Unit ELSE 0]
                /\ UNCHANGED unpaid
           ELSE unpaid' = [unpaid EXCEPT ![k] = @ + 1] /\ UNCHANGED <<level, paid>>
        /\ flight' = [flight EXCEPT ![a] = NoBucket]
        /\ UNCHANGED <<rate, now, retuned>>
    BY <1>1 DEF Charge
  <1>3. flight' \in [Attempts -> Keys \cup {NoBucket}] /\ NoBucket \notin Keys
    BY <1>0, <1>2, RateAssumption
  <1>4. \A j \in Keys \ {k} : InFlight(j)' = InFlight(j)
    BY <1>0, <1>1, <1>2, <1>3 DEF InFlight
  <1>5. /\ Cardinality(InFlight(k)') = Cardinality(InFlight(k)) - 1
        /\ Cardinality(InFlight(k)) \in Nat /\ Cardinality(InFlight(k)') \in Nat
        /\ Cardinality(InFlight(k)) <= Cardinality(Attempts)
    <2>1. InFlight(k)' = InFlight(k) \ {a} /\ a \in InFlight(k)
      BY <1>0, <1>1, <1>2, <1>3 DEF InFlight
    <2>2. IsFiniteSet(InFlight(k)) /\ Cardinality(InFlight(k)) \in Nat /\ Cardinality(InFlight(k)) <= Cardinality(Attempts)
      BY FlightCounts
    <2>3. Cardinality(InFlight(k) \ {a}) = Cardinality(InFlight(k)) - 1 /\ IsFiniteSet(InFlight(k) \ {a})
      BY <2>1, <2>2, FS_RemoveElement
    <2>4. Cardinality(InFlight(k) \ {a}) \in Nat
      BY <2>3, FS_CardinalityType
    <2> QED
      BY <2>1, <2>2, <2>3, <2>4
  <1>6. CASE rate = 0
    <2>1. UNCHANGED <<bucket, lastSweep, level, paid, unpaid>>
      BY <1>2, <1>6 DEF Touch, Disabled
    <2>2. LimitTypeOK' /\ BucketsInTime' /\ PaidFor'
      BY <1>0, <1>2, <1>3, <2>1 DEF LimitTypeOK, BucketsInTime, PaidFor, PaysFor
    <2>3. SweepInvisible'
      BY <1>0, <1>2, <2>1 DEF SweepInvisible, Refilled, Listed
    <2>4. FreeToCome'
      <3> SUFFICES ASSUME NEW j \in Keys
                   PROVE  unpaid'[j] + (IF Stored(bucket'[j]) < Unit THEN Cardinality(InFlight(j)') ELSE 0)
                             <= (Cardinality(Attempts) - 1) * paid'[j]
        BY DEF FreeToCome
      <3>1. Stored(bucket[j]) = Burst /\ bucket'[j] = bucket[j] /\ ~(Burst < Unit)
        BY <1>0, <1>6, <2>1, OffIsEmpty
      <3> QED
        BY <1>0, <2>1, <3>1 DEF FreeToCome
    <2> QED
      BY <2>2, <2>3, <2>4 DEF LimitInv
  <1>7. CASE rate # 0
    <2> DEFINE have == Refilled(bucket[k])
               left == IF have >= Unit THEN have - Unit ELSE have
    <2>1. /\ bucket' \in [Keys -> Buckets \cup {NoBucket}]
          /\ lastSweep' \in 0..MaxNow /\ lastSweep' <= now
          /\ \A j \in Keys : bucket'[j] # NoBucket => bucket'[j].last <= now
          /\ \A j \in Keys \ {k} : /\ Refilled(bucket[j])' = Refilled(bucket[j])
                                   /\ Stored(bucket'[j]) = Stored(bucket[j]) \/ Stored(bucket'[j]) = Burst
                                   /\ \A n \in Nat : PaysFor(j, n) => PaysFor(j, n)'
          /\ Enough(k) <=> have >= Unit
          /\ left \in 0..Burst /\ Refilled(bucket[k])' = left /\ Stored(bucket'[k]) = left
          /\ \A n \in Nat : PaysFor(k, n) => /\ have >= Unit => PaysFor(k, n + 1)'
                                             /\ ~(have >= Unit) => PaysFor(k, n)'
      <3>1. TRUE \in BOOLEAN
        OBVIOUS
      <3> QED
        BY <1>2, <1>7, <3>1, TouchStep
    <2>2. have \in 0..Burst /\ Stored(bucket[k]) <= have /\ Stored(bucket[k]) \in 0..Burst
      BY <1>0, BucketIs
    <2>3. /\ have >= Unit =>
                /\ paid' = [paid EXCEPT ![k] = @ + 1]
                /\ level' = [level EXCEPT ![k] = IF @ >= Unit THEN @ - Unit ELSE 0]
                /\ UNCHANGED unpaid
          /\ ~(have >= Unit) => unpaid' = [unpaid EXCEPT ![k] = @ + 1] /\ UNCHANGED <<level, paid>>
      BY <1>0, <1>2, <1>7, <2>1 DEF Disabled
    <2> HIDE DEF have
    <2>4. /\ paid' \in [Keys -> Nat] /\ unpaid' \in [Keys -> Nat] /\ level' \in [Keys -> 0..Burst]
          /\ \A j \in Keys \ {k} : paid'[j] = paid[j] /\ unpaid'[j] = unpaid[j] /\ level'[j] = level[j]
          /\ have >= Unit => /\ paid'[k] = paid[k] + 1 /\ unpaid'[k] = unpaid[k]
                             /\ level'[k] = IF level[k] >= Unit THEN level[k] - Unit ELSE 0
          /\ ~(have >= Unit) => paid'[k] = paid[k] /\ unpaid'[k] = unpaid[k] + 1 /\ level'[k] = level[k]
      <3>1. CASE have >= Unit
        BY <1>0, <2>3, <3>1
      <3>2. CASE ~(have >= Unit)
        BY <1>0, <2>3, <3>2
      <3> QED
        BY <3>1, <3>2
    <2>5. LimitTypeOK' /\ BucketsInTime'
      BY <1>0, <1>2, <1>3, <1>7, <2>1, <2>4 DEF LimitTypeOK, BucketsInTime, Buckets
    <2>6. SweepInvisible'
      <3>1. ASSUME ~retuned', NEW j \in Keys PROVE Refilled(bucket[j])' = level'[j]
        <4>1. Refilled(bucket[j]) = level[j]
          BY <1>0, <1>2, <3>1 DEF SweepInvisible
        <4>2. CASE j # k
          BY <2>1, <2>4, <4>1, <4>2
        <4>3. CASE j = k
          BY <2>1, <2>2, <2>4, <4>1, <4>3 DEF have
        <4> QED
          BY <4>2, <4>3
      <3> QED
        BY <3>1 DEF SweepInvisible, Listed
    <2>7. PaidFor'
      <3> SUFFICES ASSUME NEW j \in Keys PROVE PaysFor(j, paid[j])'
        BY DEF PaidFor
      <3>1. PaysFor(j, paid[j]) /\ paid[j] \in Nat
        BY <1>0 DEF PaidFor
      <3>2. PICK n \in Nat : n = paid[j] /\ PaysFor(j, n)
        BY <3>1
      <3>3. CASE j # k
        <4>1. PaysFor(j, n)' /\ paid'[j] = n
          BY <2>1, <2>4, <3>2, <3>3
        <4> QED
          BY <4>1 DEF PaysFor
      <3>4. CASE j = k
        <4>1. CASE have >= Unit
          <5>1. PaysFor(j, n + 1)' /\ paid'[j] = n + 1
            BY <2>1, <2>4, <3>2, <3>4, <4>1
          <5> QED
            BY <5>1 DEF PaysFor
        <4>2. CASE ~(have >= Unit)
          <5>1. PaysFor(j, n)' /\ paid'[j] = n
            BY <2>1, <2>4, <3>2, <3>4, <4>2
          <5> QED
            BY <5>1 DEF PaysFor
        <4> QED
          BY <4>1, <4>2
      <3> QED
        BY <3>3, <3>4
    <2>8. FreeToCome'
      <3> SUFFICES ASSUME NEW j \in Keys
                   PROVE  unpaid'[j] + (IF Stored(bucket'[j]) < Unit THEN Cardinality(InFlight(j)') ELSE 0)
                             <= (Cardinality(Attempts) - 1) * paid'[j]
        BY DEF FreeToCome
      <3>0. unpaid[j] + (IF Stored(bucket[j]) < Unit THEN Cardinality(InFlight(j)) ELSE 0)
               <= (Cardinality(Attempts) - 1) * paid[j]
        BY <1>0 DEF FreeToCome
      <3>1. /\ Cardinality(InFlight(j)) \in Nat /\ unpaid[j] \in Nat /\ Stored(bucket[j]) \in 0..Burst
            /\ Cardinality(Attempts) \in Nat /\ paid[j] \in Nat
        BY <1>0, FlightCounts, BucketIs
      <3> DEFINE some == Cardinality(InFlight(j))
                 all == Cardinality(Attempts)
                 bound == (all - 1) * paid[j]
                 held == Stored(bucket[j])
                 held1 == Stored(bucket'[j])
      <3>2. bound \in Int /\ some \in Nat /\ all \in Nat /\ held \in 0..Burst
        BY <3>1
      <3>3. unpaid[j] + (IF held < Unit THEN some ELSE 0) <= bound
        BY <3>0
      <3>4. CASE j # k
        <4>1. /\ Cardinality(InFlight(j)') = some /\ unpaid'[j] = unpaid[j] /\ (all - 1) * paid'[j] = bound
              /\ held1 = held \/ held1 = Burst
          BY <1>4, <2>1, <2>4, <3>4
        <4> HIDE DEF some, all, bound, held, held1
        <4>2. unpaid[j] + (IF held1 < Unit THEN some ELSE 0) <= bound
          BY <1>0, <3>1, <3>2, <3>3, <4>1
        <4>3. unpaid'[j] + (IF held1 < Unit THEN Cardinality(InFlight(j)') ELSE 0) <= (all - 1) * paid'[j]
          BY <4>1, <4>2
        <4> QED
          BY <4>3 DEF all, held1
      <3>5. CASE j = k
        <4> DEFINE rest == Cardinality(InFlight(j)')
        <4>1. rest = some - 1 /\ rest \in Nat /\ some <= all
          BY <1>5, <3>5
        <4>2. held1 = left /\ held <= have
          BY <2>1, <2>2, <3>5
        <4>3. CASE have >= Unit
          <5>1. unpaid'[j] = unpaid[j] /\ paid'[j] = paid[j] + 1
            BY <2>4, <3>5, <4>3
          <5>2. (all - 1) * (paid[j] + 1) = bound + (all - 1)
            <6> HIDE DEF all
            <6> QED
              BY <3>1, <3>2
          <5>3. unpaid[j] <= bound
            <6> HIDE DEF some, all, bound, held
            <6> QED
              BY <3>1, <3>2, <3>3
          <5>4. unpaid[j] + rest <= bound + (all - 1) /\ unpaid[j] <= bound + (all - 1)
            <6> HIDE DEF some, all, bound, rest
            <6> QED
              BY <3>1, <3>2, <4>1, <5>3
          <5>5. unpaid'[j] + (IF held1 < Unit THEN rest ELSE 0) <= (all - 1) * paid'[j]
            <6> HIDE DEF some, all, bound, held, held1, rest
            <6> QED
              BY <3>1, <3>2, <4>1, <5>1, <5>2, <5>4
          <5> QED
            BY <5>5
        <4>4. CASE ~(have >= Unit)
          <5>1. unpaid'[j] = unpaid[j] + 1 /\ (all - 1) * paid'[j] = bound
            BY <2>4, <3>5, <4>4
          <5>2. held < Unit
            <6> HIDE DEF held
            <6> QED
              BY <1>0, <2>2, <3>2, <4>2, <4>4
          <5>3. unpaid[j] + 1 + rest <= bound /\ unpaid[j] + 1 <= bound
            <6> HIDE DEF some, all, bound, held, rest
            <6> QED
              BY <3>1, <3>2, <3>3, <4>1, <5>2
          <5>4. unpaid'[j] + (IF held1 < Unit THEN rest ELSE 0) <= (all - 1) * paid'[j]
            <6> HIDE DEF some, all, bound, held, held1, rest
            <6> QED
              BY <3>1, <3>2, <4>1, <5>1, <5>3
          <5> QED
            BY <5>4
        <4> QED
          BY <4>3, <4>4
      <3> QED
        BY <3>4, <3>5
    <2> QED
      BY <2>5, <2>6, <2>7, <2>8 DEF LimitInv
  <1> QED
    BY <1>6, <1>7

LEMMA SucceedInv ==
    ASSUME LimitInv, NEW a \in Attempts, Succeed(a)
    PROVE  LimitInv'
  <1>0. /\ LimitTypeOK /\ BucketsInTime /\ SweepInvisible /\ FreeToCome /\ PaidFor
        /\ flight \in [Attempts -> Keys \cup {NoBucket}] /\ unpaid \in [Keys -> Nat] /\ paid \in [Keys -> Nat]
    BY LimitParts
  <1>1. /\ flight' = [flight EXCEPT ![a] = NoBucket]
        /\ UNCHANGED <<rate, bucket, lastSweep, now, level, paid, unpaid, retuned>>
    BY DEF Succeed
  <1>2. LimitTypeOK' /\ BucketsInTime' /\ PaidFor'
    BY <1>0, <1>1 DEF LimitTypeOK, BucketsInTime, PaidFor, PaysFor
  <1>3. SweepInvisible'
    BY <1>0, <1>1 DEF SweepInvisible, Refilled, Listed
  <1>4. FreeToCome'
    <2> SUFFICES ASSUME NEW j \in Keys
                 PROVE  unpaid[j] + (IF Stored(bucket[j]) < Unit THEN Cardinality(InFlight(j)') ELSE 0)
                           <= (Cardinality(Attempts) - 1) * paid[j]
      BY <1>1 DEF FreeToCome
    <2>1. InFlight(j)' \subseteq InFlight(j)
      BY <1>0, <1>1, RateAssumption DEF InFlight
    <2>2. /\ Cardinality(InFlight(j)') <= Cardinality(InFlight(j))
          /\ Cardinality(InFlight(j)') \in Nat /\ Cardinality(InFlight(j)) \in Nat
      BY <2>1, FlightCounts, FS_Subset, FS_CardinalityType
    <2>3. /\ unpaid[j] + (IF Stored(bucket[j]) < Unit THEN Cardinality(InFlight(j)) ELSE 0)
                <= (Cardinality(Attempts) - 1) * paid[j]
          /\ unpaid[j] \in Nat /\ (Cardinality(Attempts) - 1) * paid[j] \in Int
      BY <1>0, FlightCounts DEF FreeToCome
    <2> DEFINE bound == (Cardinality(Attempts) - 1) * paid[j]
    <2> HIDE DEF bound
    <2>4. unpaid[j] + (IF Stored(bucket[j]) < Unit THEN Cardinality(InFlight(j)') ELSE 0) <= bound
      BY <2>2, <2>3 DEF bound
    <2> QED
      BY <2>4 DEF bound
  <1> QED
    BY <1>2, <1>3, <1>4 DEF LimitInv

LEMMA SetRateInv ==
    ASSUME LimitInv, NEW r \in RateChoices, SetRate(r)
    PROVE  LimitInv'
  <1>0. /\ LimitTypeOK /\ BucketsInTime /\ FreeToCome /\ PaidFor
        /\ bucket \in [Keys -> Buckets \cup {NoBucket}] /\ now \in 0..MaxNow /\ MaxNow \in Nat
        /\ Unit \in Nat /\ Burst \in Nat /\ Burst >= Unit /\ FastestRate \in Nat
    BY LimitParts
  <1>1. /\ rate' = r /\ retuned' = TRUE /\ r # rate
        /\ IF r = 0
           THEN /\ bucket' = [k \in Keys |-> NoBucket]
                /\ paid' = [k \in Keys |-> 0] /\ unpaid' = [k \in Keys |-> 0]
           ELSE UNCHANGED <<bucket, paid, unpaid>>
        /\ UNCHANGED <<lastSweep, now, flight, level>>
    BY DEF SetRate
  <1>2. SweepInvisible'
    BY <1>1 DEF SweepInvisible
  <1>3. CASE r = 0
    <2>1. \A j \in Keys : bucket'[j] = NoBucket /\ paid'[j] = 0 /\ unpaid'[j] = 0
      BY <1>1, <1>3
    <2>2. LimitTypeOK' /\ BucketsInTime'
      BY <1>0, <1>1, <1>3 DEF LimitTypeOK, BucketsInTime
    <2>3. PaidFor'
      <3>1. now * FastestRate \in Nat /\ 0 * Unit = 0
        BY <1>0, Products
      <3> QED
        BY <1>1, <2>1, <3>1 DEF PaidFor, PaysFor
    <2>4. FreeToCome'
      <3>1. (Cardinality(Attempts) - 1) * 0 = 0
        BY FlightCounts
      <3> QED
        BY <1>0, <2>1, <3>1 DEF FreeToCome, Stored
    <2> QED
      BY <1>2, <2>2, <2>3, <2>4 DEF LimitInv
  <1>4. CASE r # 0
    <2>1. LimitTypeOK' /\ BucketsInTime' /\ PaidFor'
      BY <1>0, <1>1, <1>4 DEF LimitTypeOK, BucketsInTime, PaidFor, PaysFor
    <2>2. FreeToCome'
      BY <1>0, <1>1, <1>4 DEF FreeToCome, InFlight
    <2> QED
      BY <1>2, <2>1, <2>2 DEF LimitInv
  <1> QED
    BY <1>3, <1>4

LEMMA LimitTickInv ==
    ASSUME LimitInv, LimitTick
    PROVE  LimitInv'
  <1>0. /\ LimitTypeOK /\ BucketsInTime /\ SweepInvisible /\ FreeToCome /\ PaidFor
        /\ bucket \in [Keys -> Buckets \cup {NoBucket}] /\ now \in 0..MaxNow /\ lastSweep \in 0..MaxNow /\ lastSweep <= now
        /\ level \in [Keys -> 0..Burst] /\ paid \in [Keys -> Nat]
        /\ MaxNow \in Nat /\ Unit \in Nat /\ Burst \in Nat /\ rate \in Nat /\ FastestRate \in Nat
    BY LimitParts
  <1>1. /\ now' = now + 1 /\ now' \in 0..MaxNow
        /\ level' = [k \in Keys |-> AtMost(Burst, level[k] + rate)]
        /\ UNCHANGED <<rate, bucket, lastSweep, flight, paid, unpaid, retuned>>
    BY <1>0 DEF LimitTick
  <1>2. level' \in [Keys -> 0..Burst]
    BY <1>0, <1>1 DEF AtMost
  <1>3. LimitTypeOK'
    BY <1>0, <1>1, <1>2 DEF LimitTypeOK
  <1>4. BucketsInTime'
    <2>1. ASSUME NEW k \in Keys, bucket[k] # NoBucket PROVE bucket[k].last <= now + 1
      BY <1>0, <2>1, BucketIs
    <2> QED
      BY <1>0, <1>1, <2>1 DEF BucketsInTime
  <1>5. SweepInvisible'
    <2>1. ASSUME ~retuned, NEW j \in Keys PROVE Refilled(bucket[j])' = level'[j]
      <3>1. Refilled(bucket[j]) = level[j] /\ level[j] \in 0..Burst
        BY <1>0, <2>1 DEF SweepInvisible
      <3>2. level'[j] = AtMost(Burst, level[j] + rate)
        BY <1>1
      <3>3. CASE bucket[j] = NoBucket
        BY <1>0, <1>1, <3>1, <3>2, <3>3 DEF Refilled, AtMost
      <3>4. CASE bucket[j] # NoBucket
        <4>1. bucket[j].tokens \in Nat /\ bucket[j].last \in Nat /\ now - bucket[j].last \in Nat
          BY <1>0, <3>4, BucketIs
        <4> DEFINE d == now - bucket[j].last
        <4>2. d * rate \in Nat /\ (d + 1) * rate = d * rate + rate
          <5> HIDE DEF d
          <5>1. d \in Nat
            BY <4>1 DEF d
          <5> QED
            BY <1>0, <5>1, Products
        <4>3. /\ Refilled(bucket[j]) = AtMost(Burst, bucket[j].tokens + d * rate)
              /\ Refilled(bucket[j])' = AtMost(Burst, bucket[j].tokens + (d + 1) * rate)
          <5>1. now' - bucket'[j].last = d + 1
            BY <1>0, <1>1, <4>1
          <5> QED
            BY <1>1, <3>4, <5>1 DEF Refilled
        <4> HIDE DEF d
        <4> QED
          BY <1>0, <3>1, <3>2, <4>1, <4>2, <4>3 DEF AtMost
      <3> QED
        BY <3>3, <3>4
    <2> QED
      BY <1>1, <2>1 DEF SweepInvisible, Listed
  <1>6. FreeToCome'
    BY <1>0, <1>1 DEF FreeToCome, InFlight
  <1>7. PaidFor'
    <2> SUFFICES ASSUME NEW j \in Keys PROVE PaysFor(j, paid[j])'
      BY DEF PaidFor
    <2>1. PaysFor(j, paid[j]) /\ paid[j] * Unit \in Nat
      BY <1>0, Products DEF PaidFor
    <2>2. now * FastestRate <= (now + 1) * FastestRate /\ now * FastestRate \in Nat /\ (now + 1) * FastestRate \in Nat
      BY <1>0, Products
    <2> QED
      BY <1>1, <2>1, <2>2 DEF PaysFor
  <1> QED
    BY <1>3, <1>4, <1>5, <1>6, <1>7 DEF LimitInv

LEMMA LimitStart ==
    LimitInit => LimitInv
  <1> SUFFICES ASSUME LimitInit PROVE LimitInv
    OBVIOUS
  <1>1. /\ rate \in RateChoices \ {0} /\ lastSweep = 0 /\ now = 0 /\ retuned = FALSE
        /\ bucket = [k \in Keys |-> NoBucket] /\ flight = [a \in Attempts |-> NoBucket]
        /\ level = [k \in Keys |-> Burst]
        /\ paid = [k \in Keys |-> 0] /\ unpaid = [k \in Keys |-> 0]
    BY DEF LimitInit
  <1>2. LimitTypeOK /\ BucketsInTime
    <2>1. /\ rate \in RateChoices /\ now \in 0..MaxNow /\ lastSweep \in 0..MaxNow /\ retuned \in BOOLEAN
          /\ level \in [Keys -> 0..Burst] /\ flight \in [Attempts -> Keys \cup {NoBucket}]
          /\ paid \in [Keys -> Nat] /\ unpaid \in [Keys -> Nat]
      <3>1. level \in [Keys -> 0..Burst]
        BY <1>1, RateAssumption
      <3>2. flight \in [Attempts -> Keys \cup {NoBucket}] /\ retuned \in BOOLEAN
        BY <1>1
      <3>3. rate \in RateChoices /\ now \in 0..MaxNow /\ lastSweep \in 0..MaxNow
        BY <1>1, RateAssumption
      <3>4. paid \in [Keys -> Nat] /\ unpaid \in [Keys -> Nat]
        BY <1>1
      <3> QED
        BY <3>1, <3>2, <3>3, <3>4
    <2>2. bucket \in [Keys -> [tokens: 0..Burst, last: 0..MaxNow] \cup {NoBucket}]
      BY <1>1
    <2> QED
      BY <1>1, <2>1, <2>2 DEF LimitTypeOK, BucketsInTime
  <1>3. SweepInvisible
    BY <1>1 DEF SweepInvisible, Listed, Refilled
  <1>4. FreeToCome
    <2>1. (Cardinality(Attempts) - 1) * 0 = 0
      BY RateAssumption, FS_CardinalityType
    <2> QED
      BY <1>1, <2>1, RateAssumption DEF FreeToCome, Stored
  <1>5. PaidFor
    <2>1. 0 * FastestRate = 0 /\ 0 * Unit = 0
      BY <1>1, FastestRateIs, RateAssumption
    <2> QED
      BY <1>1, <2>1 DEF PaidFor, PaysFor
  <1> QED
    BY <1>2, <1>3, <1>4, <1>5 DEF LimitInv

LEMMA LimitSteps ==
    LimitInv /\ [LimitNext]_lvars => LimitInv'
  <1> SUFFICES ASSUME LimitInv, [LimitNext]_lvars PROVE LimitInv'
    OBVIOUS
  <1>1. CASE UNCHANGED lvars
    <2>1. /\ LimitTypeOK /\ BucketsInTime /\ SweepInvisible /\ FreeToCome /\ PaidFor
          /\ UNCHANGED <<rate, bucket, lastSweep, now, flight, level, paid, unpaid, retuned>>
      BY <1>1, LimitParts DEF lvars
    <2>2. LimitTypeOK' /\ BucketsInTime' /\ PaidFor'
      BY <2>1 DEF LimitTypeOK, BucketsInTime, PaidFor, PaysFor
    <2>3. SweepInvisible' /\ FreeToCome'
      BY <2>1 DEF SweepInvisible, Refilled, Listed, FreeToCome, InFlight
    <2> QED
      BY <2>2, <2>3 DEF LimitInv
  <1> QED
    BY <1>1, GateInv, ChargeInv, SucceedInv, SetRateInv, LimitTickInv DEF LimitNext

LEMMA LimitHolds ==
    LimitInv => BudgetKept
  <1> SUFFICES ASSUME LimitInv PROVE BudgetKept
    OBVIOUS
  <1>0. /\ LimitTypeOK /\ BucketsInTime /\ SweepInvisible /\ FreeToCome /\ PaidFor
        /\ unpaid \in [Keys -> Nat] /\ paid \in [Keys -> Nat] /\ now \in Nat
        /\ Unit \in Nat /\ Burst \in Nat /\ rate \in Nat /\ FastestRate \in Nat /\ rate <= FastestRate
    BY LimitParts
  <1>1. FreeFailuresBounded
    <2> SUFFICES ASSUME NEW k \in Keys PROVE unpaid[k] <= (Cardinality(Attempts) - 1) * paid[k]
      BY DEF FreeFailuresBounded
    <2> DEFINE bound == (Cardinality(Attempts) - 1) * paid[k]
    <2>1. /\ unpaid[k] + (IF Stored(bucket[k]) < Unit THEN Cardinality(InFlight(k)) ELSE 0) <= bound
          /\ unpaid[k] \in Nat /\ Cardinality(InFlight(k)) \in Nat /\ bound \in Int
      BY <1>0, FlightCounts DEF FreeToCome
    <2> HIDE DEF bound
    <2>2. unpaid[k] <= bound
      BY <2>1
    <2> QED
      BY <2>2 DEF bound
  <1>2. WithinBudget
    <2> SUFFICES ASSUME NEW k \in Keys
                 PROVE  paid[k] * Unit + Refilled(bucket[k]) <= Burst + now * FastestRate
      BY DEF WithinBudget, FastestRate
    <2>1. PaysFor(k, paid[k]) /\ paid[k] * Unit \in Nat /\ now * FastestRate \in Nat
      BY <1>0, Products DEF PaidFor
    <2>2. CASE bucket[k] = NoBucket
      <3>1. Refilled(bucket[k]) = Burst /\ paid[k] * Unit <= now * FastestRate
        BY <2>1, <2>2 DEF PaysFor, Refilled
      <3> QED
        BY <1>0, <2>1, <3>1
    <2>3. CASE bucket[k] # NoBucket
      <3>1. bucket[k].tokens \in Nat /\ bucket[k].last \in Nat /\ now - bucket[k].last \in Nat
        BY <1>0, <2>3, BucketIs
      <3> DEFINE d == now - bucket[k].last
      <3>2. d \in Nat /\ now = bucket[k].last + d
        BY <1>0, <3>1
      <3>3. Refilled(bucket[k]) = AtMost(Burst, bucket[k].tokens + d * rate)
        BY <2>3 DEF Refilled
      <3> HIDE DEF d
      <3>4. /\ d * rate <= d * FastestRate /\ d * rate \in Nat /\ d * FastestRate \in Nat
            /\ now * FastestRate = bucket[k].last * FastestRate + d * FastestRate
            /\ bucket[k].last * FastestRate \in Nat
        BY <1>0, <3>1, <3>2, Products
      <3>5. paid[k] * Unit + bucket[k].tokens <= Burst + bucket[k].last * FastestRate
        BY <2>1, <2>3 DEF PaysFor
      <3>6. Refilled(bucket[k]) <= bucket[k].tokens + d * rate /\ Refilled(bucket[k]) \in 0..Burst
        <4>1. Refilled(bucket[k]) \in 0..Burst
          BY <1>0, BucketIs
        <4> QED
          BY <1>0, <3>1, <3>3, <3>4, <4>1 DEF AtMost
      <3> QED
        BY <1>0, <2>1, <3>1, <3>4, <3>5, <3>6
    <2> QED
      BY <2>2, <2>3
  <1> QED
    BY <1>0, <1>1, <1>2 DEF BudgetKept

\* For any number of keys, of attempts under way and of changes of the rate,
\* counted since the limiter was last off: a key is charged no more often
\* than its capacity and the fastest refill pay for; of its failures those
\* that were not charged are, for each that was, at most as many as other
\* attempts can be in progress; and while the rate stays, sweeping and
\* refilling lazily cannot be told from a bucket refilled all the time
\* (ratelimit.go take, sweep, SetRate; httpapi/ratelimit.go).
THEOREM BudgetIsKept == LimitSpec => []BudgetKept
  <1> QED
    BY LimitStart, LimitSteps, LimitHolds, PTL DEF LimitSpec

-----------------------------------------------------------------------------
(* Migrations                                                              *)

\* A finite set of numbers has an ascending list: each stands in it where the
\* number of those up to it says.
LEMMA AscendingIs ==
    ASSUME NEW S \in SUBSET Nat, IsFiniteSet(S)
    PROVE  LET s == Ascending(S)
           IN  /\ s \in Seq(S) /\ Len(s) = Cardinality(S) /\ ToSet(s) = S
               /\ \A i, j \in DOMAIN s : i < j => s[i] < s[j]
  <1> DEFINE n == Cardinality(S)
             Upto(x) == {y \in S : y <= x}
             rank == [x \in S |-> Cardinality(Upto(x))]
  <1>1. n \in Nat
    BY FS_CardinalityType
  <1>2. ASSUME NEW x \in S PROVE rank[x] \in 1..n /\ IsFiniteSet(Upto(x))
    <2>1. Upto(x) \subseteq S /\ x \in Upto(x)
      OBVIOUS
    <2>2. IsFiniteSet(Upto(x)) /\ Cardinality(Upto(x)) <= n /\ Cardinality(Upto(x)) \in Nat
      BY <2>1, FS_Subset, FS_CardinalityType
    <2>3. Cardinality(Upto(x)) # 0
      BY <2>1, <2>2, FS_EmptySet
    <2> QED
      BY <1>1, <2>2, <2>3
  <1>3. ASSUME NEW x \in S, NEW y \in S, x < y PROVE rank[x] < rank[y]
    <2>1. Upto(x) \subseteq Upto(y) /\ y \in Upto(y) /\ y \notin Upto(x)
      <3>1. x \in Nat /\ y \in Nat /\ \A z \in S : z \in Nat
        OBVIOUS
      <3>2. \A z \in S : z <= x => z <= y
        BY <1>3, <3>1
      <3>3. y <= y /\ ~(y <= x)
        BY <1>3, <3>1
      <3> QED
        BY <3>2, <3>3
    <2>2. /\ Cardinality(Upto(x)) <= Cardinality(Upto(y))
          /\ Cardinality(Upto(x)) = Cardinality(Upto(y)) => Upto(x) = Upto(y)
      BY <1>2, <2>1, FS_Subset
    <2>3. Cardinality(Upto(x)) # Cardinality(Upto(y))
      BY <2>1, <2>2
    <2> QED
      BY <1>2, <2>2, <2>3
  <1>4. rank \in [S -> 1..n]
    BY <1>2
  <1> HIDE DEF rank
  <1>5. rank \in Injection(S, 1..n)
    <2>1. ASSUME NEW x \in S, NEW y \in S, rank[x] = rank[y] PROVE x = y
      <3>1. x \in Nat /\ y \in Nat /\ ~(x < y) /\ ~(y < x)
        <4>1. rank[x] \in Nat /\ rank[y] \in Nat
          <5>1. rank[x] \in 1..n /\ rank[y] \in 1..n
            BY <1>4
          <5> QED
            BY <1>1, <5>1
        <4>2. ~(x < y)
          BY <1>3, <2>1, <4>1
        <4>3. ~(y < x)
          BY <1>3, <2>1, <4>1
        <4> QED
          BY <4>2, <4>3
      <3> QED
        BY <3>1
    <2> QED
      BY <1>4, <2>1 DEF Injection, IsInjective
  <1>6. IsFiniteSet(1..n) /\ Cardinality(1..n) = n
    BY <1>1, FS_Interval
  <1>7. rank \in Surjection(S, 1..n)
    BY <1>5, <1>6, FS_Injection
  <1>8. \A i \in 1..n : \E x \in S : rank[x] = i
    BY <1>7 DEF Surjection
  <1> DEFINE t == [i \in 1..n |-> CHOOSE x \in S : rank[x] = i]
  <1>9. \A i \in 1..n : t[i] \in S /\ rank[t[i]] = i
    BY <1>8
  <1>10. t \in [1..n -> S] /\ DOMAIN t = 1..n
    BY <1>9
  <1> HIDE DEF t
  <1>11. \A i, j \in DOMAIN t : i < j => t[i] < t[j]
    <2> SUFFICES ASSUME NEW i \in 1..n, NEW j \in 1..n, i < j PROVE t[i] < t[j]
      BY <1>10
    <2>1. t[i] \in S /\ t[j] \in S /\ t[i] \in Nat /\ t[j] \in Nat /\ rank[t[i]] = i /\ rank[t[j]] = j
      BY <1>9
    <2>2. t[j] < t[i] => j < i
      BY <1>3, <2>1
    <2>3. t[j] # t[i]
      BY <1>1, <2>1
    <2> QED
      BY <1>1, <2>1, <2>2, <2>3
  <1>12. ToSet(t) = S
    <2>1. ASSUME NEW x \in S PROVE x \in ToSet(t)
      <3>1. rank[x] \in 1..n /\ t[rank[x]] \in S /\ rank[t[rank[x]]] = rank[x]
        BY <1>2, <1>9
      <3>2. t[rank[x]] = x
        BY <1>5, <3>1 DEF Injection, IsInjective
      <3> QED
        BY <1>10, <3>1, <3>2 DEF ToSet
    <2> QED
      BY <1>9, <1>10, <2>1 DEF ToSet
  <1>13. \E u \in [1..n -> S] : ToSet(u) = S /\ \A i, j \in DOMAIN u : i < j => u[i] < u[j]
    BY <1>10, <1>11, <1>12
  <1> DEFINE s == Ascending(S)
  <1>14. s \in [1..n -> S] /\ ToSet(s) = S /\ \A i, j \in DOMAIN s : i < j => s[i] < s[j]
    BY <1>13 DEF Ascending
  <1> HIDE DEF s
  <1>15. s \in Seq(S) /\ Len(s) = n
    BY <1>1, <1>14
  <1> QED
    BY <1>14, <1>15 DEF s

LEMMA BinaryIs ==
    ASSUME NEW b \in Binaries \cup ByHand
    PROVE  /\ b \in [DOMAIN b -> Checksums] /\ b = [v \in DOMAIN b |-> b[v]]
           /\ DOMAIN b \in SUBSET Versions /\ DOMAIN b \in SUBSET Nat /\ IsFiniteSet(DOMAIN b)
           /\ \A v \in DOMAIN b : v >= 1
           /\ b \in Binaries => 1 \in DOMAIN b
  <1>1. b = [v \in DOMAIN b |-> b[v]] /\ IsFiniteSet(DOMAIN b) /\ DOMAIN b \subseteq Nat \ {0}
    BY MigrationsAssumption
  <1>2. \A v \in DOMAIN b : b[v] \in Checksums
    BY DEF Checksums
  <1>3. DOMAIN b \in SUBSET Versions
    BY DEF Versions
  <1> QED
    BY <1>1, <1>2, <1>3, MigrationsAssumption

Schemas == Seq([v: Nat, c: Checksums])
Ordered(s) == \A i, j \in DOMAIN s : i < j => s[i].v < s[j].v

LEMMA ContentsIs ==
    ASSUME NEW s \in Schemas, Ordered(s)
    PROVE  /\ DOMAIN Contents(s) = {s[i].v : i \in DOMAIN s}
           /\ \A i \in DOMAIN s : Contents(s)[s[i].v] = s[i].c
           /\ Contents(s) = [x \in DOMAIN Contents(s) |-> Contents(s)[x]]
  <1>1. DOMAIN Contents(s) = {s[i].v : i \in DOMAIN s}
    BY DEF Contents, ToSet
  <1>2. ASSUME NEW i \in DOMAIN s PROVE Contents(s)[s[i].v] = s[i].c
    <2>1. s[i].v \in {t.v : t \in ToSet(s)} /\ s[i] \in ToSet(s)
      BY DEF ToSet
    <2>2. ASSUME NEW j \in DOMAIN s, s[j].v = s[i].v PROVE s[j] = s[i]
      <3>1. i \in Nat /\ j \in Nat /\ s[i].v \in Nat /\ s[j].v \in Nat
        <4>0. s \in Seq([v: Nat, c: Checksums])
          BY DEF Schemas
        <4>1. DOMAIN s = 1..Len(s) /\ Len(s) \in Nat /\ s \in [1..Len(s) -> [v: Nat, c: Checksums]]
          BY <4>0, LenProperties
        <4>2. s[i] \in [v: Nat, c: Checksums] /\ s[j] \in [v: Nat, c: Checksums]
          BY <4>1
        <4> QED
          BY <4>1, <4>2
      <3>2. ~(i < j) /\ ~(j < i)
        BY <2>2, <3>1 DEF Ordered
      <3> QED
        BY <3>1, <3>2
    <2>3. (CHOOSE t \in ToSet(s) : t.v = s[i].v) = s[i]
      BY <2>1, <2>2 DEF ToSet
    <2> QED
      BY <2>1, <2>3 DEF Contents
  <1>3. Contents(s) = [x \in DOMAIN Contents(s) |-> Contents(s)[x]]
    <2> DEFINE A == {t.v : t \in ToSet(s)}
               f == [v \in A |-> (CHOOSE t \in ToSet(s) : t.v = v).c]
    <2>1. f = [x \in DOMAIN f |-> f[x]]
      OBVIOUS
    <2>2. Contents(s) = f
      BY DEF Contents
    <2> HIDE DEF f
    <2> QED
      BY <2>1, <2>2
  <1> QED
    BY <1>1, <1>2, <1>3

LEMMA ContentsAppend ==
    ASSUME NEW s \in Schemas, Ordered(s), NEW v \in Nat, NEW c \in Checksums, \A i \in DOMAIN s : s[i].v < v
    PROVE  LET t == Append(s, Script(v, c))
           IN  /\ t \in Schemas /\ Ordered(t) /\ DOMAIN t = DOMAIN s \cup {Len(s) + 1}
               /\ \A i \in DOMAIN s : t[i] = s[i]
               /\ t[Len(s) + 1].v = v
               /\ Contents(t) = [x \in DOMAIN Contents(s) \cup {v} |-> IF x = v THEN c ELSE Contents(s)[x]]
  <1> DEFINE t == Append(s, Script(v, c))
  <1>1. Script(v, c) \in [v: Nat, c: Checksums] /\ Script(v, c).v = v /\ Script(v, c).c = c
    BY DEF Script
  <1>2. /\ t \in Schemas /\ DOMAIN t = DOMAIN s \cup {Len(s) + 1} /\ Len(s) \in Nat /\ DOMAIN s = 1..Len(s)
        /\ \A i \in DOMAIN s : t[i] = s[i]
        /\ t[Len(s) + 1] = Script(v, c)
    BY <1>1 DEF Schemas
  <1> HIDE DEF t
  <1>3. Ordered(t)
    <2> SUFFICES ASSUME NEW i \in DOMAIN t, NEW j \in DOMAIN t, i < j PROVE t[i].v < t[j].v
      BY DEF Ordered
    <2>1. i \in DOMAIN s
      BY <1>2
    <2> QED
      BY <1>1, <1>2, <2>1 DEF Ordered
  <1>4. /\ DOMAIN Contents(t) = DOMAIN Contents(s) \cup {v}
        /\ \A i \in DOMAIN t : Contents(t)[t[i].v] = t[i].c
        /\ \A i \in DOMAIN s : Contents(s)[s[i].v] = s[i].c
        /\ Contents(t) = [x \in DOMAIN Contents(t) |-> Contents(t)[x]]
    <2>1. /\ DOMAIN Contents(t) = {t[i].v : i \in DOMAIN t} /\ DOMAIN Contents(s) = {s[i].v : i \in DOMAIN s}
          /\ \A i \in DOMAIN t : Contents(t)[t[i].v] = t[i].c
          /\ \A i \in DOMAIN s : Contents(s)[s[i].v] = s[i].c
          /\ Contents(t) = [x \in DOMAIN Contents(t) |-> Contents(t)[x]]
      BY <1>2, <1>3, ContentsIs
    <2>2. {t[i].v : i \in DOMAIN t} = {s[i].v : i \in DOMAIN s} \cup {v}
      BY <1>1, <1>2
    <2> QED
      BY <2>1, <2>2
  <1>5. ASSUME NEW x \in DOMAIN Contents(s) \cup {v}
        PROVE  Contents(t)[x] = IF x = v THEN c ELSE Contents(s)[x]
    <2>1. Contents(t)[v] = c
      BY <1>1, <1>2, <1>4
    <2>2. CASE x # v
      <3>0. x \in DOMAIN Contents(s) /\ DOMAIN Contents(s) = {s[i].v : i \in DOMAIN s}
        BY <2>2, ContentsIs
      <3>1. PICK i \in DOMAIN s : s[i].v = x
        BY <3>0
      <3>2. Contents(t)[x] = t[i].c /\ Contents(s)[x] = s[i].c
        BY <1>2, <1>4, <3>1
      <3> QED
        BY <1>2, <2>2, <3>2
    <2> QED
      BY <2>1, <2>2
  <1>6. Contents(t) = [x \in DOMAIN Contents(s) \cup {v} |-> IF x = v THEN c ELSE Contents(s)[x]]
    BY <1>4, <1>5
  <1> QED
    BY <1>1, <1>2, <1>3, <1>6 DEF t

LEMMA EmptyContents == Contents(<<>>) = <<>>
  BY DEF Contents, ToSet

LEMMA RowsAre ==
    ASSUME NEW h \in Histories \cup {NoTable}
    PROVE  LET rows == IF h = NoTable THEN <<>> ELSE h
           IN  /\ rows \in Histories /\ rows # NoTable
               /\ DOMAIN rows \in SUBSET Versions /\ rows = [v \in DOMAIN rows |-> rows[v]]
               /\ \A v \in DOMAIN rows : rows[v] \in Checksums
               /\ DOMAIN rows = {} => rows = <<>>
  <1> DEFINE rows == IF h = NoTable THEN <<>> ELSE h
  <1>1. \A x \in Histories : x # NoTable
    BY MigrationsAssumption DEF Histories
  <1>2. <<>> \in [{} -> Checksums] /\ {} \in SUBSET Versions
    OBVIOUS
  <1>3. rows \in Histories
    BY <1>2 DEF Histories
  <1>4. PICK D \in SUBSET Versions : rows \in [D -> Checksums]
    BY <1>3 DEF Histories
  <1> HIDE DEF rows
  <1>5. DOMAIN rows = D /\ rows = [v \in D |-> rows[v]] /\ \A v \in D : rows[v] \in Checksums
    BY <1>4
  <1>6. D = {} => rows = <<>>
    <2>1. <<>> = [v \in {} |-> rows[v]]
      OBVIOUS
    <2> QED
      BY <1>5, <2>1
  <1>7. /\ rows \in Histories /\ rows # NoTable
        /\ DOMAIN rows \in SUBSET Versions /\ rows = [v \in DOMAIN rows |-> rows[v]]
        /\ \A v \in DOMAIN rows : rows[v] \in Checksums
        /\ (DOMAIN rows = {} => rows = <<>>)
    BY <1>1, <1>3, <1>5, <1>6
  <1> QED
    BY <1>7 DEF rows

LEMMA CommandKinds ==
    ASSUME RunnersTypeOK, NEW r \in Runners
    PROVE  /\ NoCommand.pc = "idle" /\ NoCommand \notin Commands
           /\ runner[r] = NoCommand \/ runner[r] \in Commands
           /\ runner[r].pc # "idle" => runner[r] \in Commands
           /\ runner[r] \in Commands => runner[r].pc # "idle"
  <1>1. runner[r] \in Commands \cup {NoCommand}
    BY DEF RunnersTypeOK
  <1>2. NoCommand.pc = "idle"
    BY DEF NoCommand
  <1>3. \A c \in Commands : c.pc # "idle"
    BY DEF Commands, HeldPcs
  <1> QED
    BY <1>1, <1>2, <1>3

LEMMA MigParts ==
    ASSUME SchemaInv
    PROVE  /\ RunnersTypeOK /\ OneAtATime /\ ScriptsInOrder /\ HistoryTrue /\ RowsOrByHand /\ ReadyOnOwnSchema
           /\ \A r \in Runners : PlanStands(runner[r])
           /\ dbSchema \in Schemas /\ Ordered(dbSchema) /\ dbHistory \in Histories \cup {NoTable}
           /\ runner \in [Runners -> Commands \cup {NoCommand}]
           /\ commands \in 0..MaxCommands /\ cuts \in 0..MaxCuts /\ misled \in BOOLEAN
           /\ MaxCommands \in Nat /\ MaxCuts \in Nat
           /\ advisory \in Runners \cup {NoRunner} /\ NoRunner \notin Runners
  BY MigrationsAssumption DEF SchemaInv, RunnersTypeOK, MigTypeOK, Schemas, ScriptsInOrder, Ordered

\* A server may go on with this command only on its own schema.
ServesOwn(c) ==
    c.pc = "ok" /\ c.op \in {"up", "require"} /\ ~misled => Contents(dbSchema) = c.bin

\* A step of the command of r, which leaves the others as they are.
LEMMA MigStep ==
    ASSUME SchemaInv, NEW r \in Runners, NEW q \in Commands \cup {NoCommand}, runner' = [runner EXCEPT ![r] = q],
           \/ advisory = r /\ advisory' = (IF q.pc \in HeldPcs THEN r ELSE NoRunner)
           \/ advisory = NoRunner /\ q.pc \in HeldPcs /\ advisory' = r
           \/ advisory # r /\ q.pc \notin HeldPcs /\ UNCHANGED advisory,
           commands' \in 0..MaxCommands, cuts' \in 0..MaxCuts, misled' \in BOOLEAN,
           dbSchema' \in Schemas, dbHistory' \in Histories \cup {NoTable},
           advisory # r => UNCHANGED <<dbSchema, dbHistory, misled>>,
           ScriptsInOrder', HistoryTrue', RowsOrByHand',
           PlanStands(q)', ServesOwn(q)'
    PROVE  SchemaInv'
  <1>0. /\ RunnersTypeOK /\ OneAtATime /\ ReadyOnOwnSchema /\ \A p \in Runners : PlanStands(runner[p])
        /\ runner \in [Runners -> Commands \cup {NoCommand}] /\ NoRunner \notin Runners
        /\ advisory \in Runners \cup {NoRunner}
    BY MigParts
  <1>1. /\ runner' \in [Runners -> Commands \cup {NoCommand}] /\ runner'[r] = q
        /\ \A p \in Runners \ {r} : runner'[p] = runner[p]
    BY <1>0
  <1>2. \A p \in Runners : runner'[p].pc \in {"idle", "wait", "locked", "ensure", "next", "ran", "mark", "ok", "refused"}
    <2>1. ASSUME NEW c \in Commands \cup {NoCommand}
          PROVE  c.pc \in {"idle", "wait", "locked", "ensure", "next", "ran", "mark", "ok", "refused"}
      BY DEF Commands, NoCommand, HeldPcs
    <2> QED
      BY <1>1, <2>1
  <1>3. OneAtATime'
    BY <1>0, <1>1 DEF OneAtATime
  <1>4. advisory' \in Runners \cup {NoRunner}
    BY <1>0
  <1>5. \A s \in ToSet(dbSchema') : s.v \in Nat
    <2>1. dbSchema' \in [1..Len(dbSchema') -> [v: Nat, c: Checksums]] /\ DOMAIN dbSchema' = 1..Len(dbSchema')
      BY LenProperties DEF Schemas
    <2> QED
      BY <2>1 DEF ToSet
  <1>6. RunnersTypeOK'
    BY <1>1, <1>2, <1>4, <1>5 DEF RunnersTypeOK, MigTypeOK, Schemas
  <1>7. ASSUME NEW p \in Runners PROVE (PlanStands(runner[p]))' /\ (ServesOwn(runner[p]))'
    <2>1. CASE p = r
      BY <1>1, <2>1 DEF PlanStands, PlanAccepts, Pending, HistoryRows, HasScript, ServesOwn
    <2>2. CASE p # r /\ advisory = r
      <3>1. runner'[p].pc \notin HeldPcs
        BY <1>0, <1>1, <2>2 DEF OneAtATime
      <3> QED
        BY <3>1 DEF PlanStands, ServesOwn, HeldPcs
    <2>3. CASE p # r /\ advisory # r
      <3>1. /\ runner'[p] = runner[p] /\ PlanStands(runner[p]) /\ ServesOwn(runner[p])
            /\ UNCHANGED <<dbSchema, dbHistory, misled>>
        BY <1>0, <1>1, <2>3 DEF ReadyOnOwnSchema, ServesOwn
      <3> QED
        BY <3>1 DEF PlanStands, PlanAccepts, Pending, HistoryRows, HasScript, ServesOwn
    <2> QED
      BY <2>1, <2>2, <2>3
  <1>8. ReadyOnOwnSchema'
    BY <1>7 DEF ReadyOnOwnSchema, ServesOwn
  <1> QED
    BY <1>3, <1>6, <1>7, <1>8 DEF SchemaInv

LEMMA DataStays ==
    ASSUME SchemaInv, UNCHANGED <<dbSchema, misled>>, HistoryRows' = HistoryRows
    PROVE  /\ ScriptsInOrder' /\ HistoryTrue' /\ RowsOrByHand'
           /\ \A c \in Commands : /\ PlanStands(c)' <=> PlanStands(c)
                                  /\ ServesOwn(c)' <=> ServesOwn(c)
  <1>1. ScriptsInOrder /\ HistoryTrue /\ RowsOrByHand
    BY MigParts
  <1>2. ScriptsInOrder' /\ HistoryTrue' /\ RowsOrByHand'
    BY <1>1 DEF ScriptsInOrder, HistoryTrue, RowsOrByHand, HasScript
  <1>3. ASSUME NEW c \in Commands PROVE (PlanStands(c)' <=> PlanStands(c)) /\ (ServesOwn(c)' <=> ServesOwn(c))
    BY DEF PlanStands, PlanAccepts, Pending, HasScript, ServesOwn
  <1> QED
    BY <1>2, <1>3

LEMMA IdleStands == PlanStands(NoCommand)' /\ ServesOwn(NoCommand)'
  BY DEF PlanStands, ServesOwn, NoCommand

LEMMA BeginInv ==
    ASSUME SchemaInv, NEW r \in Runners, NEW b \in Binaries, NEW v \in Nat,
           NEW op \in {"up", "require", "status", "baseline"}, Command(r, op, b, v)
    PROVE  SchemaInv'
  <1> DEFINE q == [pc |-> "wait", op |-> op, bin |-> b, upto |-> v, todo |-> <<>>]
  <1>0. /\ dbSchema \in Schemas /\ dbHistory \in Histories \cup {NoTable} /\ cuts \in 0..MaxCuts /\ misled \in BOOLEAN
        /\ commands \in 0..MaxCommands /\ MaxCommands \in Nat /\ OneAtATime
    BY MigParts
  <1>1. /\ runner[r] = NoCommand /\ runner' = [runner EXCEPT ![r] = q] /\ commands' \in 0..MaxCommands
        /\ UNCHANGED <<dbSchema, dbHistory, advisory, cuts, misled>>
    BY <1>0 DEF Command
  <1>2. q \in Commands /\ q.pc = "wait" /\ "wait" \notin HeldPcs
    BY DEF Commands, HeldPcs
  <1> HIDE DEF q
  <1>3. PlanStands(q)' /\ ServesOwn(q)'
    BY <1>2 DEF PlanStands, ServesOwn
  <1>4. ScriptsInOrder' /\ HistoryTrue' /\ RowsOrByHand'
    BY <1>1, DataStays DEF HistoryRows
  <1>5. advisory # r
    BY <1>0, <1>1 DEF OneAtATime, NoCommand, HeldPcs
  <1> QED
    BY <1>0, <1>1, <1>2, <1>3, <1>4, <1>5, MigStep

LEMMA Moves ==
    ASSUME NEW c \in Commands, NEW p \in HeldPcs
    PROVE  \E q \in Commands :
              q = [c EXCEPT !.pc = p] /\ q.pc = p /\ q.op = c.op /\ q.bin = c.bin /\ q.upto = c.upto /\ q.todo = c.todo
  <1> DEFINE q == [c EXCEPT !.pc = p]
  <1>1. q \in Commands /\ q.pc = p /\ q.op = c.op /\ q.bin = c.bin /\ q.upto = c.upto /\ q.todo = c.todo
    BY DEF Commands
  <1> QED
    BY <1>1

LEMMA LockInv ==
    ASSUME SchemaInv, NEW r \in Runners, Lock(r)
    PROVE  SchemaInv'
  <1>0. /\ dbSchema \in Schemas /\ dbHistory \in Histories \cup {NoTable} /\ cuts \in 0..MaxCuts /\ misled \in BOOLEAN
        /\ commands \in 0..MaxCommands /\ RunnersTypeOK /\ NoRunner \notin Runners
    BY MigParts
  <1>1. /\ runner[r].pc = "wait" /\ advisory = NoRunner /\ advisory' = r
        /\ runner' = [runner EXCEPT ![r] = [runner[r] EXCEPT !.pc = "locked"]]
        /\ UNCHANGED <<dbSchema, dbHistory, commands, cuts, misled>>
    BY DEF Lock, Goes
  <1>2. runner[r] \in Commands
    BY <1>0, <1>1, CommandKinds
  <1>3. PICK q \in Commands : q = [runner[r] EXCEPT !.pc = "locked"] /\ q.pc = "locked"
    <2>1. "locked" \in HeldPcs
      BY DEF HeldPcs
    <2> QED
      BY <1>2, <2>1, Moves
  <1>4. PlanStands(q)' /\ ServesOwn(q)' /\ "locked" \in HeldPcs
    BY <1>3 DEF PlanStands, ServesOwn, HeldPcs
  <1>5. ScriptsInOrder' /\ HistoryTrue' /\ RowsOrByHand'
    BY <1>1, DataStays DEF HistoryRows
  <1> QED
    BY <1>0, <1>1, <1>3, <1>4, <1>5, MigStep

LEMMA LeaveInv ==
    ASSUME SchemaInv, NEW r \in Runners, Release(r) \/ Cut(r)
    PROVE  SchemaInv'
  <1>0. /\ dbSchema \in Schemas /\ dbHistory \in Histories \cup {NoTable} /\ cuts \in 0..MaxCuts /\ misled \in BOOLEAN
        /\ commands \in 0..MaxCommands /\ MaxCuts \in Nat
    BY MigParts
  <1>1. /\ advisory' = IF advisory = r THEN NoRunner ELSE advisory
        /\ runner' = [runner EXCEPT ![r] = NoCommand] /\ cuts' \in 0..MaxCuts
        /\ UNCHANGED <<dbSchema, dbHistory, commands, misled>>
    BY <1>0 DEF Release, Cut
  <1>2. NoCommand.pc \notin HeldPcs
    BY DEF NoCommand, HeldPcs
  <1>3. ScriptsInOrder' /\ HistoryTrue' /\ RowsOrByHand'
    BY <1>1, DataStays DEF HistoryRows
  <1> QED
    BY <1>0, <1>1, <1>2, <1>3, IdleStands, MigStep

\* What holds of a command that holds the lock.
LEMMA HolderIs ==
    ASSUME SchemaInv, NEW r \in Runners, runner[r].pc \in HeldPcs
    PROVE  /\ advisory = r /\ runner[r] \in Commands /\ PlanStands(runner[r])
           /\ runner[r].bin \in Binaries /\ runner[r].todo \in Seq(Nat) /\ runner[r].upto \in Nat
  <1>1. OneAtATime /\ RunnersTypeOK /\ PlanStands(runner[r])
    BY MigParts
  <1>2. advisory = r /\ runner[r].pc # "idle"
    BY <1>1 DEF OneAtATime, HeldPcs
  <1>3. runner[r] \in Commands
    BY <1>1, <1>2, CommandKinds
  <1> QED
    BY <1>1, <1>2, <1>3 DEF Commands

LEMMA FailsInv ==
    ASSUME SchemaInv, NEW r \in Runners, StatementFails(r)
    PROVE  SchemaInv'
  <1>0. /\ dbSchema \in Schemas /\ dbHistory \in Histories \cup {NoTable} /\ cuts \in 0..MaxCuts /\ misled \in BOOLEAN
        /\ commands \in 0..MaxCommands /\ MaxCuts \in Nat
    BY MigParts
  <1>1. /\ runner[r].pc \in HeldPcs /\ cuts' \in 0..MaxCuts
        /\ runner' = [runner EXCEPT ![r] = [runner[r] EXCEPT !.pc = "refused"]]
        /\ UNCHANGED <<dbSchema, dbHistory, advisory, commands, misled>>
    BY <1>0 DEF StatementFails, Goes, HeldPcs
  <1>2. advisory = r /\ runner[r] \in Commands
    BY <1>1, HolderIs
  <1>3. PICK q \in Commands : q = [runner[r] EXCEPT !.pc = "refused"] /\ q.pc = "refused"
    <2>1. "refused" \in HeldPcs
      BY DEF HeldPcs
    <2> QED
      BY <1>2, <2>1, Moves
  <1>4. PlanStands(q)' /\ ServesOwn(q)' /\ "refused" \in HeldPcs
    BY <1>3 DEF PlanStands, ServesOwn, HeldPcs
  <1>5. ScriptsInOrder' /\ HistoryTrue' /\ RowsOrByHand'
    BY <1>1, DataStays DEF HistoryRows
  <1> QED
    BY <1>0, <1>1, <1>2, <1>3, <1>4, <1>5, MigStep

LEMMA PendingIs ==
    ASSUME SchemaInv, NEW b \in Binaries
    PROVE  /\ Pending(b) \in SUBSET Nat /\ Pending(b) \in SUBSET DOMAIN b /\ IsFiniteSet(Pending(b))
           /\ Ascending(Pending(b)) \in Seq(Nat)
           /\ ToSet(Ascending(Pending(b))) = Pending(b)
           /\ \A i, j \in DOMAIN Ascending(Pending(b)) : i < j => Ascending(Pending(b))[i] < Ascending(Pending(b))[j]
  <1> DEFINE S == Pending(b)
             s == Ascending(S)
  <1>1. S \in SUBSET DOMAIN b /\ DOMAIN b \in SUBSET Nat /\ IsFiniteSet(DOMAIN b)
    BY BinaryIs DEF Pending
  <1>2. S \in SUBSET Nat /\ IsFiniteSet(S)
    BY <1>1, FS_Subset
  <1> HIDE DEF S
  <1>3. s \in Seq(S) /\ ToSet(s) = S /\ \A i, j \in DOMAIN s : i < j => s[i] < s[j]
    BY <1>2, AscendingIs
  <1> HIDE DEF s
  <1>4. s \in Seq(Nat)
    BY <1>2, <1>3, SeqMonotonic
  <1> QED
    BY <1>1, <1>2, <1>3, <1>4 DEF s, S

\* A history that lacks nothing of a binary, and was accepted, is the binary's.
LEMMA NothingPending ==
    ASSUME SchemaInv, NEW b \in Binaries, PlanAccepts(b), Pending(b) = {}
    PROVE  HistoryRows = b /\ (~misled => Contents(dbSchema) = b)
  <1>1. /\ dbHistory \in Histories \cup {NoTable} /\ HistoryTrue
    BY MigParts
  <1>2. /\ HistoryRows = [v \in DOMAIN HistoryRows |-> HistoryRows[v]]
    BY <1>1, RowsAre DEF HistoryRows
  <1>3. b = [v \in DOMAIN b |-> b[v]] /\ 1 \in DOMAIN b
    BY BinaryIs
  <1>4. DOMAIN HistoryRows = DOMAIN b /\ \A v \in DOMAIN b : HistoryRows[v] = b[v]
    BY DEF PlanAccepts, Pending
  <1>5. HistoryRows = b
    BY <1>2, <1>3, <1>4
  <1>6. HistoryRows # <<>>
    BY <1>3, <1>4
  <1> QED
    BY <1>1, <1>5, <1>6 DEF HistoryTrue

LEMMA PlanInv ==
    ASSUME SchemaInv, NEW r \in Runners, Plan(r)
    PROVE  SchemaInv'
  <1>0. /\ dbSchema \in Schemas /\ dbHistory \in Histories \cup {NoTable} /\ cuts \in 0..MaxCuts /\ misled \in BOOLEAN
        /\ commands \in 0..MaxCommands
    BY MigParts
  <1>1. runner[r].pc = "locked" /\ runner[r].op # "baseline"
    BY DEF Plan
  <1>2. /\ advisory = r /\ runner[r] \in Commands /\ runner[r].bin \in Binaries
    BY <1>1, HolderIs DEF HeldPcs
  <1>3. PICK c \in Commands, b \in Binaries : c = runner[r] /\ b = c.bin
    BY <1>2
  <1> DEFINE refused == Legacy \/ ~PlanAccepts(b) \/ (c.op = "require" /\ Pending(b) # {})
             todo == IF refused \/ c.op # "up" THEN <<>> ELSE Ascending(Pending(b))
             stage == CASE refused -> "refused"
                     [] ~refused /\ todo # <<>> -> "ensure"
                     [] OTHER -> "ok"
             planned == [c EXCEPT !.todo = todo, !.pc = stage]
  <1>4. /\ runner' = [runner EXCEPT ![r] = planned]
        /\ UNCHANGED <<dbSchema, dbHistory, advisory, commands, cuts, misled>>
    BY <1>3 DEF Plan
  <1>5. stage \in HeldPcs /\ todo \in Seq(Nat)
    BY PendingIs DEF HeldPcs
  <1>6. /\ stage = "ensure" => ~refused /\ todo # <<>>
        /\ stage = "ok" => ~refused /\ todo = <<>>
        /\ stage \in {"ensure", "ok", "refused"}
    OBVIOUS
  <1> HIDE DEF stage
  <1>7. stage = "ensure" =>
           /\ c.op = "up" /\ todo = Ascending(Pending(b)) /\ PlanAccepts(b)
    BY <1>6
  <1>8. stage = "ok" /\ c.op \in {"up", "require"} => Pending(b) = {} /\ PlanAccepts(b)
    <2> SUFFICES ASSUME stage = "ok", c.op \in {"up", "require"} PROVE Pending(b) = {} /\ PlanAccepts(b)
      OBVIOUS
    <2>1. ~refused /\ todo = <<>>
      BY <1>6
    <2>2. CASE c.op = "require"
      BY <2>1, <2>2
    <2>3. CASE c.op = "up"
      <3>1. Ascending(Pending(b)) = <<>>
        BY <2>1, <2>3
      <3>2. ToSet(<<>>) = {}
        BY DEF ToSet
      <3> QED
        BY <2>1, <3>1, <3>2, PendingIs
    <2> QED
      BY <2>2, <2>3
  <1>9. todo # <<>> => todo = Ascending(Pending(b))
    OBVIOUS
  <1>10. stage = "ensure" => todo # <<>>
    BY <1>6
  <1> HIDE DEF todo, refused
  <1>11. PICK q \in Commands : q = planned /\ q.pc = stage /\ q.op = c.op /\ q.bin = b /\ q.todo = todo
    <2>1. /\ planned \in Commands /\ planned.pc = stage /\ planned.op = c.op /\ planned.bin = b /\ planned.todo = todo
      BY <1>3, <1>5 DEF Commands
    <2> HIDE DEF planned
    <2> QED
      BY <2>1
  <1> HIDE DEF planned
  <1>12. PlanStands(q)
    <2>1. CASE stage = "ensure"
      <3>1. /\ ToSet(todo) = Pending(b)
            /\ \A i, j \in DOMAIN todo : i < j => todo[i] < todo[j]
        BY <1>7, <2>1, PendingIs
      <3> QED
        BY <1>3, <1>1, <1>7, <1>10, <1>11, <2>1, <3>1 DEF PlanStands
    <2>2. CASE stage # "ensure"
      BY <1>6, <1>11, <2>2 DEF PlanStands
    <2> QED
      BY <2>1, <2>2
  <1>13. ServesOwn(q)
    BY <1>8, <1>11, NothingPending DEF ServesOwn
  <1>14. HistoryRows' = HistoryRows
    BY <1>4 DEF HistoryRows
  <1>15. ScriptsInOrder' /\ HistoryTrue' /\ RowsOrByHand' /\ PlanStands(q)' /\ ServesOwn(q)'
    BY <1>4, <1>11, <1>12, <1>13, <1>14, DataStays
  <1> QED
    BY <1>0, <1>2, <1>4, <1>5, <1>11, <1>15, MigStep

LEMMA PlanBaselineInv ==
    ASSUME SchemaInv, NEW r \in Runners, PlanBaseline(r)
    PROVE  SchemaInv'
  <1>0. /\ dbSchema \in Schemas /\ dbHistory \in Histories \cup {NoTable} /\ cuts \in 0..MaxCuts /\ misled \in BOOLEAN
        /\ commands \in 0..MaxCommands
    BY MigParts
  <1>1. runner[r].pc = "locked" /\ runner[r].op = "baseline"
    BY DEF PlanBaseline
  <1>2. advisory = r /\ runner[r] \in Commands
    BY <1>1, HolderIs DEF HeldPcs
  <1> DEFINE stage == IF runner[r].upto \in DOMAIN runner[r].bin /\ HistoryRows = <<>> THEN "ensure" ELSE "refused"
  <1>3. /\ runner' = [runner EXCEPT ![r] = [runner[r] EXCEPT !.pc = stage]]
        /\ UNCHANGED <<dbSchema, dbHistory, advisory, commands, cuts, misled>>
    BY DEF PlanBaseline, Goes
  <1>4. /\ stage \in {"ensure", "refused"} /\ stage \in HeldPcs
        /\ stage = "ensure" => runner[r].upto \in DOMAIN runner[r].bin /\ HistoryRows = <<>>
    BY DEF HeldPcs
  <1> HIDE DEF stage
  <1>5. PICK q \in Commands : /\ q = [runner[r] EXCEPT !.pc = stage] /\ q.pc = stage /\ q.op = runner[r].op
                              /\ q.bin = runner[r].bin /\ q.upto = runner[r].upto
    BY <1>2, <1>4, Moves
  <1>6. PlanStands(q) /\ ServesOwn(q)
    BY <1>1, <1>4, <1>5 DEF PlanStands, ServesOwn
  <1>7. ScriptsInOrder' /\ HistoryTrue' /\ RowsOrByHand' /\ PlanStands(q)' /\ ServesOwn(q)'
    BY <1>3, <1>6, DataStays DEF HistoryRows
  <1> QED
    BY <1>0, <1>2, <1>3, <1>4, <1>5, <1>7, MigStep

LEMMA EnsureInv ==
    ASSUME SchemaInv, NEW r \in Runners, EnsureHistoryTable(r)
    PROVE  SchemaInv'
  <1>0. /\ dbSchema \in Schemas /\ dbHistory \in Histories \cup {NoTable} /\ cuts \in 0..MaxCuts /\ misled \in BOOLEAN
        /\ commands \in 0..MaxCommands
    BY MigParts
  <1>1. runner[r].pc = "ensure"
    BY DEF EnsureHistoryTable
  <1>2. advisory = r /\ runner[r] \in Commands /\ PlanStands(runner[r])
    BY <1>1, HolderIs DEF HeldPcs
  <1> DEFINE stage == IF runner[r].op = "baseline" THEN "mark" ELSE "next"
  <1>3. /\ runner' = [runner EXCEPT ![r] = [runner[r] EXCEPT !.pc = stage]] /\ dbHistory' = HistoryRows
        /\ UNCHANGED <<dbSchema, advisory, commands, cuts, misled>>
    BY DEF EnsureHistoryTable, Goes
  <1>4. /\ stage \in {"mark", "next"} /\ stage \in HeldPcs
        /\ stage = "mark" <=> runner[r].op = "baseline"
    BY DEF HeldPcs
  <1> HIDE DEF stage
  <1>5. PICK q \in Commands : /\ q = [runner[r] EXCEPT !.pc = stage] /\ q.pc = stage /\ q.op = runner[r].op
                              /\ q.bin = runner[r].bin /\ q.upto = runner[r].upto /\ q.todo = runner[r].todo
    BY <1>2, <1>4, Moves
  <1>6. PlanStands(q) /\ ServesOwn(q)
    BY <1>1, <1>2, <1>4, <1>5 DEF PlanStands, ServesOwn
  <1>7. HistoryRows \in Histories /\ HistoryRows # NoTable
    BY <1>0, RowsAre DEF HistoryRows
  <1>8. HistoryRows' = HistoryRows
    BY <1>3, <1>7 DEF HistoryRows
  <1>9. ScriptsInOrder' /\ HistoryTrue' /\ RowsOrByHand' /\ PlanStands(q)' /\ ServesOwn(q)'
    BY <1>3, <1>6, <1>8, DataStays
  <1> QED
    BY <1>0, <1>2, <1>3, <1>4, <1>5, <1>7, <1>9, MigStep

LEMMA RunScriptInv ==
    ASSUME SchemaInv, NEW r \in Runners, RunScript(r)
    PROVE  SchemaInv'
  <1>0. /\ dbSchema \in Schemas /\ dbHistory \in Histories \cup {NoTable} /\ cuts \in 0..MaxCuts /\ misled \in BOOLEAN
        /\ commands \in 0..MaxCommands /\ Ordered(dbSchema)
    BY MigParts
  <1>1. runner[r].pc = "next"
    BY DEF RunScript
  <1>2. advisory = r /\ runner[r] \in Commands /\ PlanStands(runner[r])
    BY <1>1, HolderIs DEF HeldPcs
  <1> DEFINE stage == IF Head(runner[r].todo) \in DOMAIN Contents(dbSchema) THEN "refused" ELSE "ran"
  <1>3. /\ runner' = [runner EXCEPT ![r] = [runner[r] EXCEPT !.pc = stage]]
        /\ UNCHANGED <<dbSchema, dbHistory, advisory, commands, cuts, misled>>
    BY DEF RunScript, Goes
  <1>4. /\ stage \in {"refused", "ran"} /\ stage \in HeldPcs
        /\ stage = "ran" => ~HasScript(Head(runner[r].todo))
    <2>1. DOMAIN Contents(dbSchema) = {dbSchema[i].v : i \in DOMAIN dbSchema}
      BY <1>0, ContentsIs
    <2> QED
      BY <2>1 DEF HeldPcs, HasScript
  <1> HIDE DEF stage
  <1>5. PICK q \in Commands : /\ q = [runner[r] EXCEPT !.pc = stage] /\ q.pc = stage /\ q.op = runner[r].op
                              /\ q.bin = runner[r].bin /\ q.upto = runner[r].upto /\ q.todo = runner[r].todo
    BY <1>2, <1>4, Moves
  <1>6. PlanStands(q) /\ ServesOwn(q)
    BY <1>1, <1>2, <1>4, <1>5 DEF PlanStands, ServesOwn
  <1>7. ScriptsInOrder' /\ HistoryTrue' /\ RowsOrByHand' /\ PlanStands(q)' /\ ServesOwn(q)'
    BY <1>3, <1>6, DataStays DEF HistoryRows
  <1> QED
    BY <1>0, <1>2, <1>3, <1>4, <1>5, <1>7, MigStep

LEMMA MarkInv ==
    ASSUME SchemaInv, NEW r \in Runners, Mark(r)
    PROVE  SchemaInv'
  <1>0. /\ dbSchema \in Schemas /\ dbHistory \in Histories \cup {NoTable} /\ cuts \in 0..MaxCuts /\ misled \in BOOLEAN
        /\ commands \in 0..MaxCommands /\ RowsOrByHand /\ ScriptsInOrder
    BY MigParts
  <1>1. runner[r].pc = "mark"
    BY DEF Mark
  <1>2. advisory = r /\ runner[r] \in Commands /\ PlanStands(runner[r])
    BY <1>1, HolderIs DEF HeldPcs
  <1>3. PICK b \in Binaries, u \in Nat : b = runner[r].bin /\ u = runner[r].upto
    BY <1>2 DEF Commands
  <1> DEFINE D == {x \in DOMAIN b : x <= u}
             rows == [v \in D |-> b[v]]
  <1>4. /\ runner' = [runner EXCEPT ![r] = [runner[r] EXCEPT !.pc = "ok"]] /\ dbHistory' = rows
        /\ misled' = (misled \/ dbHistory' # Contents(dbSchema))
        /\ UNCHANGED <<dbSchema, advisory, commands, cuts>>
    BY <1>3 DEF Mark, Goes
  <1>5. u \in DOMAIN b /\ HistoryRows = <<>> /\ runner[r].op = "baseline"
    BY <1>1, <1>2, <1>3 DEF PlanStands
  <1>6. rows \in Histories /\ rows # NoTable /\ rows # <<>>
    <2>1. b \in [DOMAIN b -> Checksums] /\ DOMAIN b \in SUBSET Versions
      BY BinaryIs
    <2>2. rows \in [D -> Checksums] /\ D \in SUBSET Versions
      BY <2>1
    <2>3. u \in D /\ DOMAIN rows = D
      BY <1>5
    <2> HIDE DEF rows, D
    <2>4. rows \in Histories
      BY <2>2 DEF Histories
    <2>5. rows # <<>>
      BY <2>3
    <2>6. \A x \in Histories : x # NoTable
      BY MigrationsAssumption DEF Histories
    <2> QED
      BY <2>4, <2>5, <2>6
  <1> HIDE DEF rows
  <1>7. "ok" \in HeldPcs
    BY DEF HeldPcs
  <1>8. PICK q \in Commands : q = [runner[r] EXCEPT !.pc = "ok"] /\ q.pc = "ok" /\ q.op = runner[r].op
    BY <1>2, <1>7, Moves
  <1>9. PlanStands(q)' /\ ServesOwn(q)'
    BY <1>5, <1>8 DEF PlanStands, ServesOwn
  <1>10. HistoryRows' = rows
    BY <1>4, <1>6 DEF HistoryRows
  <1>11. misled' \in BOOLEAN
    BY <1>0, <1>4
  <1>12. HistoryTrue' /\ ScriptsInOrder'
    BY <1>0, <1>4, <1>10 DEF HistoryTrue, ScriptsInOrder
  <1>13. RowsOrByHand'
    <2>1. \A i \in DOMAIN dbSchema : \A x \in Binaries : \A v \in DOMAIN x : v < dbSchema[i].v => HasScript(v)
      BY <1>0, <1>5 DEF RowsOrByHand
    <2> QED
      BY <1>4, <1>6, <1>10, <2>1 DEF RowsOrByHand, HasScript
  <1>14. dbSchema' \in Schemas /\ dbHistory' \in Histories \cup {NoTable}
    BY <1>0, <1>4, <1>6
  <1> QED
    BY <1>0, <1>2, <1>4, <1>7, <1>8, <1>9, <1>11, <1>12, <1>13, <1>14, MigStep

LEMMA AscendingTail ==
    ASSUME NEW s \in Seq(Nat), s # <<>>, \A i, j \in DOMAIN s : i < j => s[i] < s[j]
    PROVE  /\ Head(s) \in Nat /\ Head(s) \in ToSet(s)
           /\ Tail(s) \in Seq(Nat) /\ ToSet(Tail(s)) = ToSet(s) \ {Head(s)}
           /\ \A w \in ToSet(Tail(s)) : Head(s) < w
           /\ \A i, j \in DOMAIN Tail(s) : i < j => Tail(s)[i] < Tail(s)[j]
           /\ Len(s) = 1 <=> Tail(s) = <<>>
  <1>1. /\ Len(s) \in Nat /\ Len(s) >= 1 /\ DOMAIN s = 1..Len(s) /\ Head(s) = s[1]
        /\ s \in [1..Len(s) -> Nat]
    BY LenProperties
  <1>2. /\ Tail(s) \in Seq(Nat) /\ Len(Tail(s)) = Len(s) - 1 /\ DOMAIN Tail(s) = 1..(Len(s) - 1)
        /\ \A i \in 1..(Len(s) - 1) : Tail(s)[i] = s[i + 1]
    OBVIOUS
  <1> DEFINE t == Tail(s)
  <1> HIDE DEF t
  <1>3. /\ t \in Seq(Nat) /\ Len(t) = Len(s) - 1 /\ DOMAIN t = 1..(Len(s) - 1)
        /\ \A i \in 1..(Len(s) - 1) : t[i] = s[i + 1]
    BY <1>2 DEF t
  <1>4. \A i \in DOMAIN t : t[i] = s[i + 1] /\ i + 1 \in DOMAIN s /\ s[1] < s[i + 1] /\ s[i + 1] \in Nat /\ s[1] \in Nat
    <2> SUFFICES ASSUME NEW i \in 1..(Len(s) - 1)
                 PROVE  t[i] = s[i + 1] /\ i + 1 \in DOMAIN s /\ s[1] < s[i + 1] /\ s[i + 1] \in Nat /\ s[1] \in Nat
      BY <1>3
    <2>1. 1 \in DOMAIN s /\ i + 1 \in DOMAIN s /\ 1 < i + 1
      BY <1>1
    <2>2. s[1] < s[i + 1]
      BY <2>1
    <2> QED
      BY <1>1, <1>3, <2>1, <2>2
  <1>5. ToSet(t) = ToSet(s) \ {s[1]}
    <2>1. ASSUME NEW w \in ToSet(t) PROVE w \in ToSet(s) /\ w # s[1]
      <3>1. PICK i \in DOMAIN t : t[i] = w
        BY DEF ToSet
      <3>2. w = s[i + 1] /\ i + 1 \in DOMAIN s /\ s[1] < s[i + 1] /\ s[i + 1] \in Nat /\ s[1] \in Nat
        BY <1>4, <3>1
      <3> QED
        BY <3>2 DEF ToSet
    <2>2. ASSUME NEW w \in ToSet(s), w # s[1] PROVE w \in ToSet(t)
      <3>1. PICK i \in DOMAIN s : s[i] = w
        BY DEF ToSet
      <3>2. i # 1 /\ i \in 1..Len(s)
        BY <1>1, <2>2, <3>1
      <3>3. i - 1 \in 1..(Len(s) - 1) /\ (i - 1) + 1 = i
        BY <1>1, <3>2
      <3>4. t[i - 1] = w
        BY <1>3, <3>1, <3>3
      <3> QED
        BY <1>3, <3>3, <3>4 DEF ToSet
    <2> QED
      BY <2>1, <2>2
  <1>6. \A w \in ToSet(t) : s[1] < w
    BY <1>4 DEF ToSet
  <1>7. \A i, j \in DOMAIN t : i < j => t[i] < t[j]
    <2> SUFFICES ASSUME NEW i \in DOMAIN t, NEW j \in DOMAIN t, i < j PROVE t[i] < t[j]
      OBVIOUS
    <2>1. t[i] = s[i + 1] /\ t[j] = s[j + 1] /\ i + 1 \in DOMAIN s /\ j + 1 \in DOMAIN s
      BY <1>4
    <2>2. i + 1 < j + 1
      BY <1>1, <1>3
    <2> QED
      BY <2>1, <2>2
  <1>8. Head(s) \in Nat /\ Head(s) \in ToSet(s)
    <2>1. 1 \in DOMAIN s /\ s[1] \in Nat
      BY <1>1
    <2> QED
      BY <1>1, <2>1 DEF ToSet
  <1>9. Len(s) = 1 <=> t = <<>>
    BY <1>1, <1>3
  <1> QED
    BY <1>1, <1>3, <1>5, <1>6, <1>7, <1>8, <1>9 DEF t

\* A script's changes and its row arrive together, and above all that is there.
LEMMA CommitScriptInv ==
    ASSUME SchemaInv, NEW r \in Runners, CommitScript(r)
    PROVE  SchemaInv'
  <1>0. /\ dbSchema \in Schemas /\ dbHistory \in Histories \cup {NoTable} /\ cuts \in 0..MaxCuts /\ misled \in BOOLEAN
        /\ commands \in 0..MaxCommands /\ Ordered(dbSchema) /\ RowsOrByHand /\ HistoryTrue
    BY MigParts
  <1>1. runner[r].pc = "ran"
    BY DEF CommitScript
  <1>2. advisory = r /\ runner[r] \in Commands /\ PlanStands(runner[r])
    BY <1>1, HolderIs DEF HeldPcs
  <1>3. PICK c \in Commands, b \in Binaries, todo \in Seq(Nat), left \in Seq(Nat) :
           c = runner[r] /\ b = c.bin /\ todo = c.todo /\ left = Tail(todo)
    <2>1. runner[r].bin \in Binaries /\ runner[r].todo \in Seq(Nat)
      BY <1>2 DEF Commands
    <2>2. runner[r].todo # <<>>
      BY <1>1, <1>2 DEF PlanStands
    <2>3. Tail(runner[r].todo) \in Seq(Nat)
      BY <2>1, <2>2
    <2> QED
      BY <1>2, <2>1, <2>3
  <1>4. /\ c.op = "up" /\ todo # <<>> /\ PlanAccepts(b) /\ ToSet(todo) = Pending(b) /\ ~HasScript(Head(todo))
        /\ \A i, j \in DOMAIN todo : i < j => todo[i] < todo[j]
    BY <1>1, <1>2, <1>3 DEF PlanStands
  <1>5. PICK v \in Nat : v = Head(todo)
    BY <1>4, AscendingTail
  <1>6. /\ v \in Pending(b) /\ ToSet(left) = Pending(b) \ {v} /\ \A w \in ToSet(left) : v < w
        /\ \A i, j \in DOMAIN left : i < j => left[i] < left[j]
        /\ Len(todo) = 1 <=> left = <<>>
    <2>1. /\ Head(todo) \in ToSet(todo) /\ ToSet(Tail(todo)) = ToSet(todo) \ {Head(todo)}
          /\ \A w \in ToSet(Tail(todo)) : Head(todo) < w
          /\ \A i, j \in DOMAIN Tail(todo) : i < j => Tail(todo)[i] < Tail(todo)[j]
          /\ Len(todo) = 1 <=> Tail(todo) = <<>>
      BY <1>4, AscendingTail
    <2> QED
      BY <1>3, <1>4, <1>5, <2>1
  <1>7. /\ b \in [DOMAIN b -> Checksums] /\ b = [x \in DOMAIN b |-> b[x]] /\ DOMAIN b \in SUBSET Versions
        /\ \A x \in DOMAIN b : x >= 1 /\ x \in Nat
        /\ 1 \in DOMAIN b
    BY BinaryIs
  <1>8. v \in DOMAIN b /\ v \notin DOMAIN HistoryRows /\ ~HasScript(v)
    BY <1>4, <1>5, <1>6 DEF Pending
  <1>9. PICK k \in Checksums : k = b[v]
    BY <1>7, <1>8
  <1>10. PICK H : H = HistoryRows
    OBVIOUS
  <1>11. /\ H \in Histories /\ DOMAIN H \in SUBSET Versions /\ H = [x \in DOMAIN H |-> H[x]]
         /\ \A x \in DOMAIN H : H[x] \in Checksums
    BY <1>0, <1>10, RowsAre DEF HistoryRows
  <1>12. /\ DOMAIN H \subseteq DOMAIN b /\ \A x \in DOMAIN H : H[x] = b[x]
         /\ \A x \in Pending(b), a \in DOMAIN H : x > a
         /\ Pending(b) = DOMAIN b \ DOMAIN H /\ v \notin DOMAIN H
    BY <1>4, <1>8, <1>10 DEF PlanAccepts, Pending
  <1> DEFINE H2 == [x \in DOMAIN H \cup {v} |-> IF x = v THEN k ELSE H[x]]
             stage == IF Len(todo) = 1 THEN "ok" ELSE "next"
  <1>13. /\ dbSchema' = Append(dbSchema, Script(v, k)) /\ dbHistory' = H2
         /\ runner' = [runner EXCEPT ![r] = [c EXCEPT !.todo = left, !.pc = stage]]
         /\ UNCHANGED <<advisory, commands, cuts, misled>>
    BY <1>3, <1>5, <1>8, <1>9, <1>10 DEF CommitScript, Recorded
  <1>14. /\ stage \in HeldPcs /\ (stage = "ok" <=> left = <<>>) /\ stage \in {"ok", "next"}
    BY <1>6 DEF HeldPcs
  <1> HIDE DEF stage
  <1>15. H2 \in Histories /\ H2 # NoTable /\ H2 # <<>> /\ DOMAIN H2 = DOMAIN H \cup {v}
         /\ H2[v] = k /\ \A x \in DOMAIN H : H2[x] = H[x]
    <2>1. DOMAIN H \cup {v} \in SUBSET Versions
      BY <1>7, <1>8, <1>11
    <2>2. H2 \in [DOMAIN H \cup {v} -> Checksums]
      BY <1>11
    <2>3. H2 \in Histories
      BY <2>1, <2>2 DEF Histories
    <2>4. DOMAIN H2 = DOMAIN H \cup {v}
      OBVIOUS
    <2>5. H2[v] = k /\ \A x \in DOMAIN H : H2[x] = H[x]
      BY <1>12
    <2> HIDE DEF H2
    <2>6. H2 # <<>>
      <3>1. v \in DOMAIN H2 /\ DOMAIN <<>> = {}
        BY <2>4
      <3> QED
        BY <3>1
    <2>7. \A x \in Histories : x # NoTable
      BY MigrationsAssumption DEF Histories
    <2> QED
      BY <2>3, <2>4, <2>5, <2>6, <2>7
  <1>16. \A i \in DOMAIN dbSchema : dbSchema[i].v < v
    <2> SUFFICES ASSUME NEW i \in DOMAIN dbSchema PROVE dbSchema[i].v < v
      OBVIOUS
    <2>1. PICK a \in Nat : a = dbSchema[i].v
      <3>1. dbSchema \in [1..Len(dbSchema) -> [v: Nat, c: Checksums]] /\ DOMAIN dbSchema = 1..Len(dbSchema)
        BY <1>0, LenProperties DEF Schemas
      <3> QED
        BY <3>1
    <2>2. a # v
      BY <1>8, <2>1 DEF HasScript
    <2>3. CASE a \in DOMAIN H
      BY <1>6, <1>12, <2>1, <2>3
    <2>4. CASE a \notin DOMAIN H
      <3>1. v < a => HasScript(v)
        BY <1>0, <1>8, <1>10, <2>1, <2>4 DEF RowsOrByHand
      <3> QED
        BY <1>8, <2>1, <2>2, <3>1
    <2> QED
      BY <2>3, <2>4
  <1> DEFINE s2 == Append(dbSchema, Script(v, k))
  <1>17. /\ s2 \in Schemas /\ Ordered(s2) /\ DOMAIN s2 = DOMAIN dbSchema \cup {Len(dbSchema) + 1}
         /\ \A i \in DOMAIN dbSchema : s2[i] = dbSchema[i]
         /\ s2[Len(dbSchema) + 1].v = v
         /\ Contents(s2) = [x \in DOMAIN Contents(dbSchema) \cup {v} |-> IF x = v THEN k ELSE Contents(dbSchema)[x]]
    BY ZenonT(60), <1>0, <1>16, ContentsAppend
  <1> HIDE DEF s2
  <1>18. H = <<>> => dbSchema = <<>>
    <2> SUFFICES ASSUME H = <<>> PROVE dbSchema = <<>>
      OBVIOUS
    <2>1. dbSchema = <<>> \/ HasScript(1)
      BY <1>0, <1>10 DEF RowsOrByHand
    <2>2. 1 \in Pending(b)
      BY <1>7, <1>12
    <2>3. v = 1
      <3>1. 1 = v \/ v < 1
        BY <1>6, <2>2
      <3> QED
        BY <1>7, <1>8, <3>1
    <2> QED
      BY <1>8, <2>1, <2>3
  <1>19. ~misled => H2 = Contents(s2)
    <2> SUFFICES ASSUME ~misled PROVE H2 = Contents(s2)
      OBVIOUS
    <2>1. H = Contents(dbSchema)
      BY <1>0, <1>10, <1>18, EmptyContents DEF HistoryTrue
    <2> QED
      BY <1>17, <2>1
  <1> HIDE DEF H2
  <1>20. HistoryRows' = H2 /\ dbSchema' = s2 /\ misled' = misled
    BY <1>13, <1>15 DEF HistoryRows, s2
  <1>21. HistoryTrue' /\ ScriptsInOrder'
    BY <1>17, <1>19, <1>20 DEF HistoryTrue, ScriptsInOrder, Ordered
  <1>22. RowsOrByHand'
    <2>1. \A x : HasScript(x) => HasScript(x)'
      BY <1>17, <1>20 DEF HasScript
    <2>2. ASSUME NEW i \in DOMAIN s2
          PROVE  s2[i].v \in DOMAIN H2 \/ \A x \in Binaries : \A w \in DOMAIN x : w < s2[i].v => HasScript(w)'
      <3>1. CASE i \in DOMAIN dbSchema
        <4>1. \/ dbSchema[i].v \in DOMAIN H
              \/ \A x \in Binaries : \A w \in DOMAIN x : w < dbSchema[i].v => HasScript(w)
          BY <1>0, <1>10, <3>1 DEF RowsOrByHand
        <4> QED
          BY <1>15, <1>17, <2>1, <3>1, <4>1
      <3>2. CASE i = Len(dbSchema) + 1
        BY <1>15, <1>17, <3>2
      <3> QED
        BY <1>17, <3>1, <3>2
    <2>3. HistoryRows' # <<>>
      BY <1>15, <1>20
    <2> QED
      BY <1>20, <2>2, <2>3 DEF RowsOrByHand
  <1>23. Pending(b)' = ToSet(left) /\ PlanAccepts(b)'
    <2>1. DOMAIN b \ DOMAIN H2 = ToSet(left)
      BY <1>6, <1>12, <1>15
    <2>2. DOMAIN H2 \subseteq DOMAIN b /\ \A x \in DOMAIN H2 : H2[x] = b[x]
      BY <1>8, <1>9, <1>12, <1>15
    <2>3. ASSUME NEW x \in ToSet(left), NEW a \in DOMAIN H2 PROVE x > a
      <3>1. CASE a = v
        BY <1>6, <3>1
      <3>2. CASE a \in DOMAIN H
        BY <1>6, <1>12, <3>2
      <3> QED
        BY <1>15, <3>1, <3>2
    <2> QED
      BY <1>20, <2>1, <2>2, <2>3 DEF Pending, PlanAccepts
  <1>24. PICK q \in Commands : /\ q = [c EXCEPT !.todo = left, !.pc = stage] /\ q.pc = stage /\ q.op = "up"
                               /\ q.bin = b /\ q.todo = left
    <2> DEFINE moved == [c EXCEPT !.todo = left, !.pc = stage]
    <2>1. moved \in Commands /\ moved.pc = stage /\ moved.op = "up" /\ moved.bin = b /\ moved.todo = left
      BY <1>3, <1>4, <1>14 DEF Commands
    <2> HIDE DEF moved
    <2> QED
      BY <2>1 DEF moved
  <1>25. PlanStands(q)'
    BY <1>6, <1>14, <1>23, <1>24 DEF PlanStands
  <1>26. ServesOwn(q)'
    <2> SUFFICES ASSUME left = <<>>, ~misled PROVE Contents(s2) = b
      BY <1>14, <1>20, <1>24 DEF ServesOwn
    <2>1. ToSet(left) = {}
      BY DEF ToSet
    <2>2. DOMAIN H2 = DOMAIN b
      BY <1>6, <1>8, <1>12, <1>15, <2>1
    <2>3. \A x \in DOMAIN b : H2[x] = b[x]
      BY <1>9, <1>12, <1>15, <2>2
    <2>4. H2 = [x \in DOMAIN H2 |-> H2[x]]
      BY <1>15 DEF H2
    <2>5. H2 = b
      BY <1>7, <2>2, <2>3, <2>4
    <2> QED
      BY <1>19, <2>5
  <1>27. dbSchema' \in Schemas /\ dbHistory' \in Histories \cup {NoTable}
    BY <1>13, <1>15, <1>17, <1>20
  <1> QED
    BY <1>0, <1>2, <1>13, <1>14, <1>21, <1>22, <1>24, <1>25, <1>26, <1>27, MigStep

\* What may be set up by hand is a schema whose scripts ran in order.
LEMMA ByHandIs ==
    ASSUME NEW f \in ByHand
    PROVE  /\ InOrderOf(f) \in Schemas /\ Ordered(InOrderOf(f))
           /\ {InOrderOf(f)[i].v : i \in DOMAIN InOrderOf(f)} = DOMAIN f
  <1> DEFINE vs == Ascending(DOMAIN f)
             s == [i \in DOMAIN vs |-> Script(vs[i], f[vs[i]])]
  <1>1. /\ f \in [DOMAIN f -> Checksums] /\ DOMAIN f \in SUBSET Nat /\ IsFiniteSet(DOMAIN f)
    BY BinaryIs
  <1>2. /\ vs \in Seq(DOMAIN f) /\ ToSet(vs) = DOMAIN f
        /\ \A i, j \in DOMAIN vs : i < j => vs[i] < vs[j]
    BY <1>1, AscendingIs
  <1> HIDE DEF vs
  <1>3. DOMAIN vs = 1..Len(vs) /\ Len(vs) \in Nat /\ \A i \in DOMAIN vs : vs[i] \in DOMAIN f
    BY <1>2, LenProperties
  <1>4. \A i \in DOMAIN vs : s[i] \in [v: Nat, c: Checksums] /\ s[i].v = vs[i]
    BY <1>1, <1>3 DEF Script
  <1>5. DOMAIN s = DOMAIN vs /\ s \in Schemas
    <2>1. s \in [1..Len(vs) -> [v: Nat, c: Checksums]]
      BY <1>3, <1>4
    <2> QED
      BY <1>3, <2>1 DEF Schemas
  <1>6. InOrderOf(f) = s
    BY DEF InOrderOf, vs
  <1> HIDE DEF s
  <1>7. Ordered(s)
    BY <1>2, <1>4, <1>5 DEF Ordered
  <1>8. {s[i].v : i \in DOMAIN s} = DOMAIN f
    <2>1. {s[i].v : i \in DOMAIN s} = {vs[i] : i \in DOMAIN vs}
      BY <1>4, <1>5
    <2> QED
      BY <1>2, <2>1 DEF ToSet
  <1> QED
    BY <1>5, <1>6, <1>7, <1>8

LEMMA MigInitInv == MigInit => SchemaInv
  <1> SUFFICES ASSUME MigInit PROVE SchemaInv
    OBVIOUS
  <1>1. /\ dbHistory = NoTable /\ advisory = NoRunner /\ runner = [r \in Runners |-> NoCommand]
        /\ commands = 0 /\ cuts = 0 /\ misled = FALSE /\ HistoryRows = <<>>
        /\ dbSchema = <<>> \/ \E f \in ByHand : dbSchema = InOrderOf(f)
    BY DEF MigInit, HistoryRows
  <1>2. dbSchema \in Schemas /\ Ordered(dbSchema)
    <2>1. <<>> \in Schemas /\ Ordered(<<>>)
      BY DEF Schemas, Ordered
    <2> QED
      BY <1>1, <2>1, ByHandIs
  <1>3. RowsOrByHand
    <2>1. CASE dbSchema = <<>>
      BY <2>1 DEF RowsOrByHand
    <2>2. CASE \E f \in ByHand : dbSchema = InOrderOf(f)
      <3>1. PICK f \in ByHand : dbSchema = InOrderOf(f)
        BY <2>2
      <3>2. {dbSchema[i].v : i \in DOMAIN dbSchema} = DOMAIN f
        BY <3>1, ByHandIs
      <3>3. \A x \in DOMAIN f : HasScript(x)
        BY <3>2 DEF HasScript
      <3>4. \A b \in Binaries : \A w \in DOMAIN f, v \in DOMAIN b : v < w => v \in DOMAIN f
        BY MigrationsAssumption
      <3>5. \A i \in DOMAIN dbSchema : dbSchema[i].v \in DOMAIN f
        BY <3>2
      <3>6. dbSchema = <<>> \/ HasScript(1)
        <4> SUFFICES ASSUME dbSchema # <<>> PROVE HasScript(1)
          OBVIOUS
        <4>1. 1 \in DOMAIN dbSchema
          <5>1. DOMAIN dbSchema = 1..Len(dbSchema) /\ Len(dbSchema) \in Nat /\ Len(dbSchema) # 0
            BY <1>2, LenProperties, EmptySeq DEF Schemas
          <5> QED
            BY <5>1
        <4>2. PICK w \in DOMAIN f : w = dbSchema[1].v
          BY <3>5, <4>1
        <4>3. w \in Nat /\ w >= 1
          BY BinaryIs
        <4>4. PICK b \in Binaries : 1 \in DOMAIN b
          BY MigrationsAssumption
        <4>5. 1 \in DOMAIN f
          BY <3>4, <4>3, <4>4
        <4> QED
          BY <3>3, <4>5
      <3> QED
        BY <3>3, <3>4, <3>5, <3>6 DEF RowsOrByHand
    <2> QED
      BY <1>1, <2>1, <2>2
  <1>4. \A r \in Runners : runner[r] = NoCommand
    BY <1>1
  <1>5. NoCommand.pc = "idle" /\ PlanStands(NoCommand)
    BY DEF NoCommand, PlanStands
  <1>6. OneAtATime /\ ReadyOnOwnSchema
    BY <1>1, <1>4, <1>5, MigrationsAssumption DEF OneAtATime, ReadyOnOwnSchema, HeldPcs
  <1>7. RunnersTypeOK
    <2>1. MaxCommands \in Nat /\ MaxCuts \in Nat
      BY MigrationsAssumption
    <2>2. dbSchema \in [1..Len(dbSchema) -> [v: Nat, c: Checksums]] /\ DOMAIN dbSchema = 1..Len(dbSchema)
      BY <1>2, LenProperties DEF Schemas
    <2>3. \A s \in ToSet(dbSchema) : s.v \in Nat
      BY <2>2 DEF ToSet
    <2>4. 0 \in 0..MaxCommands /\ 0 \in 0..MaxCuts
      BY <2>1
    <2>5. MigTypeOK
      BY <1>1, <1>4, <1>5, <2>3, <2>4 DEF MigTypeOK
    <2> QED
      BY <1>1, <1>2, <2>5 DEF RunnersTypeOK, Schemas
  <1>8. ScriptsInOrder /\ HistoryTrue
    BY <1>1, <1>2 DEF ScriptsInOrder, Ordered, HistoryTrue
  <1> QED
    BY <1>3, <1>4, <1>5, <1>6, <1>7, <1>8 DEF SchemaInv

LEMMA MigStutter == SchemaInv /\ UNCHANGED mvars => SchemaInv'
  <1> SUFFICES ASSUME SchemaInv, UNCHANGED mvars PROVE SchemaInv'
    OBVIOUS
  <1>1. UNCHANGED <<dbSchema, dbHistory, advisory, runner, commands, cuts, misled>>
    BY DEF mvars
  <1>2. \A r \in Runners : PlanStands(runner[r])'
    BY <1>1 DEF SchemaInv, PlanStands, PlanAccepts, Pending, HistoryRows, HasScript
  <1> QED
    BY <1>1, <1>2 DEF SchemaInv, RunnersTypeOK, MigTypeOK, OneAtATime, ScriptsInOrder, HistoryTrue, RowsOrByHand,
       ReadyOnOwnSchema, HistoryRows, HasScript

LEMMA MigNextInv == SchemaInv /\ MigNext => SchemaInv'
  <1> SUFFICES ASSUME SchemaInv, MigNext PROVE SchemaInv'
    OBVIOUS
  <1>1. ASSUME NEW r \in Runners, NEW b \in Binaries, NEW op \in {"up", "require", "status"}, Command(r, op, b, 0)
        PROVE  SchemaInv'
    BY <1>1, BeginInv
  <1>2. ASSUME NEW r \in Runners, NEW b \in Binaries, NEW v \in 1..3, Command(r, "baseline", b, v)
        PROVE  SchemaInv'
    <2>1. v \in Nat
      OBVIOUS
    <2> QED
      BY <1>2, <2>1, BeginInv
  <1>3. ASSUME NEW r \in Runners,
               \/ Lock(r) \/ Plan(r) \/ PlanBaseline(r) \/ EnsureHistoryTable(r) \/ RunScript(r) \/ CommitScript(r)
               \/ Mark(r) \/ Release(r) \/ StatementFails(r) \/ Cut(r)
        PROVE  SchemaInv'
    BY <1>3, LockInv, PlanInv, PlanBaselineInv, EnsureInv, RunScriptInv, CommitScriptInv, MarkInv, LeaveInv, FailsInv
  <1> QED
    BY <1>1, <1>2, <1>3 DEF MigNext

\* Whatever binaries start together, and wherever they are cut (migrate.go:
\* lock, Up, RequireUpToDate, Baseline, apply), the history is true of the
\* schema, scripts run once and in order, and who serves has its own schema.
THEOREM SchemaIsTrusted == MigSpec => []SchemaTrusted
  <1>1. SchemaInv /\ [MigNext]_mvars => SchemaInv'
    BY MigNextInv, MigStutter
  <1>2. SchemaInv => SchemaTrusted
    BY DEF SchemaInv, RunnersTypeOK, SchemaTrusted
  <1> QED
    BY <1>1, <1>2, MigInitInv, PTL DEF MigSpec

-----------------------------------------------------------------------------
(* The presence of a host                                                  *)

\* The first outage, up to the return of the agent.
FirstOutage == hfaults = 0 /\ (outages = 0 \/ (outages = 1 /\ ~alive))

\* Until the silence is longer than Grace nothing has happened; from then on
\* no report is in progress, and who marked the host offline raises the alert.
OutageUnfolds ==
    /\ silence <= Grace => /\ state = "online" /\ alert = 0 /\ raised = 0
                           /\ \A m \in Monitors : hpc[m] = "idle"
    /\ silence > Grace => \A i \in Ingests : hpc[i] = "idle"
    /\ \A i \in Ingests : hpc[i] \in {"idle", "online", "load"}
    /\ raised <= 1 /\ (alert = 0 => raised = 0)
    /\ state = "offline" => alert # 0 \/ \E m \in Monitors : hpc[m] \in {"check", "raise"}
    /\ alive => silence <= 1

PresenceInv ==
    /\ PresenceTypeOK
    /\ outages = 0 => alive
    /\ FirstOutage => OutageUnfolds

LEMMA PresenceInitInv == PresenceInit => PresenceInv
  BY PresenceAssumption DEF PresenceInit, PresenceInv, PresenceTypeOK, FirstOutage, OutageUnfolds, Procs

LEMMA PresenceTypes == PresenceInv /\ [PresenceNext]_presvars => PresenceTypeOK' /\ (outages' = 0 => alive')
  <1> SUFFICES ASSUME PresenceInv, [PresenceNext]_presvars PROVE PresenceTypeOK' /\ (outages' = 0 => alive')
    OBVIOUS
  <1> USE PresenceAssumption DEF PresenceInv, PresenceTypeOK, HGoto, HFaulty, Procs
  <1>1. ASSUME NEW i \in Ingests, Receive(i) PROVE PresenceTypeOK' /\ (outages' = 0 => alive')
    BY <1>1 DEF Receive
  <1>2. ASSUME NEW i \in Ingests, MarkOnline(i) PROVE PresenceTypeOK' /\ (outages' = 0 => alive')
    BY <1>2 DEF MarkOnline
  <1>3. ASSUME NEW i \in Ingests, LoadAlert(i) PROVE PresenceTypeOK' /\ (outages' = 0 => alive')
    BY <1>3 DEF LoadAlert
  <1>4. ASSUME NEW i \in Ingests, ResolveOffline(i) PROVE PresenceTypeOK' /\ (outages' = 0 => alive')
    BY <1>4 DEF ResolveOffline
  <1>5. ASSUME NEW m \in Monitors, ListStale(m) PROVE PresenceTypeOK' /\ (outages' = 0 => alive')
    BY <1>5 DEF ListStale
  <1>6. ASSUME NEW m \in Monitors, MarkOffline(m) PROVE PresenceTypeOK' /\ (outages' = 0 => alive')
    BY <1>6 DEF MarkOffline
  <1>7. ASSUME NEW m \in Monitors, CheckActive(m) PROVE PresenceTypeOK' /\ (outages' = 0 => alive')
    BY <1>7 DEF CheckActive
  <1>8. ASSUME NEW m \in Monitors, RaiseOffline(m) PROVE PresenceTypeOK' /\ (outages' = 0 => alive')
    BY <1>8 DEF RaiseOffline
  <1>9. ASSUME NEW p \in Ingests \cup Monitors, HAbandon(p) PROVE PresenceTypeOK' /\ (outages' = 0 => alive')
    BY <1>9 DEF HAbandon
  <1>10. CASE AgentStops
    <2>1. outages' \in 0..MaxOutages /\ outages' # 0
      BY <1>10 DEF AgentStops
    <2> QED
      BY <1>10, <2>1 DEF AgentStops
  <1>11. CASE AgentReturns
    <2>1. outages # 0
      BY <1>11 DEF AgentReturns
    <2> QED
      BY <1>11, <2>1 DEF AgentReturns
  <1>12. CASE HTick
    BY <1>12 DEF HTick
  <1>13. CASE UNCHANGED presvars
    BY <1>13 DEF presvars
  <1> QED
    BY <1>1, <1>2, <1>3, <1>4, <1>5, <1>6, <1>7, <1>8, <1>9, <1>10, <1>11, <1>12, <1>13 DEF PresenceNext, IngestStep, MonitorStep

LEMMA OutageStep == PresenceInv /\ [PresenceNext]_presvars => (FirstOutage' => OutageUnfolds')
  <1> SUFFICES ASSUME PresenceInv, [PresenceNext]_presvars, FirstOutage' PROVE OutageUnfolds'
    OBVIOUS
  <1>0. /\ silence \in Nat /\ Grace \in Nat /\ Grace > 0 /\ raised \in Nat /\ alert \in 0..raised
        /\ outages \in Nat /\ hfaults \in Nat /\ Ingests \cap Monitors = {}
        /\ hpc \in [Ingests \cup Monitors -> {"idle", "online", "load", "resolve", "offline", "check", "raise"}]
        /\ outages = 0 => alive
    BY PresenceAssumption DEF PresenceInv, PresenceTypeOK, Procs
  <1>1. ASSUME FirstOutage PROVE OutageUnfolds
    BY <1>1 DEF PresenceInv
  <1> USE DEF FirstOutage, OutageUnfolds, HGoto, HFaulty
  <1>2. ASSUME NEW i \in Ingests, Receive(i) PROVE OutageUnfolds'
    BY <1>0, <1>1, <1>2 DEF Receive
  <1>3. ASSUME NEW i \in Ingests, MarkOnline(i) PROVE OutageUnfolds'
    BY <1>0, <1>1, <1>3 DEF MarkOnline
  <1>4. ASSUME NEW i \in Ingests, LoadAlert(i) PROVE OutageUnfolds'
    BY <1>0, <1>1, <1>4 DEF LoadAlert
  <1>5. ASSUME NEW i \in Ingests, ResolveOffline(i) PROVE FALSE
    BY <1>0, <1>1, <1>5 DEF ResolveOffline
  <1>6. ASSUME NEW m \in Monitors, ListStale(m) PROVE OutageUnfolds'
    BY <1>0, <1>1, <1>6 DEF ListStale
  <1>7. ASSUME NEW m \in Monitors, MarkOffline(m) PROVE OutageUnfolds'
    BY <1>0, <1>1, <1>7 DEF MarkOffline
  <1>8. ASSUME NEW m \in Monitors, CheckActive(m) PROVE OutageUnfolds'
    BY <1>0, <1>1, <1>8 DEF CheckActive
  <1>9. ASSUME NEW m \in Monitors, RaiseOffline(m) PROVE OutageUnfolds'
    BY <1>0, <1>1, <1>9 DEF RaiseOffline
  <1>10. ASSUME NEW p \in Procs, HAbandon(p) PROVE FALSE
    BY <1>0, <1>10 DEF HAbandon
  <1>11. CASE AgentStops
    BY <1>0, <1>1, <1>11 DEF AgentStops
  <1>12. CASE AgentReturns
    BY <1>0, <1>12 DEF AgentReturns
  <1>13. CASE HTick
    BY <1>0, <1>1, <1>13 DEF HTick
  <1>14. CASE UNCHANGED presvars
    BY <1>1, <1>14 DEF presvars
  <1> QED
    BY <1>2, <1>3, <1>4, <1>5, <1>6, <1>7, <1>8, <1>9, <1>10, <1>11, <1>12, <1>13, <1>14 DEF PresenceNext, IngestStep, MonitorStep

\* Of the first outage of a host, while no statement fails: no alert of a host
\* that reports, one at most however many monitors see the silence, and none
\* for an offline host only while a monitor is about to raise it - for any
\* number of reports in progress, monitors and any grace (monitor.go check,
\* engine.go RaiseOffline, EvaluateReport).
THEOREM FirstOutageStands == PresenceSpec => []FirstOutageKept
  <1>1. PresenceInv /\ [PresenceNext]_presvars => PresenceInv'
    BY PresenceTypes, OutageStep DEF PresenceInv
  <1>2. PresenceInv => FirstOutageKept
    <2> SUFFICES ASSUME PresenceInv, FirstOutage PROVE FirstOutageKept
      BY DEF FirstOutageKept, FirstOutage
    <2>1. OutageUnfolds /\ silence \in Nat /\ Grace \in Nat /\ Grace > 0
      BY PresenceAssumption DEF PresenceInv, PresenceTypeOK
    <2> QED
      BY <2>1 DEF OutageUnfolds, FirstOutageKept
  <1> QED
    BY <1>1, <1>2, PresenceInitInv, PTL DEF PresenceSpec

=============================================================================
