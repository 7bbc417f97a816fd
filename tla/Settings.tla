------------------------------ MODULE Settings ------------------------------
(***************************************************************************)
(* Runtime settings and notification channels (internal/settings,          *)
(* store/settings.go, store/notification_channels.go, settings_handlers.go)*)
(* A service keeps a copy of its rows in memory, read without a lock, and  *)
(* a mutex puts the changes in order: validate the merged result, write    *)
(* the row, replace the copy, tell the subscribers.  Testing a channel     *)
(* reads the copy, sends a message for as long as that takes, and marks    *)
(* the channel verified.  A write may fail, or succeed with its answer     *)
(* lost; the server may be restarted, with another encryption key too.     *)
(*                                                                         *)
(* Four settings with the two rules between fields; one channel, its       *)
(* config a value or empty (host and sender together), its secret a value. *)
(***************************************************************************)
EXTENDS Integers, FiniteSets

CONSTANTS
    CReqs,       \* requests under way
    NoHolder,    \* the mutex is free
    Untouched,   \* in a request: not given
    Configs,     \* channel configurations
    Secrets,     \* secrets
    Empty,       \* no config, no secret, no version
    DefaultSet,  \* the column defaults
    MaxChanges,  \* bound: requests
    MaxLost      \* bound: failed writes and restarts

ASSUME SettingsAssumption == MaxChanges \in Nat /\ MaxLost \in Nat /\ NoHolder \notin CReqs

VARIABLES
    setRow, setMem,  \* app_settings; Service.cur
    told,            \* what the subscribers were told last
    chRow, chMem,    \* notification_channels; Channels.cur
    mailer,          \* the mailer's configuration
    keyNow,          \* the encryption key of the process
    mutex,           \* the request that holds the service's mutex
    creq,            \* requests under way
    edits, lost,
    doubt,           \* was the answer of a write lost since the start ("now") or before?
    tested,          \* what messages were sent with
    overlapped       \* a change of the channel and a test of it overlapped

cvars == <<setRow, setMem, told, chRow, chMem, mailer, keyNow, mutex, creq, edits, lost, doubt, tested, overlapped>>

SetFields == {"latest", "min", "access", "refresh"}
AtRest == [pc |-> "rest"]

Begin(q) == creq[q] = AtRest /\ edits < MaxChanges /\ edits' = edits + 1

-----------------------------------------------------------------------------
(* Settings *)

\* normalize: versions or nothing, times within their ranges.
Allowed(f) == IF f \in {"latest", "min"} THEN {Empty, 1, 2} ELSE IF f = "access" THEN {1, 2} ELSE {2, 3}

TimesRule(s) == s["refresh"] > s["access"]
VersionsRule(s) == (s["latest"] # Empty /\ s["min"] # Empty) => s["min"] <= s["latest"]

\* validateAll, on the result the change would lead to.
ValidateAll(s) == TimesRule(s) /\ VersionsRule(s)

ASSUME DefaultsAssumption ==
    /\ DefaultSet = [f \in SetFields |-> DefaultSet[f]]
    /\ \A f \in SetFields : DefaultSet[f] \in Allowed(f)
    /\ ValidateAll(DefaultSet)

\* Set and Reset: the given fields, or the given fields' defaults.
MergedSet(base, given) == [f \in SetFields |-> IF f \in DOMAIN given THEN given[f] ELSE base[f]]

\* Service.apply up to the store: under the mutex, against the copy; only
\* the fields that differ from it are written.
Apply(q, given) ==
    /\ Begin(q) /\ mutex = NoHolder
    /\ \E f \in DOMAIN given : given[f] # setMem[f]
    /\ ValidateAll(MergedSet(setMem, given))
    /\ mutex' = q
    /\ creq' = [creq EXCEPT ![q] =
          [pc |-> "write", given |-> [f \in {x \in DOMAIN given : given[x] # setMem[x]} |-> given[f]]]]
    /\ UNCHANGED <<setRow, setMem, told, chRow, chMem, mailer, keyNow, lost, doubt, tested, overlapped>>

\* Settings.Apply: one transaction; of the rules between fields the table
\* checks that of the times (app_settings_refresh_token_ttl_chk).
WriteRow(q) ==
    /\ creq[q].pc = "write"
    /\ IF TimesRule(MergedSet(setRow, creq[q].given))
       THEN /\ setRow' = MergedSet(setRow, creq[q].given)
            /\ creq' = [creq EXCEPT ![q] = [pc |-> "store", new |-> MergedSet(setRow, creq[q].given)]]
            /\ UNCHANGED mutex
       ELSE /\ creq' = [creq EXCEPT ![q] = AtRest]
            /\ mutex' = IF mutex = q THEN NoHolder ELSE mutex
            /\ UNCHANGED setRow
    /\ UNCHANGED <<setMem, told, chRow, chMem, mailer, keyNow, edits, lost, doubt, tested, overlapped>>

\* (mutant) the mutex is released before the subscribers are called
StoreUnlocks(q) ==
    /\ creq[q].pc = "store"
    /\ setMem' = creq[q].new
    /\ mutex' = NoHolder
    /\ creq' = [creq EXCEPT ![q].pc = "tell"]
    /\ UNCHANGED <<setRow, told, chRow, chMem, mailer, keyNow, edits, lost, doubt, tested, overlapped>>

\* The copy is replaced: readers see the change before the subscribers do.
Store(q) ==
    /\ creq[q].pc = "store"
    /\ setMem' = creq[q].new
    /\ creq' = [creq EXCEPT ![q].pc = "tell"]
    /\ UNCHANGED <<setRow, told, chRow, chMem, mailer, keyNow, mutex, edits, lost, doubt, tested, overlapped>>

\* The subscribers (main.go: limits, log level, retention, time zone).
Tell(q) ==
    /\ creq[q].pc = "tell"
    /\ told' = creq[q].new
    /\ mutex' = IF mutex = q THEN NoHolder ELSE mutex
    /\ creq' = [creq EXCEPT ![q] = AtRest]
    /\ UNCHANGED <<setRow, setMem, chRow, chMem, mailer, keyNow, edits, lost, doubt, tested, overlapped>>

-----------------------------------------------------------------------------
(* The channel *)

\* scan: the row as it is read with a key; a secret of another key is there
\* but cannot be read.
Scan(row, key) ==
    [on |-> row.on, config |-> row.config, verified |-> row.verified,
     secret |-> IF row.secret = Empty \/ row.key # key THEN Empty ELSE row.secret,
     unreadable |-> row.secret # Empty /\ row.key # key]

ChannelReady(ch) == ~ch.unreadable /\ ch.config # Empty

MailerConfig(ch) ==
    IF ~ch.on THEN [host |-> Empty, password |-> Empty, blocked |-> FALSE]
    ELSE [host |-> ch.config, password |-> ch.secret, blocked |-> ch.unreadable]

Patched(ch, on, config, secret) ==
    [ch EXCEPT !.on = IF on = Untouched THEN @ ELSE on, !.config = IF config = Untouched THEN @ ELSE config,
               !.secret = IF secret = Untouched THEN @ ELSE secret, !.unreadable = IF secret = Untouched THEN @ ELSE FALSE]

\* Channels.Update up to Save: something given, ready if it will be on, and
\* a change.
UpdateChannel(q, on, config, secret) ==
    /\ Begin(q) /\ mutex = NoHolder
    /\ LET next == Patched(chMem, on, config, secret)
       IN  /\ next.on => ChannelReady(next)
           /\ next # chMem
           /\ creq' = [creq EXCEPT ![q] = [pc |-> "save", next |-> next, secret |-> secret]]
    /\ mutex' = q
    /\ UNCHANGED <<setRow, setMem, told, chRow, chMem, mailer, keyNow, lost, doubt, tested, overlapped>>

\* Save's statement.
Saved(row, next, secret) ==
    [on |-> next.on, config |-> next.config,
     secret |-> IF secret = Untouched THEN row.secret ELSE secret,
     key |-> IF secret = Untouched THEN row.key ELSE keyNow,
     verified |-> row.verified /\ secret = Untouched /\ row.config = next.config]

SaveChannel(q) ==
    /\ creq[q].pc = "save"
    /\ chRow' = Saved(chRow, creq[q].next, creq[q].secret)
    /\ creq' = [creq EXCEPT ![q] = [pc |-> "remember", ch |-> Scan(chRow', keyNow)]]
    /\ overlapped' = (overlapped \/ \E p \in CReqs : creq[p].pc \in {"test", "mark"})
    /\ UNCHANGED <<setRow, setMem, told, chMem, mailer, keyNow, mutex, edits, lost, doubt, tested>>

\* remember and the subscriber (followEmailChannel).
Remember(q) ==
    /\ creq[q].pc = "remember"
    /\ chMem' = creq[q].ch
    /\ mailer' = MailerConfig(creq[q].ch)
    /\ mutex' = NoHolder
    /\ creq' = [creq EXCEPT ![q] = AtRest]
    /\ UNCHANGED <<setRow, setMem, told, chRow, keyNow, edits, lost, doubt, tested, overlapped>>

\* Channels.Test: the copy as it is now, without the mutex.
TestChannel(q) ==
    /\ Begin(q) /\ ChannelReady(chMem)
    /\ creq' = [creq EXCEPT ![q] = [pc |-> "test", config |-> chMem.config, secret |-> chMem.secret]]
    /\ overlapped' = (overlapped \/ \E p \in CReqs : creq[p].pc = "remember")
    /\ UNCHANGED <<setRow, setMem, told, chRow, chMem, mailer, keyNow, mutex, lost, doubt, tested>>

\* SendWith is over: the message was sent or not.
TestSent(q) ==
    /\ creq[q].pc = "test"
    /\ \/ /\ tested' = tested \cup {<<creq[q].config, creq[q].secret>>}
          /\ creq' = [creq EXCEPT ![q].pc = "mark"]
       \/ creq' = [creq EXCEPT ![q] = AtRest] /\ UNCHANGED tested
    /\ UNCHANGED <<setRow, setMem, told, chRow, chMem, mailer, keyNow, mutex, edits, lost, doubt, overlapped>>

\* MarkVerified and remember, under the mutex; no subscriber is called.
MarkVerified(q) ==
    /\ creq[q].pc = "mark" /\ mutex = NoHolder
    /\ chRow' = [chRow EXCEPT !.verified = TRUE]
    /\ chMem' = Scan(chRow', keyNow)
    /\ creq' = [creq EXCEPT ![q] = AtRest]
    /\ UNCHANGED <<setRow, setMem, told, mailer, keyNow, mutex, edits, lost, doubt, tested, overlapped>>

-----------------------------------------------------------------------------
(* Failures *)

\* A write fails, or only its answer is lost: the copy stays as it was.
WriteFails(q) ==
    /\ creq[q].pc \in {"write", "store", "save", "remember", "mark"} /\ lost < MaxLost
    /\ lost' = lost + 1
    /\ creq[q].pc = "mark" => mutex = NoHolder
    /\ chRow' \in IF creq[q].pc = "mark" THEN {chRow, [chRow EXCEPT !.verified = TRUE]} ELSE {chRow}
    /\ doubt' = IF creq[q].pc \in {"store", "remember"} \/ chRow' # chRow THEN "now" ELSE doubt
    /\ mutex' = NoHolder
    /\ creq' = [creq EXCEPT ![q] = AtRest]
    /\ UNCHANGED <<setRow, setMem, told, chMem, mailer, keyNow, edits, tested, overlapped>>

\* New and NewChannels: the copies are read from the database again.
RestartServer ==
    /\ lost < MaxLost /\ lost' = lost + 1
    /\ keyNow' \in {1, 2}
    /\ setMem' = setRow /\ told' = setRow
    /\ chMem' = Scan(chRow, keyNow') /\ mailer' = MailerConfig(chMem')
    /\ mutex' = NoHolder /\ doubt' = IF doubt = "now" THEN "past" ELSE doubt
    /\ creq' = [q \in CReqs |-> AtRest]
    /\ UNCHANGED <<setRow, chRow, edits, tested, overlapped>>

FirstRow == [on |-> FALSE, config |-> Empty, secret |-> Empty, key |-> 1, verified |-> FALSE]

SetInit ==
    /\ setRow = DefaultSet /\ setMem = DefaultSet /\ told = DefaultSet
    /\ chRow = FirstRow /\ chMem = Scan(FirstRow, 1) /\ mailer = MailerConfig(chMem)
    /\ keyNow = 1 /\ mutex = NoHolder
    /\ creq = [q \in CReqs |-> AtRest]
    /\ edits = 0 /\ lost = 0 /\ doubt = "none" /\ tested = {} /\ overlapped = FALSE

ServiceNext ==
    \/ \E q \in CReqs :
          \/ \E f \in SetFields : \E v \in Allowed(f) : Apply(q, [x \in {f} |-> v])
          \/ \E f, g \in SetFields : Apply(q, [x \in {f, g} |-> DefaultSet[x]])
          \/ WriteRow(q) \/ Store(q) \/ Tell(q) \/ WriteFails(q)
    \/ RestartServer

ChannelNext ==
    \/ \E q \in CReqs :
          \/ \E on \in BOOLEAN \cup {Untouched}, config \in Configs \cup {Empty, Untouched}, secret \in Secrets \cup {Empty, Untouched} :
                UpdateChannel(q, on, config, secret)
          \/ SaveChannel(q) \/ Remember(q) \/ TestChannel(q) \/ TestSent(q) \/ MarkVerified(q) \/ WriteFails(q)
    \/ RestartServer

ServiceSpec == SetInit /\ [][ServiceNext]_cvars
ChannelSpec == SetInit /\ [][ChannelNext]_cvars

SetTypeOK ==
    /\ \A f \in SetFields : setRow[f] \in Allowed(f) /\ setMem[f] \in Allowed(f)
    /\ mutex \in CReqs \cup {NoHolder}
    /\ edits \in 0..MaxChanges /\ lost \in 0..MaxLost /\ keyNow \in {1, 2}

-----------------------------------------------------------------------------
(* Properties *)

Quiet == \A q \in CReqs : creq[q].pc \in {"rest", "test", "mark"}

\* Between two changes the copy in memory is the row, and the subscribers -
\* limits, log level, time zone, the mailer - work with it: no change is
\* told out of order.  An answer that was lost leaves the copy behind.
CopiesFollow ==
    Quiet /\ doubt # "now" =>
        /\ setMem = setRow /\ told = setRow
        /\ chMem = Scan(chRow, keyNow) /\ mailer = MailerConfig(chMem)

\* The rules between fields hold for the row, although each request gives
\* some of the fields and the database checks only one of the rules.
RowKeepsRules == TimesRule(setRow) /\ (doubt = "none" => VersionsRule(setRow))

\* A channel that is on can send, whatever the sequence of changes: its
\* config is not empty, and the mailer has the stored secret or is blocked,
\* never connecting without it after the encryption key was changed.
OnIsReady ==
    chRow.on => /\ chRow.config # Empty
                /\ Quiet /\ doubt # "now" => mailer.blocked \/ mailer.password = chRow.secret

\* A channel shown as verified was tested with the config and the secret it
\* has, unless a change and a test overlapped or an answer was lost.
VerifiedWasTested ==
    (chRow.verified /\ ~overlapped /\ doubt = "none") => <<chRow.config, chRow.secret>> \in tested

\* "records that sending with the channel's present settings has succeeded"
\* (MarkVerified, notification_channels.go).
VerifiedIsTested == chRow.verified => <<chRow.config, chRow.secret>> \in tested

\* Row, copy in memory and subscribers stay together, and keep their rules,
\* through concurrent changes and tests, lost answers, restarts and a changed
\* key (settings.go Apply; channels.go Update, Test).
SettingsHold == SetTypeOK /\ CopiesFollow /\ RowKeepsRules /\ OnIsReady /\ VerifiedWasTested
=============================================================================
