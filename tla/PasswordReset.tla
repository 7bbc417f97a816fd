---------------------------- MODULE PasswordReset ---------------------------
(***************************************************************************)
(* Reset by e-mail of one account's password: the links                    *)
(* (store/password_resets.go), the requests that ask for one and spend one *)
(* (httpapi/password_reset_handlers.go), and the queued mails that carry   *)
(* them (the rows of kind password_reset in the outbox, whose delivery is  *)
(* Outbox).  Issue is a transaction of two statements under READ           *)
(* COMMITTED: its DELETE sees the links committed when it starts and       *)
(* nothing of a concurrent Issue.                                          *)
(***************************************************************************)
EXTENDS Naturals, FiniteSets

CONSTANTS
    PReqs,       \* requests in progress
    Links,       \* reset tokens
    NoLink,
    MaxPFaults   \* bound on failed statements

ASSUME ResetAssumption == Links \subseteq Nat /\ NoLink \notin Links /\ MaxPFaults \in Nat

VARIABLES
    row,         \* password_reset_tokens: none, open, used
    lapsed,      \* links past passwordResetTTL
    mail,        \* the mail of each link: none, pending, closed, sent
    changes,     \* how often each link has changed the password
    preq,        \* the requests: where they stand, their link, what DELETE saw
    overlap,     \* two of them were in progress at once
    pfaults

pvars == <<row, lapsed, mail, changes, preq, overlap, pfaults>>

PRequest ==
    [pc: {"idle", "delete", "insert", "supersede", "enqueue", "spent", "announce"},
     link: Links \cup {NoLink}, seen: SUBSET Links]

ResetTypeOK ==
    /\ row \in [Links -> {"none", "open", "used"}]
    /\ lapsed \subseteq Links
    /\ mail \in [Links -> {"none", "pending", "closed", "sent"}]
    /\ changes \in [Links -> Nat]
    /\ preq \in [PReqs -> PRequest]
    /\ overlap \in BOOLEAN /\ pfaults \in 0..MaxPFaults

-----------------------------------------------------------------------------
PIdle == [pc |-> "idle", link |-> NoLink, seen |-> {}]

ResetInit ==
    /\ row = [l \in Links |-> "none"] /\ lapsed = {}
    /\ mail = [l \in Links |-> "none"]
    /\ changes = [l \in Links |-> 0]
    /\ preq = [r \in PReqs |-> PIdle]
    /\ overlap = FALSE /\ pfaults = 0

PGoto(r, label) == preq' = [preq EXCEPT ![r].pc = label]

PFault == pfaults < MaxPFaults /\ pfaults' = pfaults + 1

\* A request begins; overlap remembers whether another one was under way.
Enter(r, q) ==
    /\ preq[r].pc = "idle"
    /\ preq' = [preq EXCEPT ![r] = q]
    /\ overlap' = (overlap \/ \E o \in PReqs \ {r} : preq[o].pc # "idle")

\* A link that Complete would accept.
Valid(l) == row[l] = "open" /\ l \notin lapsed

\* New links: no row, no mail and no request knows them.  The least is taken,
\* since they differ in nothing else.
Unused ==
    {l \in Links : row[l] = "none" /\ mail[l] = "none" /\ l \notin lapsed /\ \A o \in PReqs : preq[o].link # l}

\* handleForgotPassword up to newResetToken: the limits let it pass, the
\* feature is on (passwordResetEnabled), the address belongs to the account;
\* otherwise the answer is the same and nothing happens.
Forgot(r, l) ==
    /\ l \in Unused /\ \A k \in Unused : l <= k
    /\ Enter(r, [pc |-> "delete", link |-> l, seen |-> {}])
    /\ UNCHANGED <<row, lapsed, mail, changes, pfaults>>

\* Issue: DELETE ... WHERE user_id = $1 AND used_at IS NULL
IssueDelete(r) ==
    /\ preq[r].pc = "delete"
    /\ preq' = [preq EXCEPT ![r].pc = "insert", ![r].seen = {l \in Links : row[l] = "open"}]
    /\ UNCHANGED <<row, lapsed, mail, changes, overlap, pfaults>>

\* (mutant) the older links are left alone
IssueKeepsOld(r) ==
    /\ preq[r].pc = "insert"
    /\ row' = [row EXCEPT ![preq[r].link] = "open"]
    /\ PGoto(r, "supersede")
    /\ UNCHANGED <<lapsed, mail, changes, overlap, pfaults>>

\* Issue: INSERT and commit; a link spent meanwhile is not deleted any more.
IssueCommit(r) ==
    /\ preq[r].pc = "insert"
    /\ row' = [l \in Links |->
                 IF l = preq[r].link THEN "open"
                 ELSE IF l \in preq[r].seen /\ row[l] = "open" THEN "none" ELSE row[l]]
    /\ PGoto(r, "supersede")
    /\ UNCHANGED <<lapsed, mail, changes, overlap, pfaults>>

\* Issue fails: nothing is stored and the answer is the same.
IssueFails(r) ==
    /\ preq[r].pc \in {"delete", "insert"} /\ PFault
    /\ preq' = [preq EXCEPT ![r] = PIdle]
    /\ UNCHANGED <<row, lapsed, mail, changes, overlap>>

\* Supersede: every mail of the kind that waits for this address is closed.
CloseMails == [l \in Links |-> IF mail[l] = "pending" THEN "closed" ELSE mail[l]]

\* Supersede in either handler; a failure is logged and the handler goes on.
SupersedeMails(r) ==
    /\ preq[r].pc \in {"supersede", "spent"}
    /\ \/ mail' = CloseMails /\ UNCHANGED pfaults
       \/ PFault /\ UNCHANGED mail
    /\ PGoto(r, IF preq[r].pc = "supersede" THEN "enqueue" ELSE "announce")
    /\ UNCHANGED <<row, lapsed, changes, overlap>>

\* queueMail of the new link; a failure is logged, the answer is the same.
QueueLink(r) ==
    /\ preq[r].pc = "enqueue"
    /\ \/ mail' = [mail EXCEPT ![preq[r].link] = "pending"] /\ UNCHANGED pfaults
       \/ PFault /\ UNCHANGED mail
    /\ preq' = [preq EXCEPT ![r] = PIdle]
    /\ UNCHANGED <<row, lapsed, changes, overlap>>

\* handleResetPassword: the new password passed the policy; Complete spends
\* the link, stores the password and revokes the sessions (Sessions) in one
\* transaction.  An unknown, used or lapsed link changes nothing.
Complete(r, l) ==
    /\ Valid(l)
    /\ Enter(r, [pc |-> "spent", link |-> l, seen |-> {}])
    /\ row' = [row EXCEPT ![l] = "used"]
    /\ changes' = [changes EXCEPT ![l] = @ + 1]
    /\ UNCHANGED <<lapsed, mail, pfaults>>

\* handleResetPassword: the password_changed mail, which is no link's; a
\* failure to queue it is logged and the answer is the same.
Announce(r) ==
    /\ preq[r].pc = "announce"
    /\ preq' = [preq EXCEPT ![r] = PIdle]
    /\ UNCHANGED <<row, lapsed, mail, changes, overlap, pfaults>>

\* The mail worker delivers a mail whose link has not lapsed, or closes it.
DeliverMail(l) ==
    /\ mail[l] = "pending"
    /\ mail' = [mail EXCEPT ![l] = IF l \in lapsed THEN "closed" ELSE "sent"]
    /\ UNCHANGED <<row, lapsed, changes, preq, overlap, pfaults>>

\* passwordResetTTL is over.
Lapse(l) ==
    /\ row[l] # "none" /\ l \notin lapsed
    /\ lapsed' = lapsed \cup {l}
    /\ UNCHANGED <<row, mail, changes, preq, overlap, pfaults>>

\* PurgeExpired
PurgeLinks ==
    /\ \E l \in lapsed : row[l] # "none"
    /\ row' = [l \in Links |-> IF l \in lapsed THEN "none" ELSE row[l]]
    /\ UNCHANGED <<lapsed, mail, changes, preq, overlap, pfaults>>

ResetNext ==
    \/ \E r \in PReqs :
         \/ IssueDelete(r) \/ IssueCommit(r) \/ IssueFails(r)
         \/ SupersedeMails(r) \/ QueueLink(r) \/ Announce(r)
    \/ \E r \in PReqs, l \in Links : Forgot(r, l) \/ Complete(r, l)
    \/ \E l \in Links : DeliverMail(l) \/ Lapse(l)
    \/ PurgeLinks

ResetSpec == ResetInit /\ [][ResetNext]_pvars

-----------------------------------------------------------------------------
(* Properties                                                              *)

\* The comment of Issue: only the link that was sent last works.
OneValidLink == Cardinality({l \in Links : Valid(l)}) <= 1

\* Requests that come one after the other leave at most one valid link, and
\* the mail that waits to be sent, if any, carries that link or a lapsed
\* one: Issue, Supersede and the queue agree on which link is the last.
SerialResetsAgree ==
    ~overlap =>
        /\ OneValidLink
        /\ pfaults = 0 /\ (\A r \in PReqs : preq[r].pc = "idle") =>
             \A l \in Links : mail[l] = "pending" => Valid(l) \/ l \in lapsed

\* A link changes the password once, however many requests present it.
LinkSpentOnce == \A l \in Links : changes[l] <= 1

\* The link that is valid and the mail that is queued agree on which request
\* was the last, and a link is spent once (password_resets.go Issue and
\* Complete, password_reset_handlers.go).
LinksHold == ResetTypeOK /\ SerialResetsAgree /\ LinkSpentOnce
=============================================================================
