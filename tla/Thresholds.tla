----------------------------- MODULE Thresholds -----------------------------
(***************************************************************************)
(* Alert thresholds and status rules (store/thresholds.go, status_rules.go *)
(* and their handlers).  Defaults are kept per scope - the general one and *)
(* one per organization, inherited down the tree - and a host has rows of  *)
(* its own, for itself and for single subjects (a mount, a container).     *)
(* The engine resolves them in one query, the panel in several.  One       *)
(* metric and one status rule are followed: rows of different ones never   *)
(* meet.  A PATCH reads the row, validates the levels it would lead to and *)
(* updates later; a PUT of the host's rows is a transaction of one         *)
(* statement per key.                                                      *)
(***************************************************************************)
EXTENDS Integers, Sequences, FiniteSets

CONSTANTS
    TOrgs, Home,   \* organizations; that of the host
    Top,           \* no parent
    General,       \* scope of the general default
    OfHost,        \* scope of the host's own status rule
    TKeys,         \* keys of the host's rows in the order they are applied, Head: the host itself
    TReqs,         \* requests under way
    Free,          \* no request, no lock
    NoLevels,      \* no row; in a request: remove it
    Same,          \* in a request: not given
    NoDuration,    \* NULL
    MaxLevel, MaxDuration

VARIABLES
    up,      \* organizations.parent_organization_id
    defs,    \* threshold_defaults
    ruleRows,\* status_alert_rules
    own,     \* host_custom_thresholds
    locks,   \* row locks of the transactions on own
    patch,   \* PATCH and DELETE requests between their read and their write
    put,     \* transactions of the PUT requests
    lastPut  \* the last PUT committed, if it wrote every key

tvars == <<up, defs, ruleRows, own, locks, patch, put, lastPut>>

Scopes2 == TOrgs \cup {General}
Super == General   \* a caller is a super_admin or the admin of an organization
Callers == TOrgs \cup {Super}
KeySet == {TKeys[i] : i \in DOMAIN TKeys}
Levels == {lv \in (0..MaxLevel) \X (0..MaxLevel) : lv[1] <= lv[2]}
Durations == {NoDuration} \cup 1..MaxDuration

\* A PUT of the host's rows, and its transaction: what is asked for, the keys
\* it has left, the rows it has written.
Changes == UNION {[ks -> Levels \cup {NoLevels}] : ks \in SUBSET KeySet}
PutStates == [ch: Changes, left: SUBSET KeySet, buf: Changes]

ASSUME ThresholdsAssumption ==
    /\ IsFiniteSet(TOrgs) /\ Home \in TOrgs
    /\ Top \notin TOrgs /\ General \notin TOrgs /\ OfHost \notin Scopes2
    /\ MaxLevel \in Nat /\ MaxDuration \in Nat
    /\ TKeys \in Seq(KeySet) /\ Len(TKeys) > 0
    /\ \A i, j \in DOMAIN TKeys : TKeys[i] = TKeys[j] => i = j
    /\ Free \notin TReqs /\ Free \notin PutStates /\ Same \notin Int
    /\ NoLevels \notin Scopes2 /\ NoLevels \notin [lv: Levels, dur: Durations]

-----------------------------------------------------------------------------
(* The tree *)

\* orgChainCTE: the organizations from o to the root, with their depth.
OrgChain(o) ==
    LET chain[n \in 0..Cardinality(TOrgs)] ==
            IF n = 0 THEN {<<o, 0>>}
            ELSE chain[n - 1] \cup {<<up[p[1]], n>> : p \in {q \in chain[n - 1] : q[2] = n - 1 /\ up[q[1]] # Top}}
    IN  chain[Cardinality(TOrgs)]

AtOrAbove(o) == {p[1] : p \in OrgChain(o)}
Managed(caller) == IF caller = Super THEN TOrgs ELSE {o \in TOrgs : caller \in AtOrAbove(o)}
Context(caller) == IF caller = Super THEN {} ELSE AtOrAbove(caller) \ Managed(caller)
CanManageThreshold(caller, s) == caller = Super \/ s \in Managed(caller)

\* An organization is moved (module Organizations); no cycle.
MoveOrg(o, p) ==
    /\ p # up[o] /\ (p # Top => o \notin AtOrAbove(p))
    /\ up' = [up EXCEPT ![o] = p]
    /\ UNCHANGED <<defs, ruleRows, own, locks, patch, put, lastPut>>

-----------------------------------------------------------------------------
(* Defaults *)

ValidateThresholdLevels(w, c) == w >= 0 /\ c >= 0 /\ w <= c /\ c <= MaxLevel

ValidateThresholdDuration(d) == d \in {NoDuration, Same} \cup 1..MaxDuration

Create(caller, s, w, c, d) ==
    /\ CanManageThreshold(caller, s)
    /\ ValidateThresholdLevels(w, c) /\ ValidateThresholdDuration(d)
    /\ defs[s] = NoLevels                                        \* ErrThresholdExists
    /\ defs' = [defs EXCEPT ![s] = [lv |-> <<w, c>>, dur |-> d]]
    /\ UNCHANGED <<up, ruleRows, own, locks, patch, put, lastPut>>

Given(v, old) == IF v = Same THEN old ELSE v

\* The levels after the update are validated, if the request gives one.
ValidPatch(old, w, c, d) ==
    /\ (w # Same \/ c # Same) => ValidateThresholdLevels(Given(w, old.lv[1]), Given(c, old.lv[2]))
    /\ ValidateThresholdDuration(d)

\* handleUpdateThreshold: managedThreshold reads the row and checks access.
PatchRead(q, caller, s, w, c, d) ==
    /\ patch[q] = Free /\ defs[s] # NoLevels
    /\ CanManageThreshold(caller, s)
    /\ ValidPatch(defs[s], w, c, d)
    /\ patch' = [patch EXCEPT ![q] = [op |-> "update", row |-> s, w |-> w, c |-> c, d |-> d]]
    /\ UNCHANGED <<up, defs, ruleRows, own, locks, put, lastPut>>

LevelsCheck(lv) == lv[1] <= lv[2]

\* Thresholds.Update: only what the request gives is written; the row is
\* found by its id, and not written when the constraint refuses it.
PatchWrite(q) ==
    /\ patch[q] # Free /\ patch[q].op = "update"
    /\ LET s == patch[q].row
           new == [lv |-> <<Given(patch[q].w, defs[s].lv[1]), Given(patch[q].c, defs[s].lv[2])>>,
                   dur |-> Given(patch[q].d, defs[s].dur)]
       IN  defs' = IF s # NoLevels /\ LevelsCheck(new.lv) THEN [defs EXCEPT ![s] = new] ELSE defs
    /\ patch' = [patch EXCEPT ![q] = Free]
    /\ UNCHANGED <<up, ruleRows, own, locks, put, lastPut>>

\* handleDeleteThreshold
DeleteRead(q, caller, s) ==
    /\ patch[q] = Free /\ defs[s] # NoLevels
    /\ CanManageThreshold(caller, s)
    /\ patch' = [patch EXCEPT ![q] = [op |-> "delete", row |-> s]]
    /\ UNCHANGED <<up, defs, ruleRows, own, locks, put, lastPut>>

\* The row is gone: requests that hold its id find nothing any more, also
\* when another row is created for the scope.
DeleteWrite(q) ==
    /\ patch[q] # Free /\ patch[q].op = "delete"
    /\ LET s == patch[q].row
       IN  /\ defs' = IF s = NoLevels THEN defs ELSE [defs EXCEPT ![s] = NoLevels]
           /\ patch' = [r \in TReqs |-> CASE r = q -> Free
                                          [] r # q /\ patch[r] # Free ->
                                                IF patch[r].row = s THEN [patch[r] EXCEPT !.row = NoLevels] ELSE patch[r]
                                          [] OTHER -> patch[r]]
    /\ UNCHANGED <<up, ruleRows, own, locks, put, lastPut>>

-----------------------------------------------------------------------------
(* The host's own rows *)

\* handleSetHostThresholds: changes gives levels or NoLevels for some keys;
\* each pair is validated before the transaction starts.
PutBegin(q, changes) ==
    /\ put[q] = Free /\ DOMAIN changes # {}
    /\ \A k \in DOMAIN changes : changes[k] # NoLevels => ValidateThresholdLevels(changes[k][1], changes[k][2])
    /\ put' = [put EXCEPT ![q] = [ch |-> changes, left |-> DOMAIN changes, buf |-> [k \in {} |-> NoLevels]]]
    /\ UNCHANGED <<up, defs, ruleRows, own, locks, patch, lastPut>>

Place(k) == CHOOSE i \in DOMAIN TKeys : TKeys[i] = k

\* The keys are sorted before they are applied.
NextKeys(q) == {k \in put[q].left : \A x \in put[q].left : Place(k) <= Place(x)}

\* applyOne deletes nothing, and locks nothing, where it sees no row.
Locking(q, k) == put[q].ch[k] # NoLevels \/ own[k] # NoLevels
Extended(buf, k, v) == [x \in DOMAIN buf \cup {k} |-> IF x = k THEN v ELSE buf[x]]
Applied(buf) == [k \in KeySet |-> IF k \in DOMAIN buf THEN buf[k] ELSE own[k]]

\* (mutant) every statement commits by itself
ApplyOneCommits(q, k) ==
    /\ put[q] # Free /\ k \in NextKeys(q)
    /\ Locking(q, k) => locks[k] \in {Free, q}
    /\ own' = IF Locking(q, k) THEN [own EXCEPT ![k] = put[q].ch[k]] ELSE own
    /\ put' = [put EXCEPT ![q].left = @ \ {k}]
    /\ UNCHANGED <<up, defs, ruleRows, locks, patch, lastPut>>

ApplyOne(q, k) ==
    /\ put[q] # Free /\ k \in NextKeys(q)
    /\ Locking(q, k) => locks[k] \in {Free, q}
    /\ locks' = IF Locking(q, k) THEN [locks EXCEPT ![k] = q] ELSE locks
    /\ put' = [put EXCEPT ![q].left = @ \ {k},
                          ![q].buf = IF Locking(q, k) THEN Extended(@, k, put[q].ch[k]) ELSE @]
    /\ UNCHANGED <<up, defs, ruleRows, own, patch, lastPut>>

Released(q) == [k \in KeySet |-> IF locks[k] = q THEN Free ELSE locks[k]]

PutCommit(q) ==
    /\ put[q] # Free /\ put[q].left = {}
    /\ own' = Applied(put[q].buf)
    /\ lastPut' = IF DOMAIN put[q].ch = KeySet /\ \A k \in KeySet : put[q].ch[k] # NoLevels THEN put[q].ch ELSE NoLevels
    /\ locks' = Released(q)
    /\ put' = [put EXCEPT ![q] = Free]
    /\ UNCHANGED <<up, defs, ruleRows, patch>>

\* A statement or the connection fails: deferred Rollback.
PutAbort(q) ==
    /\ put[q] # Free
    /\ locks' = Released(q)
    /\ put' = [put EXCEPT ![q] = Free]
    /\ UNCHANGED <<up, defs, ruleRows, own, patch, lastPut>>

\* SetStatusRules, SetHostStatusRules: an "off" row hides one further up.
SetStatusRule(caller, s, setting) ==
    /\ s = OfHost \/ CanManageThreshold(caller, s)
    /\ ruleRows[s] # setting
    /\ ruleRows' = [ruleRows EXCEPT ![s] = setting]
    /\ UNCHANGED <<up, defs, own, locks, patch, put, lastPut>>

-----------------------------------------------------------------------------
(* Resolution *)

\* ORDER BY (organization_id IS NULL), depth, for the rows of the chain.
InChain(o, s) == s = General \/ s \in AtOrAbove(o)
DepthOf(o, s) == (CHOOSE p \in OrgChain(o) : p[1] = s)[2]
Rank(o, s) == IF s = General THEN Cardinality(TOrgs) ELSE DepthOf(o, s)

FirstBy(key) == CHOOSE s \in DOMAIN key : \A x \in DOMAIN key : key[s] <= key[x]

\* DefaultsFor: the first row seen of the metric.
DefaultScopes(o) == {s \in Scopes2 : InChain(o, s) /\ defs[s] # NoLevels}
DefaultsFor(o) ==
    IF DefaultScopes(o) = {} THEN NoLevels
    ELSE defs[FirstBy([s \in DefaultScopes(o) |-> Rank(o, s)])].lv

\* HostOverrides, HostSubjectOverrides
Override(k) == own[k]

\* What the panel shows for the key: its own row, the host's, the default.
Shown(k) ==
    CASE Override(k) # NoLevels -> Override(k)
      [] Override(k) = NoLevels /\ Override(Head(TKeys)) # NoLevels -> Override(Head(TKeys))
      [] OTHER -> DefaultsFor(Home)

\* ResolveHost: the base is the host's row, else DISTINCT ON the defaults.
ResolveBase ==
    IF own[Head(TKeys)] # NoLevels \/ DefaultScopes(Home) = {} THEN own[Head(TKeys)]
    ELSE defs[FirstBy([s \in DefaultScopes(Home) |-> Rank(Home, s)])].lv

\* SubjectThresholds.For
ForSubject(k) == IF own[k] # NoLevels THEN own[k] ELSE ResolveBase

RuleScopes(o, all) == {s \in Scopes2 \cup {OfHost} : ruleRows[s] # NoLevels /\ IF s = OfHost THEN all ELSE InChain(o, s)}

StatusRuleDefaultsFor(o) ==
    IF RuleScopes(o, FALSE) = {} THEN NoLevels
    ELSE ruleRows[FirstBy([s \in RuleScopes(o, FALSE) |-> Rank(o, s)])]

\* ORDER BY (host_id IS NULL), (organization_id IS NULL), depth
RuleRank(s) == IF s = OfHost THEN -1 ELSE Rank(Home, s)

ResolveStatusRules ==
    IF RuleScopes(Home, TRUE) = {} THEN NoLevels ELSE ruleRows[FirstBy([s \in RuleScopes(Home, TRUE) |-> RuleRank(s)])]

\* handleListThresholds, handleListStatusRules
ListForOrganizations(caller) == {s \in Scopes2 : s = General \/ s \in Managed(caller) \cup Context(caller)}

-----------------------------------------------------------------------------
(* Specification *)

ThresholdsInit ==
    /\ up = [o \in TOrgs |-> Top]
    /\ defs = [s \in Scopes2 |-> NoLevels]
    /\ ruleRows = [s \in Scopes2 \cup {OfHost} |-> NoLevels]
    /\ own = [k \in KeySet |-> NoLevels]
    /\ locks = [k \in KeySet |-> Free]
    /\ patch = [q \in TReqs |-> Free] /\ put = [q \in TReqs |-> Free]
    /\ lastPut = NoLevels

PatchNext(scopes) ==
    \/ \E caller \in Callers, s \in scopes, w, c \in -1..(MaxLevel + 1), d \in {NoDuration} \cup 0..(MaxDuration + 1) :
          Create(caller, s, w, c, d)
    \/ \E q \in TReqs, caller \in Callers, s \in scopes :
          \/ \E w, c \in {Same} \cup -1..(MaxLevel + 1), d \in {Same, NoDuration} \cup 0..(MaxDuration + 1) :
                PatchRead(q, caller, s, w, c, d)
          \/ DeleteRead(q, caller, s)
    \/ \E q \in TReqs : PatchWrite(q) \/ DeleteWrite(q)

PutNext ==
    \/ \E q \in TReqs, changes \in Changes : PutBegin(q, changes)
    \/ \E q \in TReqs : (\E k \in KeySet : ApplyOne(q, k)) \/ PutCommit(q) \/ PutAbort(q)

ScopeNext ==
    \/ \E o \in TOrgs, p \in TOrgs \cup {Top} : MoveOrg(o, p)
    \/ \E caller \in Callers, s \in Scopes2 \cup {OfHost}, x \in {NoLevels, "off", "critical"} : SetStatusRule(caller, s, x)

ThresholdsNext == PatchNext(Scopes2) \/ PutNext \/ ScopeNext

ThresholdsSpec == ThresholdsInit /\ [][ThresholdsNext]_tvars

ThresholdsTypeOK ==
    /\ up \in [TOrgs -> TOrgs \cup {Top}]
    /\ \A s \in Scopes2 : defs[s] # NoLevels => defs[s].dur \in Durations
    /\ own \in [KeySet -> Levels \cup {NoLevels}]
    /\ locks \in [KeySet -> TReqs \cup {Free}]
    /\ put \in [TReqs -> PutStates \cup {Free}]

-----------------------------------------------------------------------------
(* Properties *)

\* Whatever PATCHes interleave - each validated against the row as it was
\* read - the stored levels are in order and within bounds: a warning level
\* above the critical one would never be told.
LevelsOrdered == \A s \in Scopes2 : defs[s] # NoLevels => defs[s].lv \in Levels

\* The threshold and the rule the engine applies are those the panel shows:
\* the host's own, else the default (host_threshold_handlers.go).
PanelAgrees ==
    /\ \A k \in KeySet : ForSubject(k) = Shown(k)
    /\ ResolveStatusRules =
          IF ruleRows[OfHost] # NoLevels THEN ruleRows[OfHost] ELSE StatusRuleDefaultsFor(Home)

\* "the nearest first": the default of an organization of the chain applies
\* unless one between it and the host has its own; the general one last.
NearestWins ==
    \A s \in DefaultScopes(Home) :
        LET nearer == IF s = General THEN AtOrAbove(Home) ELSE AtOrAbove(Home) \ AtOrAbove(s)
        IN  (\A x \in nearer : defs[x] = NoLevels) => DefaultsFor(Home) = defs[s].lv

\* The default in force for an organization is in the list of its admin, who
\* could otherwise not know what is applied (handleListThresholds).
ListExplains ==
    \A caller \in TOrgs : \A o \in Managed(caller) :
        \A s \in DefaultScopes(o) :
            (\A x \in DefaultScopes(o) : Rank(o, s) <= Rank(o, x)) => s \in ListForOrganizations(caller)

\* A PUT that writes every key is stored whole: no row of another PUT that
\* ran at the same time is left among its own (SetHostOverrides).
PutsWhole == lastPut # NoLevels => own = lastPut

Waiting(q) == put[q] # Free /\ put[q].left # {} /\ \A k \in NextKeys(q) : Locking(q, k) /\ locks[k] \notin {Free, q}

\* Two PUTs never wait for each other.
NoPutDeadlock == \A q \in TReqs : put[q] # Free => \E r \in TReqs : put[r] # Free /\ ~Waiting(r)

\* Concurrent writes leave thresholds in order and whole, and everyone who asks
\* which one is in force is given the same, nearest one (thresholds.go,
\* threshold_handlers.go, status_rules.go).
ThresholdsHold ==
    ThresholdsTypeOK /\ LevelsOrdered /\ PanelAgrees /\ NearestWins /\ ListExplains /\ PutsWhole /\ NoPutDeadlock
=============================================================================
