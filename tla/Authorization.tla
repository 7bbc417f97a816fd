--------------------------- MODULE Authorization ---------------------------
(***************************************************************************)
(* Who may call a route: the role a bearer token carries                   *)
(* (httpapi/middleware.go), the cached permissions of that role            *)
(* (rbac/cache.go, rbac/rbac.go) and the profile routes that read both     *)
(* (httpapi/me_handlers.go).                                               *)
(*                                                                         *)
(* One user, one permission key, the table role_permissions as the set of  *)
(* roles that hold the key.  A request stands between the look in the      *)
(* cache, the read of the table and the store of what it read: the cache   *)
(* is unlocked in between, so an older reading can be stored last.         *)
(* Instants are kept relative to now: what is left of a lifetime, and how  *)
(* long ago something last was so (sinceHeld, sinceGranted).               *)
(***************************************************************************)
EXTENDS Naturals, FiniteSets

CONSTANTS
    RoleKeys,      \* roles.key
    AReqs,      \* requests in progress
    NoEntry,    \* a role that is not in the cache; no role
    CacheTTL,   \* DefaultCacheTTL; 0 turns the cache off
    AccessTTL,  \* lifetime of an access token
    MaxLoad     \* bound: a request takes no longer than this

ASSUME AuthAssumption ==
    CacheTTL \in Nat /\ AccessTTL \in Nat /\ MaxLoad \in Nat

VARIABLES
    arole,         \* users.role
    granted,       \* the roles role_permissions lists with the key
    cache,         \* Cache.roles: what was read and the time it has left
    atok,          \* the access token's claims
    areq,          \* the requests
    sinceHeld,     \* role -> how long ago the user last had it
    sinceGranted   \* role -> how long ago it last had the key

zvars == <<arole, granted, cache, atok, areq, sinceHeld, sinceGranted>>

\* The counters of the past stop beyond the limit that is stated of them.
LongHeld == AccessTTL + MaxLoad + 1
LongGranted == CacheTTL + 2 * MaxLoad + 1
Stages == {"idle", "lookup", "read", "store", "allowed"}

AuthTypeOK ==
    /\ arole \in RoleKeys
    /\ granted \subseteq RoleKeys
    /\ cache \in [RoleKeys -> [keys: BOOLEAN, left: 0..CacheTTL] \cup {NoEntry}]
    /\ atok \in [role: RoleKeys, left: 0..AccessTTL]
    /\ areq \in [AReqs -> [pc: Stages, role: RoleKeys \cup {NoEntry}, keys: BOOLEAN, age: 0..MaxLoad]]
    /\ sinceHeld \in [RoleKeys -> 0..LongHeld] /\ sinceGranted \in [RoleKeys -> 0..LongGranted]

Ready == [pc |-> "idle", role |-> NoEntry, keys |-> FALSE, age |-> 0]

AuthInit ==
    /\ arole \in RoleKeys
    /\ granted \in SUBSET RoleKeys
    /\ cache = [x \in RoleKeys |-> NoEntry]
    /\ atok = [role |-> arole, left |-> AccessTTL]
    /\ areq = [r \in AReqs |-> Ready]
    /\ sinceHeld = [x \in RoleKeys |-> IF x = arole THEN 0 ELSE LongHeld]
    /\ sinceGranted = [x \in RoleKeys |-> IF x \in granted THEN 0 ELSE LongGranted]

Go(r, pc) == areq' = [areq EXCEPT ![r].pc = pc]
Ask(r, x) == areq' = [areq EXCEPT ![r] = [Ready EXCEPT !.pc = "lookup", !.role = x]]

-----------------------------------------------------------------------------

\* requirePermission: ParseAccessToken; the role is the token's.  A token
\* whose holder owes a password change is turned away here, so it is no token.
Authenticate(r) ==
    /\ areq[r].pc = "idle" /\ atok.left > 0
    /\ Ask(r, atok.role)
    /\ UNCHANGED <<arole, granted, cache, atok, sinceHeld, sinceGranted>>

\* handleGetMe, handleUpdateMe: the role is the one the users row has now.
ReadProfile(r) ==
    /\ areq[r].pc = "idle" /\ atok.left > 0
    /\ Ask(r, arole)
    /\ UNCHANGED <<arole, granted, cache, atok, sinceHeld, sinceGranted>>

\* The answer: the handler runs, or 403 and the request is over.
Answer(r, keys) == areq' = [areq EXCEPT ![r] = IF keys THEN [@ EXCEPT !.pc = "allowed"] ELSE Ready]

\* (mutant) an entry is used however old it is
CacheHitAnyAge(x) == CacheTTL > 0 /\ cache[x] # NoEntry

CacheHit(x) == CacheTTL > 0 /\ cache[x] # NoEntry /\ cache[x].left > 0

\* Cache.Permissions, first critical section.
LookUp(r) ==
    /\ areq[r].pc = "lookup"
    /\ LET x == areq[r].role IN
       IF CacheHit(x) THEN Answer(r, cache[x].keys) ELSE Go(r, "read")
    /\ UNCHANGED <<arole, granted, cache, atok, sinceHeld, sinceGranted>>

\* rbac.Permissions: one SELECT, outside the lock.
ReadTable(r) ==
    /\ areq[r].pc = "read"
    /\ areq' = [areq EXCEPT ![r] = [@ EXCEPT !.pc = "store", !.keys = areq[r].role \in granted]]
    /\ UNCHANGED <<arole, granted, cache, atok, sinceHeld, sinceGranted>>

\* The query fails: 500, and nothing is cached.
ReadTableFails(r) ==
    /\ areq[r].pc = "read"
    /\ areq' = [areq EXCEPT ![r] = Ready]
    /\ UNCHANGED <<arole, granted, cache, atok, sinceHeld, sinceGranted>>

\* Cache.Permissions, second critical section: the entry lives ttl from now.
StoreKeys(r) ==
    /\ areq[r].pc = "store"
    /\ cache' = IF CacheTTL > 0
                THEN [cache EXCEPT ![areq[r].role] = [keys |-> areq[r].keys, left |-> CacheTTL]]
                ELSE cache
    /\ Answer(r, areq[r].keys)
    /\ UNCHANGED <<arole, granted, atok, sinceHeld, sinceGranted>>

Respond(r) ==
    /\ areq[r].pc = "allowed"
    /\ areq' = [areq EXCEPT ![r] = Ready]
    /\ UNCHANGED <<arole, granted, cache, atok, sinceHeld, sinceGranted>>

-----------------------------------------------------------------------------
\* issueTokenPair at a login or a refresh: the claims are the row's.
IssueClaims ==
    /\ atok' = [role |-> arole, left |-> AccessTTL]
    /\ UNCHANGED <<arole, granted, cache, areq, sinceHeld, sinceGranted>>

\* handleUpdateUser changes the role of the user.
ChangeRole(x) ==
    /\ x # arole
    /\ arole' = x /\ sinceHeld' = [sinceHeld EXCEPT ![x] = 0]
    /\ UNCHANGED <<granted, cache, atok, areq, sinceGranted>>

\* role_permissions is edited by hand, with SQL.
EditGrants(g) ==
    /\ g # granted
    /\ granted' = g
    /\ sinceGranted' = [x \in RoleKeys |-> IF x \in g THEN 0 ELSE sinceGranted[x]]
    /\ UNCHANGED <<arole, cache, atok, areq, sinceHeld>>

\* Cache.Invalidate
Invalidate ==
    /\ cache' = [x \in RoleKeys |-> NoEntry]
    /\ UNCHANGED <<arole, granted, atok, areq, sinceHeld, sinceGranted>>

Less(n) == IF n = 0 THEN 0 ELSE n - 1
More(n, long) == IF n = long THEN long ELSE n + 1

\* Time passes: what cache.now, the token's exp and the requests see of it.
AuthTick ==
    /\ \A r \in AReqs : areq[r].pc # "idle" => areq[r].age < MaxLoad
    /\ areq' = [r \in AReqs |-> IF areq[r].pc = "idle" THEN areq[r] ELSE [areq[r] EXCEPT !.age = @ + 1]]
    /\ atok' = [atok EXCEPT !.left = Less(@)]
    /\ cache' = [x \in RoleKeys |-> IF cache[x] = NoEntry THEN NoEntry ELSE [cache[x] EXCEPT !.left = Less(@)]]
    /\ sinceHeld' = [x \in RoleKeys |-> IF x = arole THEN 0 ELSE More(sinceHeld[x], LongHeld)]
    /\ sinceGranted' = [x \in RoleKeys |-> IF x \in granted THEN 0 ELSE More(sinceGranted[x], LongGranted)]
    /\ UNCHANGED <<arole, granted>>

AuthNext ==
    \/ \E r \in AReqs : Authenticate(r) \/ ReadProfile(r) \/ LookUp(r) \/ ReadTable(r)
                        \/ ReadTableFails(r) \/ StoreKeys(r) \/ Respond(r)
    \/ \E x \in RoleKeys : ChangeRole(x)
    \/ \E g \in SUBSET RoleKeys : EditGrants(g)
    \/ IssueClaims \/ Invalidate \/ AuthTick

AuthSpec == AuthInit /\ [][AuthNext]_zvars

-----------------------------------------------------------------------------
\* A role that loses the key by hand is turned away once the cached reading
\* is over: the delay is the time to live plus the time between the read of
\* the table and the store, which the cache counts as fresh, plus the time
\* the request itself takes, whichever of two slow readers stores last
\* (DefaultCacheTTL, cache.go:13-15; Permissions, cache.go:58-66).
WithdrawnKeyEnds ==
    \A r \in AReqs :
        areq[r].pc = "allowed" => sinceGranted[areq[r].role] <= CacheTTL + 2 * MaxLoad

\* A user who loses a role acts with it only while the access token issued
\* before the change lives and the request it opened runs
\* (authenticated, middleware.go:46-57: the role is the token's claim).
WithdrawnRoleEnds ==
    \A r \in AReqs :
        areq[r].pc # "idle" => sinceHeld[areq[r].role] <= AccessTTL + MaxLoad

\* A right that was withdrawn, from the role or from the user, ends within the
\* lifetimes of cache entry and token (rbac/cache.go, middleware.go).
WithdrawnRightsEnd == AuthTypeOK /\ WithdrawnKeyEnds /\ WithdrawnRoleEnds
=============================================================================
