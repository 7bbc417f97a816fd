---------------------------- MODULE AccountProofs --------------------------
(***************************************************************************)
(* Proofs about accounts: what ends a session, which link resets a         *)
(* password, which super_admin remains, how long a withdrawn right is      *)
(* still honoured and which hosts an assignment shows, for any number of   *)
(* requests, tokens, links, accounts, transactions, organizations and      *)
(* moves and any of the times.                                             *)
(***************************************************************************)
EXTENDS Sessions, PasswordReset, SuperAdmins, Authorization, Organizations,
        FiniteSetTheorems, WellFoundedInduction, TLAPS

-----------------------------------------------------------------------------
(* The inductive invariants                                                *)

\* What the cache and a request remember of a role's keys is no older than what
\* is left of the entry, and than the request, allow.
GrantsRemembered ==
    /\ \A x \in granted : sinceGranted[x] = 0
    /\ \A x \in RoleKeys :
          cache[x] # NoEntry /\ cache[x].keys /\ cache[x].left > 0
              => sinceGranted[x] + cache[x].left <= CacheTTL + MaxLoad
    /\ \A r \in AReqs :
          /\ areq[r].pc # "idle" => areq[r].role \in RoleKeys
          /\ areq[r].pc = "store" /\ areq[r].keys => sinceGranted[areq[r].role] <= areq[r].age
          /\ areq[r].pc = "allowed" => sinceGranted[areq[r].role] <= CacheTTL + MaxLoad + areq[r].age

\* A token remembers its role for as long as it has left, a request as long as
\* it runs.
RolesRemembered ==
    /\ sinceHeld[arole] = 0
    /\ atok.left > 0 => sinceHeld[atok.role] + atok.left <= AccessTTL
    /\ \A r \in AReqs :
          areq[r].pc # "idle" => sinceHeld[areq[r].role] <= AccessTTL + areq[r].age

AuthInv == AuthTypeOK /\ GrantsRemembered /\ RolesRemembered

\* A request that has set a password and has not yet revoked the sessions.
Revoking(q) == rq[q].pc \in {"revokeOwn", "revoke"}

\* A request that goes on to insert a token with an old password has been
\* overtaken, or its family has, or a revocation is to come or has failed.
StaleOf(r) ==
    rq[r].pc \in {"revokeOwn", "reread", "create"} /\ rq[r].basis # user.pw =>
        \/ rq[r].overtaken
        \/ rq[r].fam \in straddled
        \/ halfDone
        \/ \E q \in SReqs \ {r} : Revoking(q)

\* One that goes on to insert into a revoked family has been overtaken.
RevokedOf(r) ==
    /\ rq[r].pc \in {"reread", "create"} =>
          \A u \in Rows : tok[u].fam = rq[r].fam /\ tok[u].rev => rq[r].overtaken \/ rq[r].fam \in straddled
    /\ rq[r].pc = "revokeOwn" => rq[r].fam = NoTok

SessInv == SessionsEnd /\ \A r \in SReqs : StaleOf(r) /\ RevokedOf(r)

\* A link that changed the password is used, or gone after its time.
SpentOf(l) ==
    /\ changes[l] <= 1
    /\ row[l] = "open" => changes[l] = 0
    /\ row[l] = "none" /\ l \notin lapsed => changes[l] = 0

\* The link that a request is about to store is nobody else's.
IssuedOf(r) ==
    /\ preq[r].pc \in {"delete", "insert"} =>
          /\ row[preq[r].link] = "none" /\ preq[r].link \notin lapsed
          /\ \A o \in PReqs \ {r} : preq[o].link # preq[r].link
    /\ preq[r].pc \in {"delete", "insert", "supersede", "enqueue"} => preq[r].link \in Links

\* One request at a time: the link that was stored last is the only open one
\* when it is stored ...
OneByOne ==
    ~overlap =>
        /\ \A r, o \in PReqs : preq[r].pc # "idle" /\ preq[o].pc # "idle" => r = o
        /\ \A k, l \in Links : row[k] = "open" /\ row[l] = "open" => k = l
        /\ \A r \in PReqs : preq[r].pc = "insert" => \A l \in Links : row[l] = "open" => l \in preq[r].seen

\* ... and the mails that wait are closed before its own is queued.
MailsAgree ==
    ~overlap /\ pfaults = 0 =>
        /\ \A r \in PReqs :
              /\ preq[r].pc \in {"enqueue", "announce"} => \A l \in Links : mail[l] # "pending"
              /\ preq[r].pc \in {"supersede", "enqueue"} =>
                    row[preq[r].link] = "open" \/ preq[r].link \in lapsed
        /\ (\A r \in PReqs : preq[r].pc \notin {"supersede", "spent"}) =>
              \A l \in Links : mail[l] = "pending" => row[l] = "open" \/ l \in lapsed

ResetInv ==
    /\ ResetTypeOK
    /\ \A l \in Links : SpentOf(l)
    /\ \A r \in PReqs : IssuedOf(r)
    /\ OneByOne /\ MailsAgree

\* A row is held by the transaction that got it and is a super_admin's until it
\* lets go; the rows are taken in the order of their ids.
Locks ==
    /\ \A u \in Uids, t \in Txs : holder[u] = t <=> u \in tx[t].got
    /\ \A t \in Txs : \A u \in tx[t].got : role[u] = "super_admin"
    /\ \A t \in Txs :
          /\ tx[t].pc = "idle" => tx[t].got = {} /\ tx[t].todo = {}
          /\ tx[t].pc = "write" => tx[t].todo = {} /\ tx[t].got # {tx[t].target}
          /\ \A g \in tx[t].got, d \in tx[t].todo : g < d

\* Unless an account was raised meanwhile, a guard has seen every super_admin.
Snapshots ==
    ~raced => /\ Supers # {}
              /\ \A t \in Txs : tx[t].pc # "idle" => Supers \subseteq tx[t].todo \cup tx[t].got

SuperInv == SuperTypeOK /\ Locks /\ Snapshots

\* Parents exist, of organizations and of hosts, and so do the two a move names.
RowsExist ==
    /\ \A o \in Existing : parent[o] \in Existing \cup {Root}
    /\ \A h \in Hosts : hostOrg[h] \in Existing
    /\ \A m \in Movers : move[m] # NoMove => move[m].org \in Existing /\ move[m].to \in Existing \cup {Root}

\* While no moves have crossed, what the trigger saw of the only one under way
\* is still so.
MoveStands ==
    ~crossed =>
        /\ Acyclic
        /\ \A m, n \in Movers : move[m] # NoMove /\ move[n] # NoMove => m = n
        /\ \A m \in Movers : move[m] # NoMove => NoCycleThrough(move[m].org, move[m].to)

OrgInv == OrgTypeOK /\ RowsExist /\ MoveStands

-----------------------------------------------------------------------------
(* Permissions                                                             *)

LEMMA AuthTimes ==
    /\ CacheTTL \in Nat /\ AccessTTL \in Nat /\ MaxLoad \in Nat
    /\ LongHeld \in Nat /\ LongGranted \in Nat
    /\ LongHeld > AccessTTL + MaxLoad /\ LongGranted > CacheTTL + 2 * MaxLoad
  BY AuthAssumption DEF LongHeld, LongGranted

\* A memory of the past, one unit later.
LEMMA MoreLess ==
    ASSUME NEW long \in Nat, NEW n \in 0..long, NEW top \in Nat, NEW m \in 0..top
    PROVE  /\ More(n, long) \in 0..long /\ More(n, long) <= n + 1
           /\ Less(m) \in 0..top /\ (m > 0 => Less(m) = m - 1) /\ (m = 0 => Less(m) = 0)
  BY DEF More, Less

\* A step of a request: it changes no right and no token.
LEMMA RequestMoves ==
    ASSUME AuthInv, NEW r \in AReqs,
           UNCHANGED <<arole, granted, atok, sinceHeld, sinceGranted>>,
           NEW q \in [pc: Stages, role: RoleKeys \cup {NoEntry}, keys: BOOLEAN, age: 0..MaxLoad],
           areq' = [areq EXCEPT ![r] = q],
           q.pc # "idle" => /\ q.role \in RoleKeys
                            /\ sinceHeld[q.role] <= AccessTTL + q.age,
           q.pc = "store" /\ q.keys => sinceGranted[q.role] <= q.age,
           q.pc = "allowed" => sinceGranted[q.role] <= CacheTTL + MaxLoad + q.age,
           cache' \in [RoleKeys -> [keys: BOOLEAN, left: 0..CacheTTL] \cup {NoEntry}],
           \A x \in RoleKeys :
              cache'[x] # NoEntry /\ cache'[x].keys /\ cache'[x].left > 0
                  => sinceGranted[x] + cache'[x].left <= CacheTTL + MaxLoad
    PROVE  AuthInv'
  <1>1. areq' \in [AReqs -> [pc: Stages, role: RoleKeys \cup {NoEntry}, keys: BOOLEAN, age: 0..MaxLoad]]
    BY DEF AuthInv, AuthTypeOK
  <1>2. areq'[r] = q /\ \A s \in AReqs \ {r} : areq'[s] = areq[s]
    BY DEF AuthInv, AuthTypeOK
  <1>3. AuthTypeOK'
    BY <1>1 DEF AuthInv, AuthTypeOK, LongHeld, LongGranted
  <1>4. GrantsRemembered'
    BY <1>2 DEF AuthInv, GrantsRemembered
  <1>5. RolesRemembered'
    BY <1>2 DEF AuthInv, RolesRemembered
  <1> QED
    BY <1>3, <1>4, <1>5 DEF AuthInv

LEMMA RequestInv ==
    ASSUME AuthInv, NEW r \in AReqs,
           \/ Authenticate(r) \/ ReadProfile(r) \/ LookUp(r) \/ ReadTable(r)
           \/ ReadTableFails(r) \/ StoreKeys(r) \/ Respond(r)
    PROVE  AuthInv'
  <1> DEFINE Reqs == [pc: Stages, role: RoleKeys \cup {NoEntry}, keys: BOOLEAN, age: 0..MaxLoad]
  <1>0. /\ AuthTypeOK /\ GrantsRemembered /\ RolesRemembered
        /\ areq \in [AReqs -> Reqs] /\ areq[r] \in Reqs
        /\ Ready \in Reqs /\ Ready.pc = "idle"
    BY AuthTimes DEF AuthInv, AuthTypeOK, Ready, Stages
  <1>a. /\ cache \in [RoleKeys -> [keys: BOOLEAN, left: 0..CacheTTL] \cup {NoEntry}]
        /\ \A x \in RoleKeys :
              cache[x] # NoEntry /\ cache[x].keys /\ cache[x].left > 0
                  => sinceGranted[x] + cache[x].left <= CacheTTL + MaxLoad
    BY <1>0 DEF AuthTypeOK, GrantsRemembered
  <1>b. ASSUME NEW x \in RoleKeys
        PROVE  sinceHeld[x] \in Nat /\ sinceGranted[x] \in Nat
    BY <1>0, AuthTimes DEF AuthTypeOK
  <1>c. areq[r].age \in 0..MaxLoad /\ areq[r].keys \in BOOLEAN
    BY <1>0
  <1>1. ASSUME NEW x \in RoleKeys, Ask(r, x), sinceHeld[x] <= AccessTTL,
               UNCHANGED <<arole, granted, cache, atok, sinceHeld, sinceGranted>>
        PROVE  AuthInv'
    <2> DEFINE q == [Ready EXCEPT !.pc = "lookup", !.role = x]
    <2>1. q \in Reqs /\ q.pc = "lookup" /\ q.role = x /\ q.age = 0
      <3>1. q \in Reqs
        BY <1>0, <1>1 DEF Stages
      <3>2. q.pc = "lookup" /\ q.role = x /\ q.age = 0
        BY DEF Ready
      <3> QED
        BY <3>1, <3>2
    <2>2. areq' = [areq EXCEPT ![r] = q]
      BY <1>1 DEF Ask
    <2>3. cache' = cache
      BY <1>1
    <2> HIDE DEF q
    <2>4. sinceHeld[x] <= AccessTTL + q.age
      BY <1>1, <1>b, <2>1, AuthTimes
    <2> QED
      BY <1>1, <1>a, <2>1, <2>2, <2>3, <2>4, RequestMoves
  <1>2. CASE Authenticate(r)
    <2>1. atok.role \in RoleKeys /\ atok.left \in Nat /\ atok.left > 0
      BY <1>0, <1>2 DEF Authenticate, AuthTypeOK
    <2>2. sinceHeld[atok.role] + atok.left <= AccessTTL
      BY <1>0, <2>1 DEF RolesRemembered
    <2>3. sinceHeld[atok.role] <= AccessTTL
      BY <1>b, <2>1, <2>2, AuthTimes
    <2> QED
      BY <1>1, <1>2, <2>1, <2>3 DEF Authenticate
  <1>3. CASE ReadProfile(r)
    <2>1. arole \in RoleKeys /\ sinceHeld[arole] = 0
      BY <1>0 DEF AuthTypeOK, RolesRemembered
    <2>2. sinceHeld[arole] <= AccessTTL
      BY <2>1, AuthTimes
    <2> QED
      BY <1>1, <1>3, <2>1, <2>2 DEF ReadProfile
  <1>4. ASSUME areq' = [areq EXCEPT ![r] = Ready],
               UNCHANGED <<arole, granted, cache, atok, sinceHeld, sinceGranted>>
        PROVE  AuthInv'
    <2>1. cache' = cache
      BY <1>4
    <2> QED
      BY <1>0, <1>4, <1>a, <2>1, RequestMoves DEF Ready
  <1>5. CASE ReadTableFails(r) \/ Respond(r)
    BY <1>4, <1>5 DEF ReadTableFails, Respond
  <1>6. CASE LookUp(r)
    <2> DEFINE x == areq[r].role
    <2>0. /\ areq[r].pc = "lookup" /\ x \in RoleKeys
          /\ sinceHeld[x] <= AccessTTL + areq[r].age
          /\ UNCHANGED <<arole, granted, cache, atok, sinceHeld, sinceGranted>>
      BY <1>0, <1>6 DEF LookUp, GrantsRemembered, RolesRemembered
    <2>1. CASE CacheHit(x) /\ cache[x].keys
      <3> DEFINE q == [areq[r] EXCEPT !.pc = "allowed"]
      <3>1. areq' = [areq EXCEPT ![r] = q]
        BY <1>6, <2>1 DEF LookUp, Answer
      <3>2. q \in Reqs /\ q.pc = "allowed" /\ q.role = x /\ q.age = areq[r].age
        BY <1>0 DEF Stages
      <3>3. cache[x] # NoEntry /\ cache[x].left > 0 /\ cache[x].left \in Nat
        BY <1>0, <2>0, <2>1, AuthTimes DEF CacheHit, AuthTypeOK
      <3>4. sinceGranted[x] + cache[x].left <= CacheTTL + MaxLoad
        BY <2>0, <2>1, <3>3, <1>a
      <3>5. sinceGranted[x] <= CacheTTL + MaxLoad + areq[r].age
        BY <1>b, <1>c, <2>0, <3>3, <3>4, AuthTimes
      <3> HIDE DEF q, x
      <3> QED
        BY <1>a, <2>0, <3>1, <3>2, <3>5, RequestMoves
    <2>2. CASE CacheHit(x) /\ ~cache[x].keys
      BY <1>4, <1>6, <2>0, <2>2 DEF LookUp, Answer
    <2>3. CASE ~CacheHit(x)
      <3> DEFINE q == [areq[r] EXCEPT !.pc = "read"]
      <3>1. areq' = [areq EXCEPT ![r] = q]
        BY <1>6, <2>3 DEF LookUp, Go
      <3>2. q \in Reqs /\ q.pc = "read" /\ q.role = x /\ q.age = areq[r].age
        BY <1>0 DEF Stages
      <3> HIDE DEF q, x
      <3> QED
        BY <1>a, <2>0, <3>1, <3>2, RequestMoves
    <2> QED
      BY <2>1, <2>2, <2>3
  <1>7. CASE ReadTable(r)
    <2> DEFINE x == areq[r].role
               q == [areq[r] EXCEPT !.pc = "store", !.keys = x \in granted]
    <2>0. /\ areq[r].pc = "read" /\ x \in RoleKeys
          /\ sinceHeld[x] <= AccessTTL + areq[r].age
          /\ UNCHANGED <<arole, granted, cache, atok, sinceHeld, sinceGranted>>
          /\ areq' = [areq EXCEPT ![r] = q]
      BY <1>0, <1>7 DEF ReadTable, GrantsRemembered, RolesRemembered
    <2>1. q \in Reqs /\ q.pc = "store" /\ q.role = x /\ q.age = areq[r].age /\ (q.keys => x \in granted)
      <3> DEFINE k == x \in granted
      <3>1. k \in BOOLEAN /\ (k => x \in granted)
        OBVIOUS
      <3>2. q = [areq[r] EXCEPT !.pc = "store", !.keys = k]
        OBVIOUS
      <3> HIDE DEF k, x, q
      <3>3. q.keys = k /\ q.pc = "store" /\ q.role = areq[r].role /\ q.age = areq[r].age
        BY <1>0, <3>2
      <3>4. q \in Reqs
        BY <1>0, <3>1, <3>2 DEF Stages
      <3> QED
        BY <3>1, <3>3, <3>4 DEF x
    <2>2. q.keys => sinceGranted[x] = 0
      BY <1>0, <2>1 DEF GrantsRemembered
    <2>3. q.keys => sinceGranted[x] <= q.age
      BY <1>c, <2>1, <2>2
    <2> HIDE DEF q, x
    <2> QED
      BY <1>a, <2>0, <2>1, <2>3, RequestMoves
  <1>8. CASE StoreKeys(r)
    <2> DEFINE x == areq[r].role
               entry == [keys |-> areq[r].keys, left |-> CacheTTL]
    <2>0. /\ areq[r].pc = "store" /\ x \in RoleKeys
          /\ sinceHeld[x] <= AccessTTL + areq[r].age
          /\ areq[r].keys => sinceGranted[x] <= areq[r].age
          /\ UNCHANGED <<arole, granted, atok, sinceHeld, sinceGranted>>
          /\ cache' = IF CacheTTL > 0 THEN [cache EXCEPT ![x] = entry] ELSE cache
          /\ Answer(r, areq[r].keys)
      BY <1>0, <1>8 DEF StoreKeys, GrantsRemembered, RolesRemembered
    <2>1. /\ entry \in [keys: BOOLEAN, left: 0..CacheTTL]
          /\ (entry.keys <=> areq[r].keys) /\ entry.left = CacheTTL
      BY <1>c, AuthTimes
    <2>2. areq[r].keys => sinceGranted[x] + CacheTTL <= CacheTTL + MaxLoad
      BY <1>b, <1>c, <2>0, AuthTimes
    <2> HIDE DEF entry, x
    <2>3. /\ cache' \in [RoleKeys -> [keys: BOOLEAN, left: 0..CacheTTL] \cup {NoEntry}]
          /\ \A y \in RoleKeys : cache'[y] = cache[y] \/ (y = x /\ cache'[y] = entry)
      BY <1>a, <2>0, <2>1
    <2>4. ASSUME NEW y \in RoleKeys, cache'[y] # NoEntry, cache'[y].keys, cache'[y].left > 0
          PROVE  sinceGranted[y] + cache'[y].left <= CacheTTL + MaxLoad
      <3>1. CASE cache'[y] = cache[y]
        BY <1>a, <2>4, <3>1
      <3>2. CASE y = x /\ cache'[y] = entry
        BY <2>1, <2>2, <2>4, <3>2
      <3> QED
        BY <2>3, <3>1, <3>2
    <2>5. CASE areq[r].keys
      <3> DEFINE q == [areq[r] EXCEPT !.pc = "allowed"]
      <3>1. areq' = [areq EXCEPT ![r] = q]
        BY <2>0, <2>5 DEF Answer
      <3>2. q \in Reqs /\ q.pc = "allowed" /\ q.role = x /\ q.age = areq[r].age
        BY <1>0 DEF Stages, x
      <3>3. sinceGranted[x] <= CacheTTL + MaxLoad + areq[r].age
        BY <1>b, <1>c, <2>0, <2>5, AuthTimes
      <3> HIDE DEF q
      <3> QED
        BY <2>0, <2>3, <2>4, <3>1, <3>2, <3>3, RequestMoves
    <2>6. CASE ~areq[r].keys
      <3>1. areq' = [areq EXCEPT ![r] = Ready]
        BY <2>0, <2>6 DEF Answer
      <3> QED
        BY <1>0, <2>0, <2>3, <2>4, <3>1, RequestMoves
    <2> QED
      BY <2>5, <2>6
  <1> QED
    BY <1>2, <1>3, <1>5, <1>6, <1>7, <1>8

LEMMA TickInv ==
    ASSUME AuthInv, AuthTick PROVE AuthInv'
  <1>0. AuthTypeOK /\ GrantsRemembered /\ RolesRemembered
    BY DEF AuthInv
  <1> USE AuthTimes
  <1>1. ASSUME NEW r \in AReqs
        PROVE  /\ areq'[r] \in [pc: Stages, role: RoleKeys \cup {NoEntry}, keys: BOOLEAN, age: 0..MaxLoad]
               /\ areq'[r].pc = areq[r].pc /\ areq'[r].role = areq[r].role /\ areq'[r].keys = areq[r].keys
               /\ areq[r].pc # "idle" => areq'[r].age = areq[r].age + 1
    BY <1>0 DEF AuthTick, AuthTypeOK
  <1>2. ASSUME NEW x \in RoleKeys
        PROVE  /\ sinceHeld'[x] \in 0..LongHeld /\ sinceHeld'[x] <= sinceHeld[x] + 1
               /\ sinceHeld[x] \in Nat
    BY <1>0, MoreLess DEF AuthTick, AuthTypeOK
  <1>3. ASSUME NEW x \in RoleKeys
        PROVE  /\ sinceGranted'[x] \in 0..LongGranted /\ sinceGranted'[x] <= sinceGranted[x] + 1
               /\ sinceGranted[x] \in Nat
    BY <1>0, MoreLess DEF AuthTick, AuthTypeOK
  <1>4. ASSUME NEW x \in RoleKeys
        PROVE  /\ cache'[x] \in [keys: BOOLEAN, left: 0..CacheTTL] \cup {NoEntry}
               /\ cache'[x] # NoEntry /\ cache'[x].left > 0 =>
                     cache[x] # NoEntry /\ cache'[x].keys = cache[x].keys /\ cache[x].left = cache'[x].left + 1
    <2>1. CASE cache[x] = NoEntry
      BY <2>1 DEF AuthTick
    <2>2. CASE cache[x] # NoEntry
      <3>1. cache[x] \in [keys: BOOLEAN, left: 0..CacheTTL] /\ cache[x].left \in 0..CacheTTL
        BY <1>0, <2>2 DEF AuthTypeOK
      <3>2. cache'[x] = [cache[x] EXCEPT !.left = Less(cache[x].left)]
        BY <2>2 DEF AuthTick
      <3>3. Less(cache[x].left) \in 0..CacheTTL /\ (Less(cache[x].left) > 0 => cache[x].left = Less(cache[x].left) + 1)
        BY <3>1 DEF Less
      <3> QED
        BY <2>2, <3>1, <3>2, <3>3
    <2> QED
      BY <2>1, <2>2
  <1>5. /\ atok' \in [role: RoleKeys, left: 0..AccessTTL] /\ atok'.role = atok.role
        /\ atok'.left > 0 => atok.left = atok'.left + 1
        /\ atok'.left \in Nat /\ atok.role \in RoleKeys
    <2>1. atok \in [role: RoleKeys, left: 0..AccessTTL] /\ atok.left \in 0..AccessTTL
      BY <1>0 DEF AuthTypeOK
    <2>2. /\ Less(atok.left) \in 0..AccessTTL /\ Less(atok.left) \in Nat
          /\ Less(atok.left) > 0 => atok.left = Less(atok.left) + 1
      BY <2>1 DEF Less
    <2>3. atok' = [atok EXCEPT !.left = Less(atok.left)]
      BY DEF AuthTick
    <2> QED
      BY <2>1, <2>2, <2>3
  <1>6. AuthTypeOK'
    <2>1. areq' \in [AReqs -> [pc: Stages, role: RoleKeys \cup {NoEntry}, keys: BOOLEAN, age: 0..MaxLoad]]
      BY <1>1 DEF AuthTick
    <2>2. sinceHeld' \in [RoleKeys -> 0..LongHeld]
      BY <1>2 DEF AuthTick
    <2>3. sinceGranted' \in [RoleKeys -> 0..LongGranted]
      BY <1>3 DEF AuthTick
    <2>4. cache' \in [RoleKeys -> [keys: BOOLEAN, left: 0..CacheTTL] \cup {NoEntry}]
      BY <1>4 DEF AuthTick
    <2>5. arole' \in RoleKeys /\ granted' \subseteq RoleKeys
      BY <1>0 DEF AuthTick, AuthTypeOK
    <2> QED
      BY <1>5, <2>1, <2>2, <2>3, <2>4, <2>5 DEF AuthTypeOK, LongHeld, LongGranted
  <1>7. GrantsRemembered'
    <2>1. \A x \in granted' : sinceGranted'[x] = 0
      BY <1>0 DEF AuthTick, AuthTypeOK
    <2>2. ASSUME NEW x \in RoleKeys, cache'[x] # NoEntry, cache'[x].keys, cache'[x].left > 0
          PROVE  sinceGranted'[x] + cache'[x].left <= CacheTTL + MaxLoad
      <3>1. cache[x] # NoEntry /\ cache[x].keys /\ cache[x].left = cache'[x].left + 1 /\ cache'[x].left \in Nat
        BY <1>4, <2>2
      <3>2. sinceGranted[x] + cache[x].left <= CacheTTL + MaxLoad
        BY <1>0, <2>2, <3>1 DEF GrantsRemembered
      <3> QED
        BY <1>3, <3>1, <3>2
    <2>3. ASSUME NEW r \in AReqs
          PROVE  /\ areq'[r].pc # "idle" => areq'[r].role \in RoleKeys
                 /\ areq'[r].pc = "store" /\ areq'[r].keys => sinceGranted'[areq'[r].role] <= areq'[r].age
                 /\ areq'[r].pc = "allowed" => sinceGranted'[areq'[r].role] <= CacheTTL + MaxLoad + areq'[r].age
      <3>0. areq[r].age \in Nat
        BY <1>0 DEF AuthTypeOK
      <3>1. areq[r].pc # "idle" => areq[r].role \in RoleKeys
        BY <1>0 DEF GrantsRemembered
      <3>2. CASE areq[r].pc = "store" /\ areq[r].keys
        <4>1. sinceGranted[areq[r].role] <= areq[r].age
          BY <1>0, <3>2 DEF GrantsRemembered
        <4> QED
          BY <1>1, <1>3, <3>0, <3>1, <3>2, <4>1
      <3>3. CASE areq[r].pc = "allowed"
        <4>1. sinceGranted[areq[r].role] <= CacheTTL + MaxLoad + areq[r].age
          BY <1>0, <3>3 DEF GrantsRemembered
        <4> QED
          BY <1>1, <1>3, <3>0, <3>1, <3>3, <4>1
      <3> QED
        BY <1>1, <3>1, <3>2, <3>3
    <2> QED
      BY <2>1, <2>2, <2>3 DEF GrantsRemembered
  <1>8. RolesRemembered'
    <2>1. sinceHeld'[arole'] = 0
      BY <1>0 DEF AuthTick, AuthTypeOK
    <2>2. atok'.left > 0 => sinceHeld'[atok'.role] + atok'.left <= AccessTTL
      <3>1. atok.left > 0 => sinceHeld[atok.role] + atok.left <= AccessTTL
        BY <1>0 DEF RolesRemembered
      <3> QED
        BY <1>2, <1>5, <3>1
    <2>3. ASSUME NEW r \in AReqs, areq'[r].pc # "idle"
          PROVE  sinceHeld'[areq'[r].role] <= AccessTTL + areq'[r].age
      <3>1. areq[r].pc # "idle" /\ areq[r].role \in RoleKeys /\ areq[r].age \in Nat
        BY <1>0, <1>1, <2>3 DEF GrantsRemembered, AuthTypeOK
      <3>2. sinceHeld[areq[r].role] <= AccessTTL + areq[r].age
        BY <1>0, <3>1 DEF RolesRemembered
      <3> QED
        BY <1>1, <1>2, <3>1, <3>2
    <2> QED
      BY <2>1, <2>2, <2>3 DEF RolesRemembered
  <1> QED
    BY <1>6, <1>7, <1>8 DEF AuthInv

LEMMA RightsInv ==
    ASSUME AuthInv,
           \/ \E x \in RoleKeys : ChangeRole(x)
           \/ \E g \in SUBSET RoleKeys : EditGrants(g)
           \/ IssueClaims \/ Invalidate \/ UNCHANGED zvars
    PROVE  AuthInv'
  <1>0. AuthTypeOK /\ GrantsRemembered /\ RolesRemembered
    BY DEF AuthInv
  <1> USE AuthTimes
  <1>1. ASSUME NEW x \in RoleKeys, ChangeRole(x) PROVE AuthInv'
    <2>1. /\ sinceHeld' \in [RoleKeys -> 0..LongHeld] /\ sinceHeld'[x] = 0
          /\ \A y \in RoleKeys : sinceHeld'[y] <= sinceHeld[y] /\ sinceHeld[y] \in Nat
          /\ arole' = x /\ UNCHANGED <<granted, cache, atok, areq, sinceGranted>>
      BY <1>0, <1>1 DEF ChangeRole, AuthTypeOK
    <2>2. AuthTypeOK'
      BY <1>0, <2>1 DEF AuthTypeOK, LongHeld, LongGranted
    <2>3. GrantsRemembered'
      BY <1>0, <2>1 DEF GrantsRemembered
    <2>4. atok'.left > 0 => sinceHeld'[atok'.role] + atok'.left <= AccessTTL
      <3>1. atok.role \in RoleKeys /\ atok.left \in Nat
        BY <1>0 DEF AuthTypeOK
      <3>2. atok.left > 0 => sinceHeld[atok.role] + atok.left <= AccessTTL
        BY <1>0 DEF RolesRemembered
      <3>3. sinceHeld'[atok.role] <= sinceHeld[atok.role] /\ sinceHeld[atok.role] \in Nat /\ sinceHeld'[atok.role] \in Nat
        BY <2>1, <3>1
      <3> QED
        BY <2>1, <3>1, <3>2, <3>3
    <2>5. ASSUME NEW r \in AReqs, areq'[r].pc # "idle"
          PROVE  sinceHeld'[areq'[r].role] <= AccessTTL + areq'[r].age
      <3>1. areq[r].role \in RoleKeys /\ areq[r].age \in Nat /\ sinceHeld[areq[r].role] <= AccessTTL + areq[r].age
        BY <1>0, <2>1, <2>5 DEF GrantsRemembered, RolesRemembered, AuthTypeOK
      <3>3. sinceHeld'[areq[r].role] <= sinceHeld[areq[r].role] /\ sinceHeld[areq[r].role] \in Nat /\ sinceHeld'[areq[r].role] \in Nat
        BY <2>1, <3>1
      <3> QED
        BY <2>1, <3>1, <3>3
    <2>6. RolesRemembered'
      BY <2>1, <2>4, <2>5 DEF RolesRemembered
    <2> QED
      BY <2>2, <2>3, <2>6 DEF AuthInv
  <1>2. ASSUME NEW g \in SUBSET RoleKeys, EditGrants(g) PROVE AuthInv'
    <2>1. /\ sinceGranted' \in [RoleKeys -> 0..LongGranted] /\ granted' = g
          /\ \A y \in g : sinceGranted'[y] = 0
          /\ UNCHANGED <<arole, cache, atok, areq, sinceHeld>>
      BY <1>0, <1>2 DEF EditGrants, AuthTypeOK
    <2>2. ASSUME NEW y \in RoleKeys
          PROVE  sinceGranted'[y] <= sinceGranted[y] /\ sinceGranted[y] \in Nat /\ sinceGranted'[y] \in Nat
      BY <1>0, <1>2 DEF EditGrants, AuthTypeOK
    <2>3. AuthTypeOK'
      BY <1>0, <2>1 DEF AuthTypeOK, LongHeld, LongGranted
    <2>4. ASSUME NEW y \in RoleKeys, cache[y] # NoEntry, cache[y].keys, cache[y].left > 0
          PROVE  sinceGranted'[y] + cache[y].left <= CacheTTL + MaxLoad
      <3>1. cache[y].left \in Nat
        BY <1>0, <2>4 DEF AuthTypeOK
      <3>2. sinceGranted[y] + cache[y].left <= CacheTTL + MaxLoad
        BY <1>0, <2>4 DEF GrantsRemembered
      <3> QED
        BY <2>2, <3>1, <3>2
    <2>5. ASSUME NEW r \in AReqs
          PROVE  /\ areq[r].pc # "idle" => areq[r].role \in RoleKeys
                 /\ areq[r].pc = "store" /\ areq[r].keys => sinceGranted'[areq[r].role] <= areq[r].age
                 /\ areq[r].pc = "allowed" => sinceGranted'[areq[r].role] <= CacheTTL + MaxLoad + areq[r].age
      <3>0. areq[r].age \in Nat /\ (areq[r].pc # "idle" => areq[r].role \in RoleKeys)
        BY <1>0 DEF AuthTypeOK, GrantsRemembered
      <3>1. CASE areq[r].pc = "store" /\ areq[r].keys
        <4>1. sinceGranted[areq[r].role] <= areq[r].age
          BY <1>0, <3>1 DEF GrantsRemembered
        <4> QED
          BY <2>2, <3>0, <3>1, <4>1
      <3>2. CASE areq[r].pc = "allowed"
        <4>1. sinceGranted[areq[r].role] <= CacheTTL + MaxLoad + areq[r].age
          BY <1>0, <3>2 DEF GrantsRemembered
        <4> QED
          BY <2>2, <3>0, <3>2, <4>1
      <3> QED
        BY <3>0, <3>1, <3>2
    <2>6. GrantsRemembered'
      BY <2>1, <2>4, <2>5 DEF GrantsRemembered
    <2>7. RolesRemembered'
      BY <1>0, <2>1 DEF RolesRemembered
    <2> QED
      BY <2>3, <2>6, <2>7 DEF AuthInv
  <1>3. CASE IssueClaims
    <2>1. /\ atok' \in [role: RoleKeys, left: 0..AccessTTL] /\ atok'.role = arole /\ atok'.left = AccessTTL
          /\ UNCHANGED <<arole, granted, cache, areq, sinceHeld, sinceGranted>>
      BY <1>0, <1>3 DEF IssueClaims, AuthTypeOK
    <2>2. AuthTypeOK' /\ GrantsRemembered'
      BY <1>0, <2>1 DEF AuthTypeOK, GrantsRemembered, LongHeld, LongGranted
    <2>3. sinceHeld'[atok'.role] + atok'.left <= AccessTTL
      BY <1>0, <2>1 DEF RolesRemembered
    <2>4. RolesRemembered'
      BY <1>0, <2>1, <2>3 DEF RolesRemembered
    <2> QED
      BY <2>2, <2>4 DEF AuthInv
  <1>4. CASE Invalidate
    <2>1. /\ cache' \in [RoleKeys -> [keys: BOOLEAN, left: 0..CacheTTL] \cup {NoEntry}]
          /\ \A x \in RoleKeys : cache'[x] = NoEntry
          /\ UNCHANGED <<arole, granted, atok, areq, sinceHeld, sinceGranted>>
      BY <1>4 DEF Invalidate
    <2> QED
      BY <1>0, <2>1 DEF AuthInv, AuthTypeOK, GrantsRemembered, RolesRemembered, LongHeld, LongGranted
  <1>5. CASE UNCHANGED zvars
    BY <1>0, <1>5 DEF zvars, AuthInv, AuthTypeOK, GrantsRemembered, RolesRemembered, LongHeld, LongGranted
  <1> QED
    BY <1>1, <1>2, <1>3, <1>4, <1>5

\* A right that was withdrawn ends within the lifetimes of cache entry, token
\* and request, for any roles, requests and lifetimes: also when a slow reader
\* stores an old reading over a newer one.
THEOREM RightsEnd == AuthSpec => []WithdrawnRightsEnd
  <1>1. AuthInit => AuthInv
    <2> SUFFICES ASSUME AuthInit PROVE AuthInv
      OBVIOUS
    <2>1. AuthTypeOK
      <3>1. Ready \in [pc: Stages, role: RoleKeys \cup {NoEntry}, keys: BOOLEAN, age: 0..MaxLoad]
        BY AuthTimes DEF Ready, Stages
      <3>2. areq \in [AReqs -> [pc: Stages, role: RoleKeys \cup {NoEntry}, keys: BOOLEAN, age: 0..MaxLoad]]
        BY <3>1 DEF AuthInit
      <3>3. sinceHeld \in [RoleKeys -> 0..LongHeld] /\ sinceGranted \in [RoleKeys -> 0..LongGranted]
        BY AuthTimes DEF AuthInit
      <3>4. cache \in [RoleKeys -> [keys: BOOLEAN, left: 0..CacheTTL] \cup {NoEntry}]
        BY DEF AuthInit
      <3>5. atok \in [role: RoleKeys, left: 0..AccessTTL]
        BY AuthTimes DEF AuthInit
      <3> QED
        BY <3>2, <3>3, <3>4, <3>5 DEF AuthInit, AuthTypeOK
    <2>2. \A r \in AReqs : areq[r].pc = "idle"
      BY DEF AuthInit, Ready
    <2>3. GrantsRemembered
      BY <2>2 DEF AuthInit, GrantsRemembered
    <2>4. sinceHeld[arole] = 0 /\ atok.role = arole /\ atok.left = AccessTTL
      BY DEF AuthInit
    <2>5. RolesRemembered
      BY <2>2, <2>4, AuthTimes DEF RolesRemembered
    <2> QED
      BY <2>1, <2>3, <2>5 DEF AuthInv
  <1>2. AuthInv /\ [AuthNext]_zvars => AuthInv'
    BY RequestInv, TickInv, RightsInv DEF AuthNext
  <1>3. AuthInv => WithdrawnRightsEnd
    <2> SUFFICES ASSUME AuthInv PROVE WithdrawnRightsEnd
      OBVIOUS
    <2>1. ASSUME NEW r \in AReqs
          PROVE  areq[r].age \in 0..MaxLoad /\ (areq[r].pc # "idle" => areq[r].role \in RoleKeys)
      BY DEF AuthInv, AuthTypeOK, GrantsRemembered
    <2>2. ASSUME NEW x \in RoleKeys PROVE sinceHeld[x] \in Nat /\ sinceGranted[x] \in Nat
      BY AuthTimes DEF AuthInv, AuthTypeOK
    <2>3. ASSUME NEW r \in AReqs, areq[r].pc = "allowed"
          PROVE  sinceGranted[areq[r].role] <= CacheTTL + 2 * MaxLoad
      <3>1. sinceGranted[areq[r].role] <= CacheTTL + MaxLoad + areq[r].age
        BY <2>3 DEF AuthInv, GrantsRemembered
      <3> QED
        BY <2>1, <2>2, <2>3, <3>1, AuthTimes
    <2>4. ASSUME NEW r \in AReqs, areq[r].pc # "idle"
          PROVE  sinceHeld[areq[r].role] <= AccessTTL + MaxLoad
      <3>1. sinceHeld[areq[r].role] <= AccessTTL + areq[r].age
        BY <2>4 DEF AuthInv, RolesRemembered
      <3> QED
        BY <2>1, <2>2, <2>4, <3>1, AuthTimes
    <2> QED
      BY <2>3, <2>4 DEF AuthInv, WithdrawnRightsEnd, WithdrawnKeyEnds, WithdrawnRoleEnds
  <1> QED
    BY <1>1, <1>2, <1>3, PTL DEF AuthSpec


-----------------------------------------------------------------------------
(* Sessions                                                                *)

\* A token that a step leaves usable was usable, and it is the same token.
SameTokens ==
    \A t \in Toks : (Usable(t))' => /\ Usable(t)
                                    /\ tok'[t].basis = tok[t].basis
                                    /\ tok'[t].fam = tok[t].fam

\* The old tokens still have an excuse, or none is usable any more.
LEMMA StaleKept ==
    ASSUME SessInv, SameTokens, straddled \subseteq straddled', halfDone => halfDone',
           \/ /\ user'.pw = user.pw
              /\ (\E q \in SReqs : Revoking(q)) => halfDone' \/ \E q \in SReqs : rq'[q].pc \in {"revokeOwn", "revoke"}
           \/ \E q \in SReqs : rq'[q].pc \in {"revokeOwn", "revoke"}
           \/ \A t \in Toks : ~(Usable(t))'
    PROVE  StaleSessionsEnd'
  <1> SUFFICES ASSUME NEW t \in Toks, (Usable(t))', tok'[t].basis # user'.pw, ~halfDone',
                      ~\E q \in SReqs : rq'[q].pc \in {"revokeOwn", "revoke"}
               PROVE  tok'[t].fam \in straddled'
    BY DEF StaleSessionsEnd
  <1>1. Usable(t) /\ tok[t].basis # user.pw /\ tok'[t].fam = tok[t].fam
    BY DEF SameTokens
  <1>2. ~halfDone /\ ~\E q \in SReqs : Revoking(q)
    OBVIOUS
  <1>3. tok[t].fam \in straddled
    BY <1>1, <1>2 DEF SessInv, SessionsEnd, StaleSessionsEnd, Revoking
  <1> QED
    BY <1>1, <1>3

\* No step revokes one row of a family and leaves another usable.
LEMMA FamilyKept ==
    ASSUME SessInv, SameTokens, straddled \subseteq straddled',
           \A t, u \in Toks :
              (Usable(t))' /\ u \in Rows' /\ tok'[u].rev /\ tok'[t].fam = tok'[u].fam
                  => u \in Rows /\ tok[u].rev /\ tok[u].fam = tok'[u].fam
    PROVE  RevokedFamilyDead'
  <1> SUFFICES ASSUME NEW t \in Rows', NEW u \in Rows', tok'[t].fam = tok'[u].fam, tok'[u].rev, (Usable(t))'
               PROVE  tok'[t].fam \in straddled'
    BY DEF RevokedFamilyDead
  <1>1. t \in Toks /\ u \in Toks
    BY DEF Rows
  <1>2. u \in Rows /\ tok[u].rev /\ tok[u].fam = tok[t].fam /\ Usable(t) /\ tok'[t].fam = tok[t].fam
    BY <1>1 DEF SameTokens
  <1>3. t \in Rows
    BY <1>2 DEF Usable
  <1> QED
    BY <1>2, <1>3 DEF SessInv, SessionsEnd, RevokedFamilyDead

\* A step of one request that revokes nothing.
LEMMA RequestStep ==
    ASSUME SessInv, NEW r \in SReqs, NEW new \in Request, rq' = [rq EXCEPT ![r] = new],
           user' \in [present: BOOLEAN, pw: 0..MaxPw], sfaults' \in 0..MaxSFaults,
           halfDone' \in BOOLEAN, halfDone => halfDone',
           straddled' \subseteq Toks, straddled \subseteq straddled',
           tok' \in [Toks -> Token \cup {NoTok}],
           StaleSessionsEnd', RevokedFamilyDead',
           user'.pw = user.pw \/ new.pc \in {"revokeOwn", "revoke"},
           Revoking(r) => halfDone' \/ new.pc \in {"revokeOwn", "revoke"},
           \A u \in Rows' : tok'[u].rev => u \in Rows /\ tok[u].rev /\ tok'[u].fam = tok[u].fam,
           new.pc \in {"revokeOwn", "reread", "create"} /\ new.basis # user'.pw =>
              \/ new.overtaken
              \/ new.fam \in straddled'
              \/ halfDone'
              \/ \E q \in SReqs \ {r} : Revoking(q),
           new.pc \in {"reread", "create"} =>
              \A u \in Rows : tok[u].fam = new.fam /\ tok[u].rev => new.overtaken \/ new.fam \in straddled',
           new.pc = "revokeOwn" => new.fam = NoTok
    PROVE  SessInv'
  <1>1. SessTypeOK /\ rq \in [SReqs -> Request]
    BY DEF SessInv, SessionsEnd, SessTypeOK
  <1>2. rq'[r] = new /\ rq' \in [SReqs -> Request] /\ \A s \in SReqs \ {r} : rq'[s] = rq[s]
    BY <1>1
  <1>3. SessTypeOK'
    BY <1>2 DEF SessTypeOK, Token, Request
  <1>4. ASSUME NEW s \in SReqs PROVE (StaleOf(s))'
    <2>1. CASE s = r
      <3>1. ASSUME NEW q \in SReqs \ {r}, Revoking(q) PROVE (Revoking(q))'
        BY <1>2, <3>1 DEF Revoking
      <3> QED
        BY <1>2, <2>1, <3>1 DEF StaleOf
    <2>2. CASE s # r
      <3>0. rq'[s] = rq[s]
        BY <1>2, <2>2
      <3>1. CASE new.pc \in {"revokeOwn", "revoke"}
        <4>1. (Revoking(r))'
          BY <1>2, <3>1 DEF Revoking
        <4> QED
          BY <2>2, <4>1 DEF StaleOf
      <3>2. CASE new.pc \notin {"revokeOwn", "revoke"}
        <4>1. user'.pw = user.pw /\ StaleOf(s)
          BY <3>2 DEF SessInv
        <4>2. ASSUME NEW q \in SReqs \ {s}, Revoking(q) PROVE halfDone' \/ (Revoking(q))'
          BY <1>2, <3>2, <4>2 DEF Revoking
        <4> QED
          BY <3>0, <4>1, <4>2 DEF StaleOf
      <3> QED
        BY <3>1, <3>2
    <2> QED
      BY <2>1, <2>2
  <1>5. ASSUME NEW s \in SReqs PROVE (RevokedOf(s))'
    <2>1. RevokedOf(s)
      BY DEF SessInv
    <2>2. CASE s = r
      BY <1>2, <2>2 DEF RevokedOf
    <2>3. CASE s # r
      BY <1>2, <2>1, <2>3 DEF RevokedOf
    <2> QED
      BY <2>2, <2>3
  <1> QED
    BY <1>3, <1>4, <1>5 DEF SessInv, SessionsEnd

\* What Revoked leaves of a row.
LEMMA RevokedRows ==
    ASSUME SessTypeOK, NEW fams, tok' = Revoked(fams)
    PROVE  /\ tok' \in [Toks -> Token \cup {NoTok}]
           /\ \A t \in Toks :
                 \/ t \in Rows /\ tok[t].fam \in fams /\ ~(Usable(t))' /\ tok'[t].fam = tok[t].fam
                 \/ (t \in Rows => tok[t].fam \notin fams) /\ tok'[t] = tok[t]
           /\ \A t \in Rows' : t \in Rows /\ tok'[t].fam = tok[t].fam
           /\ SameTokens
  <1>1. ASSUME NEW t \in Toks, t \in Rows, tok[t].fam \in fams
        PROVE  tok'[t] \in Token /\ ~(Usable(t))' /\ tok'[t].fam = tok[t].fam
    <2>1. tok[t] \in Token
      BY <1>1 DEF SessTypeOK, Rows
    <2>2. tok'[t] = [tok[t] EXCEPT !.rev = TRUE]
      BY <1>1 DEF Revoked
    <2>3. tok'[t] \in Token /\ tok'[t].rev /\ tok'[t].fam = tok[t].fam
      BY <2>1, <2>2 DEF Token
    <2> QED
      BY <2>3 DEF Usable
  <1>2. ASSUME NEW t \in Toks, ~(t \in Rows /\ tok[t].fam \in fams)
        PROVE  tok'[t] = tok[t] /\ tok'[t] \in Token \cup {NoTok}
    BY <1>2 DEF Revoked, SessTypeOK
  <1>3. tok' \in [Toks -> Token \cup {NoTok}]
    BY <1>1, <1>2 DEF Revoked
  <1>4. \A t \in Rows' : t \in Rows /\ tok'[t].fam = tok[t].fam
    BY <1>1, <1>2 DEF Rows
  <1>5. SameTokens
    BY <1>1, <1>2 DEF SameTokens, Usable, Rows
  <1> QED
    BY <1>1, <1>2, <1>3, <1>4, <1>5

\* Overtake notes the revocation in the requests it concerns, nothing else.
LEMMA Overtaken ==
    ASSUME rq \in [SReqs -> Request], NEW fams, NEW r \in SReqs
    PROVE  LET o == Overtake(rq, fams)[r] IN
           /\ o \in Request /\ o.pc = rq[r].pc /\ o.basis = rq[r].basis /\ o.fam = rq[r].fam
           /\ rq[r].overtaken => o.overtaken
           /\ rq[r].pc \in {"revokeOwn", "reread", "create"} /\ rq[r].fam \in fams => o.overtaken
  <1> DEFINE b == rq[r].overtaken \/ (rq[r].pc \in {"revokeOwn", "reread", "create"} /\ rq[r].fam \in fams)
             o == Overtake(rq, fams)[r]
  <1>1. o = [rq[r] EXCEPT !.overtaken = b]
    BY DEF Overtake
  <1>2. /\ b \in BOOLEAN
        /\ rq[r].overtaken => b
        /\ rq[r].pc \in {"revokeOwn", "reread", "create"} /\ rq[r].fam \in fams => b
    BY DEF Request
  <1>3. rq[r] \in Request
    OBVIOUS
  <1> HIDE DEF b, o
  <1>4. o \in Request /\ o.pc = rq[r].pc /\ o.basis = rq[r].basis /\ o.fam = rq[r].fam /\ o.overtaken = b
    BY <1>1, <1>2, <1>3 DEF Request
  <1> QED
    BY <1>2, <1>4 DEF o

\* A logout, or the replay of a rotated token: one family goes.
LEMMA FamilyStep ==
    ASSUME SessInv, NEW f \in Toks, tok' = Revoked({f}), rq' = Overtake(rq, {f}),
           UNCHANGED <<user, straddled, halfDone, sfaults>>
    PROVE  SessInv'
  <1>1. SessTypeOK /\ rq \in [SReqs -> Request]
    BY DEF SessInv, SessionsEnd, SessTypeOK
  <1>2. /\ tok' \in [Toks -> Token \cup {NoTok}] /\ SameTokens
        /\ \A t \in Toks :
              \/ t \in Rows /\ tok[t].fam = f /\ ~(Usable(t))' /\ tok'[t].fam = tok[t].fam
              \/ (t \in Rows => tok[t].fam # f) /\ tok'[t] = tok[t]
        /\ \A t \in Rows' : t \in Rows /\ tok'[t].fam = tok[t].fam
    <2>1. /\ tok' \in [Toks -> Token \cup {NoTok}]
          /\ \A t \in Toks :
                \/ t \in Rows /\ tok[t].fam \in {f} /\ ~(Usable(t))' /\ tok'[t].fam = tok[t].fam
                \/ (t \in Rows => tok[t].fam \notin {f}) /\ tok'[t] = tok[t]
          /\ \A t \in Rows' : t \in Rows /\ tok'[t].fam = tok[t].fam
          /\ SameTokens
      BY <1>1, RevokedRows
    <2> QED
      BY <2>1
  <1>3. \A s \in SReqs :
           /\ rq'[s] \in Request /\ rq'[s].pc = rq[s].pc /\ rq'[s].basis = rq[s].basis /\ rq'[s].fam = rq[s].fam
           /\ rq[s].overtaken => rq'[s].overtaken
           /\ rq[s].pc \in {"revokeOwn", "reread", "create"} /\ rq[s].fam = f => rq'[s].overtaken
    BY <1>1, Overtaken
  <1>4. SessTypeOK'
    <2>1. rq' \in [SReqs -> Request]
      BY <1>3 DEF Overtake
    <2> QED
      BY <1>1, <1>2, <2>1 DEF SessTypeOK, Token, Request
  <1>5. StaleSessionsEnd'
    BY <1>2, <1>3, StaleKept DEF Revoking
  <1>6. RevokedFamilyDead'
    <2>1. ASSUME NEW t \in Toks, NEW u \in Toks, (Usable(t))', u \in Rows', tok'[u].rev, tok'[t].fam = tok'[u].fam
          PROVE  u \in Rows /\ tok[u].rev /\ tok[u].fam = tok'[u].fam
      <3>1. t \in Rows' /\ u \in Rows /\ tok'[u].fam = tok[u].fam /\ tok'[t].fam = tok[t].fam /\ t \in Rows
        BY <1>2, <2>1 DEF Usable
      <3>2. tok[t].fam # f
        BY <1>2, <2>1, <3>1
      <3>3. tok'[u] = tok[u]
        BY <1>2, <2>1, <3>1, <3>2
      <3> QED
        BY <2>1, <3>1, <3>3
    <2> QED
      BY <1>2, <2>1, FamilyKept
  <1>7. ASSUME NEW s \in SReqs PROVE (StaleOf(s))'
    <2>1. StaleOf(s)
      BY DEF SessInv
    <2>2. ASSUME NEW q \in SReqs, Revoking(q) PROVE (Revoking(q))'
      BY <1>3, <2>2 DEF Revoking
    <2> QED
      BY <1>3, <2>1, <2>2 DEF StaleOf
  <1>8. ASSUME NEW s \in SReqs PROVE (RevokedOf(s))'
    <2>1. RevokedOf(s)
      BY DEF SessInv
    <2>2. rq'[s].pc = "revokeOwn" => rq'[s].fam = NoTok
      BY <1>3, <2>1 DEF RevokedOf
    <2>3. ASSUME rq'[s].pc \in {"reread", "create"}, NEW u \in Rows', tok'[u].fam = rq'[s].fam, tok'[u].rev
          PROVE  rq'[s].overtaken \/ rq'[s].fam \in straddled'
      <3>1. u \in Toks /\ u \in Rows /\ tok[u].fam = rq[s].fam
        BY <1>2, <1>3, <2>3 DEF Rows
      <3>2. CASE tok[u].fam = f
        BY <1>3, <2>3, <3>1, <3>2
      <3>3. CASE tok[u].fam # f
        <4>1. tok[u].rev
          BY <1>2, <2>3, <3>1, <3>3
        <4> QED
          BY <1>3, <2>1, <2>3, <3>1, <4>1 DEF RevokedOf
      <3> QED
        BY <3>2, <3>3
    <2> QED
      BY <2>2, <2>3 DEF RevokedOf
  <1> QED
    BY <1>4, <1>5, <1>6, <1>7, <1>8 DEF SessInv, SessionsEnd

\* A revocation of all tokens: every request under way is overtaken, but for
\* the one that asked for it and chose the password.
LEMMA AllStep ==
    ASSUME SessInv, tok' = RevokeAllForUser, UNCHANGED <<straddled, halfDone, sfaults>>,
           user' \in [present: BOOLEAN, pw: 0..MaxPw],
           NEW r \in SReqs, rq' \in [SReqs -> Request],
           \A s \in SReqs \ {r} : rq'[s] = Overtake(rq, Toks \cup {NoTok})[s],
           \/ rq'[r].pc = "idle"
           \/ /\ rq[r].pc = "revokeOwn" /\ user'.pw = user.pw
              /\ rq'[r] = [rq[r] EXCEPT !.pc = "create"]
    PROVE  SessInv'
  <1>1. SessTypeOK /\ rq \in [SReqs -> Request]
    BY DEF SessInv, SessionsEnd, SessTypeOK
  <1>2. /\ tok' \in [Toks -> Token \cup {NoTok}]
        /\ \A t \in Toks : ~(Usable(t))'
        /\ \A t \in Rows' : t \in Rows /\ tok'[t].fam = tok[t].fam /\ tok[t].fam \in Toks
    <2>1. \A t \in Rows : tok[t].fam \in Toks
      BY <1>1 DEF SessTypeOK, Rows, Token
    <2>2. tok' = Revoked(Toks)
      BY DEF RevokeAllForUser
    <2>3. /\ tok' \in [Toks -> Token \cup {NoTok}]
          /\ \A t \in Toks :
                \/ t \in Rows /\ tok[t].fam \in Toks /\ ~(Usable(t))' /\ tok'[t].fam = tok[t].fam
                \/ (t \in Rows => tok[t].fam \notin Toks) /\ tok'[t] = tok[t]
          /\ \A t \in Rows' : t \in Rows /\ tok'[t].fam = tok[t].fam
      BY <1>1, <2>2, RevokedRows
    <2>4. \A t \in Toks : t \notin Rows => t \notin Rows'
      BY <2>3
    <2>5. ASSUME NEW t \in Toks PROVE ~(Usable(t))'
      BY <2>1, <2>3, <2>4 DEF Usable
    <2> QED
      BY <2>1, <2>3, <2>5 DEF Rows
  <1>3. \A s \in SReqs \ {r} :
           /\ rq'[s] \in Request /\ rq'[s].pc = rq[s].pc /\ rq'[s].fam = rq[s].fam
           /\ rq[s].pc \in {"revokeOwn", "reread", "create"} => rq'[s].overtaken
    <2>1. \A s \in SReqs : rq[s].fam \in Toks \cup {NoTok}
      BY <1>1 DEF Request
    <2> QED
      BY <1>1, <2>1, Overtaken
  <1>4. SessTypeOK'
    BY <1>1, <1>2 DEF SessTypeOK, Token, Request
  <1>5. StaleSessionsEnd' /\ RevokedFamilyDead'
    BY <1>2 DEF StaleSessionsEnd, RevokedFamilyDead, Rows
  <1>6. CASE rq'[r].pc = "idle"
    BY <1>3, <1>4, <1>5, <1>6 DEF SessInv, SessionsEnd, StaleOf, RevokedOf
  <1>7. CASE /\ rq[r].pc = "revokeOwn" /\ user'.pw = user.pw
             /\ rq'[r] = [rq[r] EXCEPT !.pc = "create"]
    <2>0. /\ rq'[r].pc = "create" /\ rq'[r].fam = rq[r].fam /\ rq'[r].basis = rq[r].basis
          /\ rq'[r].overtaken = rq[r].overtaken
      BY <1>1, <1>7 DEF Request
    <2>1. StaleOf(r) /\ rq[r].fam = NoTok
      BY <1>7 DEF SessInv, RevokedOf
    <2>2. ASSUME NEW q \in SReqs \ {r}, Revoking(q) PROVE (Revoking(q))'
      BY <1>3, <2>2 DEF Revoking
    <2>3. (StaleOf(r))'
      BY <1>7, <2>0, <2>1, <2>2 DEF StaleOf
    <2>4. (RevokedOf(r))'
      <3>1. \A u \in Rows' : tok'[u].fam # NoTok
        BY <1>2, SessAssumption
      <3> QED
        BY <2>0, <2>1, <3>1 DEF RevokedOf
    <2>5. ASSUME NEW s \in SReqs \ {r} PROVE (StaleOf(s))' /\ (RevokedOf(s))'
      <3>1. RevokedOf(s)
        BY DEF SessInv
      <3> QED
        BY <1>3, <3>1 DEF StaleOf, RevokedOf
    <2> QED
      BY <1>4, <1>5, <2>3, <2>4, <2>5 DEF SessInv, SessionsEnd
  <1> QED
    BY <1>6, <1>7

\* A step that inserts nothing, revokes nothing and changes no password leaves
\* the statements about tokens alone.
LEMMA QuietTokens ==
    ASSUME SessInv, SameTokens, UNCHANGED straddled, halfDone => halfDone', user'.pw = user.pw,
           \A u \in Rows' : u \in Rows /\ tok'[u].fam = tok[u].fam /\ (tok'[u].rev => tok[u].rev),
           \A q \in SReqs : Revoking(q) => halfDone' \/ rq'[q].pc \in {"revokeOwn", "revoke"}
    PROVE  StaleSessionsEnd' /\ RevokedFamilyDead'
  <1>1. StaleSessionsEnd'
    BY StaleKept
  <1>2. RevokedFamilyDead'
    BY FamilyKept DEF SameTokens
  <1> QED
    BY <1>1, <1>2

LEMMA SameRows ==
    ASSUME SessInv, UNCHANGED tok
    PROVE  /\ SameTokens /\ tok' \in [Toks -> Token \cup {NoTok}]
           /\ \A u \in Rows' : u \in Rows /\ tok'[u] = tok[u]
  BY DEF SameTokens, Usable, Rows, SessInv, SessionsEnd, SessTypeOK

\* A request begins or goes on, and neither tokens nor account change.
LEMMA OwnStep ==
    ASSUME SessInv, NEW r \in SReqs, NEW new \in Request, rq' = [rq EXCEPT ![r] = new],
           UNCHANGED <<user, tok, straddled>>, sfaults' \in 0..MaxSFaults,
           halfDone' \in BOOLEAN, halfDone => halfDone', Revoking(r) => halfDone',
           new.pc \in {"revokeOwn", "reread", "create"} /\ new.basis # user.pw =>
              \/ new.overtaken
              \/ new.fam \in straddled
              \/ \E q \in SReqs \ {r} : Revoking(q)
              \/ halfDone,
           new.pc \in {"reread", "create"} =>
              \A u \in Rows : tok[u].fam = new.fam /\ tok[u].rev => new.overtaken \/ new.fam \in straddled,
           new.pc = "revokeOwn" => new.fam = NoTok
    PROVE  SessInv'
  <1>1. /\ SameTokens /\ tok' \in [Toks -> Token \cup {NoTok}]
        /\ \A u \in Rows' : u \in Rows /\ tok'[u] = tok[u]
    BY SameRows
  <1>2. rq \in [SReqs -> Request] /\ straddled \subseteq Toks /\ user \in [present: BOOLEAN, pw: 0..MaxPw]
    BY DEF SessInv, SessionsEnd, SessTypeOK, Request
  <1>3. \A q \in SReqs : Revoking(q) => halfDone' \/ rq'[q].pc \in {"revokeOwn", "revoke"}
    BY <1>2 DEF Revoking
  <1>4. StaleSessionsEnd' /\ RevokedFamilyDead'
    BY <1>1, <1>3, QuietTokens
  <1> QED
    BY <1>1, <1>2, <1>4, RequestStep

\* The password changes; the request that changed it goes on to the revocation.
LEMMA PasswordStep ==
    ASSUME SessInv, NEW r \in SReqs, NEW new \in Request, rq' = [rq EXCEPT ![r] = new],
           user.pw < MaxPw, user' = [user EXCEPT !.pw = user.pw + 1],
           new.pc \in {"revokeOwn", "revoke"}, new.basis = user.pw + 1, new.fam = NoTok,
           UNCHANGED <<tok, straddled, halfDone, sfaults>>
    PROVE  SessInv'
  <1>1. /\ SameTokens /\ tok' \in [Toks -> Token \cup {NoTok}]
        /\ \A u \in Rows' : u \in Rows /\ tok'[u] = tok[u]
    BY SameRows
  <1>2. /\ rq \in [SReqs -> Request] /\ straddled \subseteq Toks /\ user \in [present: BOOLEAN, pw: 0..MaxPw]
        /\ halfDone \in BOOLEAN /\ sfaults \in 0..MaxSFaults
    BY DEF SessInv, SessionsEnd, SessTypeOK, Request
  <1>3. user' \in [present: BOOLEAN, pw: 0..MaxPw] /\ user'.pw = user.pw + 1
    BY <1>2, SessAssumption
  <1>4. rq'[r] = new
    BY <1>2
  <1>5. StaleSessionsEnd'
    BY <1>1, <1>4, StaleKept
  <1>6. RevokedFamilyDead'
    BY <1>1, FamilyKept DEF SameTokens
  <1> QED
    BY <1>1, <1>2, <1>3, <1>5, <1>6, RequestStep

LEMMA CreateInv ==
    ASSUME SessInv, NEW r \in SReqs, CreateToken(r)
    PROVE  SessInv'
  <1>1. SessTypeOK /\ rq \in [SReqs -> Request] /\ rq[r] \in Request /\ Idle \in Request
    BY SessAssumption DEF SessInv, SessionsEnd, SessTypeOK, Idle, Request
  <1>2. rq[r].pc = "create" /\ rq' = [rq EXCEPT ![r] = Idle] /\ UNCHANGED <<user, halfDone, sfaults>>
    BY DEF CreateToken
  <1>3. ~Revoking(r) /\ StaleOf(r) /\ RevokedOf(r)
    BY <1>2 DEF Revoking, SessInv
  <1>4. CASE ~user.present
    <2>1. UNCHANGED <<tok, straddled>>
      BY <1>4 DEF CreateToken
    <2> QED
      BY <1>1, <1>2, <1>3, <2>1, OwnStep DEF Idle, SessTypeOK
  <1>5. CASE user.present
    <2>0. PICK t \in Fresh :
             LET f == IF rq[r].fam = NoTok THEN t ELSE rq[r].fam IN
             /\ tok' = [tok EXCEPT ![t] =
                   [fam |-> f, basis |-> rq[r].basis, rot |-> "no", rev |-> FALSE, life |-> "valid"]]
             /\ straddled' = IF rq[r].overtaken THEN straddled \cup {f} ELSE straddled
      BY <1>5 DEF CreateToken
    <2> DEFINE f == IF rq[r].fam = NoTok THEN t ELSE rq[r].fam
               new == [fam |-> f, basis |-> rq[r].basis, rot |-> "no", rev |-> FALSE, life |-> "valid"]
    <2>1. t \in Toks /\ t \notin Rows /\ (\A u \in Rows : tok[u].fam # t) /\ f \in Toks
      BY <1>1 DEF Fresh, Request
    <2>2. new \in Token /\ new.fam = f /\ new.basis = rq[r].basis /\ ~new.rev
      BY <1>1, <2>1 DEF Token, Request
    <2>3. /\ tok' = [tok EXCEPT ![t] = new]
          /\ straddled' = IF rq[r].overtaken THEN straddled \cup {f} ELSE straddled
      BY <2>0
    <2>f. rq[r].fam # NoTok => f = rq[r].fam
      OBVIOUS
    <2>g. rq[r].fam = NoTok => f = t
      OBVIOUS
    <2> HIDE DEF f, new
    <2>4. tok' \in [Toks -> Token \cup {NoTok}] /\ tok'[t] = new /\ \A u \in Toks \ {t} : tok'[u] = tok[u]
      BY <1>1, <2>1, <2>2, <2>3 DEF SessTypeOK
    <2>5. straddled' \subseteq Toks /\ straddled \subseteq straddled'
      BY <1>1, <2>1, <2>3 DEF SessTypeOK
    <2>6. \A u \in Toks \ {t} : ((Usable(u))' <=> Usable(u)) /\ (u \in Rows' <=> u \in Rows)
      BY <2>4 DEF Usable, Rows
    <2>7. \A q \in SReqs : Revoking(q) => rq'[q].pc \in {"revokeOwn", "revoke"}
      BY <1>1, <1>2, <1>3 DEF Revoking
    <2>8. StaleSessionsEnd'
      <3> SUFFICES ASSUME NEW u \in Toks, (Usable(u))', tok'[u].basis # user.pw, ~halfDone,
                          \A q \in SReqs : ~Revoking(q)
                   PROVE  tok'[u].fam \in straddled'
        BY <1>2, <2>7 DEF StaleSessionsEnd, Revoking
      <3>1. CASE u = t
        <4>1. rq[r].basis # user.pw
          BY <2>2, <2>4, <3>1
        <4>2. rq[r].overtaken \/ rq[r].fam \in straddled
          BY <1>2, <1>3, <4>1 DEF StaleOf
        <4>3. CASE rq[r].overtaken
          BY <2>2, <2>3, <2>4, <3>1, <4>3
        <4>4. CASE rq[r].fam \in straddled
          <5>1. rq[r].fam # NoTok
            BY <1>1, <4>4, SessAssumption DEF SessTypeOK
          <5> QED
            BY <2>2, <2>4, <2>5, <2>f, <3>1, <4>4, <5>1
        <4> QED
          BY <4>2, <4>3, <4>4
      <3>2. CASE u # t
        <4>1. Usable(u) /\ tok'[u] = tok[u]
          BY <2>4, <2>6, <3>2
        <4>2. tok[u].fam \in straddled
          BY <4>1 DEF SessInv, SessionsEnd, StaleSessionsEnd, Revoking
        <4> QED
          BY <2>5, <4>1, <4>2
      <3> QED
        BY <3>1, <3>2
    <2>9. RevokedFamilyDead'
      <3> SUFFICES ASSUME NEW u \in Toks, NEW v \in Toks, u \in Rows', v \in Rows',
                          tok'[u].fam = tok'[v].fam, tok'[v].rev, (Usable(u))'
                   PROVE  tok'[u].fam \in straddled'
        BY DEF RevokedFamilyDead, Rows
      <3>0. v # t /\ v \in Rows /\ tok'[v] = tok[v]
        BY <2>2, <2>4, <2>6
      <3>1. CASE u = t
        <4>1. tok[v].fam = f
          BY <2>2, <2>4, <3>0, <3>1
        <4>2. rq[r].fam # NoTok /\ tok[v].fam = rq[r].fam
          BY <2>1, <2>f, <2>g, <3>0, <4>1
        <4>3. rq[r].overtaken \/ rq[r].fam \in straddled
          BY <1>2, <1>3, <3>0, <4>2 DEF RevokedOf
        <4> QED
          BY <2>2, <2>3, <2>4, <3>1, <4>1, <4>2, <4>3
      <3>2. CASE u # t
        <4>1. Usable(u) /\ tok'[u] = tok[u] /\ u \in Rows
          BY <2>4, <2>6, <3>2
        <4> QED
          BY <2>5, <3>0, <4>1 DEF SessInv, SessionsEnd, RevokedFamilyDead
      <3> QED
        BY <3>1, <3>2
    <2>10. \A u \in Rows' : tok'[u].rev => u \in Rows /\ tok[u].rev /\ tok'[u].fam = tok[u].fam
      BY <2>2, <2>4, <2>6 DEF Rows
    <2> QED
      BY <1>1, <1>2, <1>3, <2>4, <2>5, <2>8, <2>9, <2>10, RequestStep DEF Idle, SessTypeOK
  <1> QED
    BY <1>4, <1>5

LEMMA RotateInv ==
    ASSUME SessInv, NEW r \in SReqs, NEW t \in Toks, ConsumeRotate(r, t)
    PROVE  SessInv'
  <1>1. SessTypeOK /\ rq \in [SReqs -> Request] /\ Idle \in Request
    BY SessAssumption DEF SessInv, SessionsEnd, SessTypeOK, Idle, Request
  <1>2. t \in Rows /\ tok[t] \in Token /\ Usable(t) /\ rq[r].pc = "idle"
    BY <1>1 DEF ConsumeRotate, Usable, Rows, SessTypeOK
  <1> DEFINE new == [Idle EXCEPT !.pc = "reread", !.basis = tok[t].basis, !.fam = tok[t].fam]
             row2 == [tok[t] EXCEPT !.rot = "fresh"]
  <1>3. rq' = [rq EXCEPT ![r] = new] /\ tok' = [tok EXCEPT ![t] = row2]
        /\ UNCHANGED <<user, straddled, halfDone, sfaults>>
    BY DEF ConsumeRotate
  <1>4. new \in Request /\ new.pc = "reread" /\ new.basis = tok[t].basis /\ new.fam = tok[t].fam
    BY <1>1, <1>2 DEF Token, Request
  <1>5. /\ row2 \in Token /\ row2.fam = tok[t].fam /\ row2.basis = tok[t].basis /\ (row2.rev <=> tok[t].rev)
    BY <1>2 DEF Token
  <1> HIDE DEF new, row2
  <1>6. tok' \in [Toks -> Token \cup {NoTok}] /\ tok'[t] = row2 /\ \A u \in Toks \ {t} : tok'[u] = tok[u]
    BY <1>1, <1>3, <1>5 DEF SessTypeOK
  <1>7. SameTokens
    BY <1>2, <1>5, <1>6 DEF SameTokens, Usable, Rows
  <1>8. \A u \in Rows' : u \in Rows /\ tok'[u].fam = tok[u].fam /\ (tok'[u].rev => tok[u].rev)
    BY <1>2, <1>5, <1>6 DEF Rows
  <1>9. \A q \in SReqs : Revoking(q) => rq'[q].pc \in {"revokeOwn", "revoke"}
    BY <1>1, <1>2, <1>3 DEF Revoking
  <1>10. StaleSessionsEnd' /\ RevokedFamilyDead'
    BY <1>3, <1>7, <1>8, <1>9, QuietTokens
  <1>11. new.basis # user.pw => new.fam \in straddled \/ halfDone \/ \E q \in SReqs \ {r} : Revoking(q)
    BY <1>2, <1>4 DEF SessInv, SessionsEnd, StaleSessionsEnd, Revoking
  <1>12. \A u \in Rows : tok[u].fam = new.fam /\ tok[u].rev => new.fam \in straddled
    BY <1>2, <1>4 DEF SessInv, SessionsEnd, RevokedFamilyDead
  <1>13. ~Revoking(r)
    BY <1>2 DEF Revoking
  <1> QED
    BY <1>1, <1>3, <1>4, <1>6, <1>8, <1>10, <1>11, <1>12, <1>13, RequestStep DEF SessTypeOK

\* A step that concerns no request: tokens age, rows go, the account goes.
LEMMA AgeingStep ==
    ASSUME SessInv, UNCHANGED <<rq, straddled, halfDone, sfaults>>,
           user' \in [present: BOOLEAN, pw: 0..MaxPw], user'.pw = user.pw,
           tok' \in [Toks -> Token \cup {NoTok}], SameTokens,
           \A u \in Rows' : u \in Rows /\ tok'[u].fam = tok[u].fam /\ (tok'[u].rev => tok[u].rev)
    PROVE  SessInv'
  <1>1. StaleSessionsEnd' /\ RevokedFamilyDead'
    BY QuietTokens DEF Revoking
  <1>2. SessTypeOK'
    BY DEF SessInv, SessionsEnd, SessTypeOK, Token, Request
  <1>3. ASSUME NEW s \in SReqs PROVE (StaleOf(s))' /\ (RevokedOf(s))'
    BY DEF SessInv, StaleOf, RevokedOf, Revoking
  <1> QED
    BY <1>1, <1>2, <1>3 DEF SessInv, SessionsEnd

LEMMA AgeingInv ==
    ASSUME SessInv,
           \/ \E t \in Toks : GraceOver(t) \/ Age(t)
           \/ DeleteUser \/ PurgeTokens \/ UNCHANGED svars
    PROVE  SessInv'
  <1>1. SessTypeOK /\ user \in [present: BOOLEAN, pw: 0..MaxPw]
    BY DEF SessInv, SessionsEnd, SessTypeOK
  <1>2. ASSUME NEW t \in Toks, GraceOver(t) \/ Age(t) PROVE SessInv'
    <2>1. t \in Rows /\ tok[t] \in Token /\ UNCHANGED <<user, rq, straddled, halfDone, sfaults>>
      BY <1>1, <1>2 DEF GraceOver, Age, Rows, SessTypeOK
    <2>2. PICK row2 \in Token :
             /\ tok' = [tok EXCEPT ![t] = row2]
             /\ row2.fam = tok[t].fam /\ row2.basis = tok[t].basis /\ (row2.rev <=> tok[t].rev)
             /\ row2.rot # "old" => tok[t].rot # "old"
             /\ row2.life = "valid" => tok[t].life = "valid"
      <3>1. CASE GraceOver(t)
        <4> DEFINE n == [tok[t] EXCEPT !.rot = "old"]
        <4>1. tok' = [tok EXCEPT ![t] = n]
          BY <3>1 DEF GraceOver
        <4>2. n \in Token /\ n.fam = tok[t].fam /\ n.basis = tok[t].basis /\ (n.rev <=> tok[t].rev)
              /\ n.rot = "old" /\ n.life = tok[t].life
          BY <2>1 DEF Token
        <4> QED
          BY <4>1, <4>2
      <3>2. CASE Age(t)
        <4> DEFINE l == IF tok[t].life = "valid" THEN "expired" ELSE "dead"
                   n == [tok[t] EXCEPT !.life = l]
        <4>1. tok' = [tok EXCEPT ![t] = n]
          BY <3>2 DEF Age
        <4>2. n \in Token /\ n.fam = tok[t].fam /\ n.basis = tok[t].basis /\ (n.rev <=> tok[t].rev)
              /\ n.rot = tok[t].rot /\ n.life # "valid"
          BY <2>1 DEF Token
        <4> QED
          BY <4>1, <4>2
      <3> QED
        BY <1>2, <3>1, <3>2
    <2>3. tok' \in [Toks -> Token \cup {NoTok}] /\ tok'[t] = row2 /\ \A u \in Toks \ {t} : tok'[u] = tok[u]
      BY <1>1, <2>2 DEF SessTypeOK
    <2>4. SameTokens
      BY <2>1, <2>2, <2>3 DEF SameTokens, Usable, Rows
    <2>5. \A u \in Rows' : u \in Rows /\ tok'[u].fam = tok[u].fam /\ (tok'[u].rev => tok[u].rev)
      BY <2>1, <2>2, <2>3 DEF Rows
    <2> QED
      BY <1>1, <2>1, <2>3, <2>4, <2>5, AgeingStep
  <1>3. ASSUME NEW gone \in SUBSET Toks, tok' = [t \in Toks |-> IF t \in gone THEN NoTok ELSE tok[t]],
               user' \in [present: BOOLEAN, pw: 0..MaxPw], user'.pw = user.pw,
               UNCHANGED <<rq, straddled, halfDone, sfaults>>
        PROVE  SessInv'
    <2>1. tok' \in [Toks -> Token \cup {NoTok}]
      BY <1>1, <1>3 DEF SessTypeOK
    <2>2. \A t \in Toks : tok'[t] = NoTok \/ tok'[t] = tok[t]
      BY <1>3
    <2>3. SameTokens
      BY <2>2 DEF SameTokens, Usable, Rows
    <2>4. \A u \in Rows' : u \in Rows /\ tok'[u] = tok[u]
      BY <2>2 DEF Rows
    <2> QED
      BY <1>3, <2>1, <2>3, <2>4, AgeingStep
  <1>4. CASE DeleteUser
    <2>1. tok' = [t \in Toks |-> IF t \in Toks THEN NoTok ELSE tok[t]]
      BY <1>4 DEF DeleteUser
    <2>2. user' \in [present: BOOLEAN, pw: 0..MaxPw] /\ user'.pw = user.pw
      BY <1>1, <1>4 DEF DeleteUser
    <2> QED
      BY <1>3, <1>4, <2>1, <2>2 DEF DeleteUser
  <1>5. CASE PurgeTokens
    <2> DEFINE gone == {t \in Toks : t \in Rows /\ tok[t].life = "dead"}
    <2>1. tok' = [t \in Toks |-> IF t \in gone THEN NoTok ELSE tok[t]]
      BY <1>5 DEF PurgeTokens
    <2>2. gone \in SUBSET Toks
      OBVIOUS
    <2> HIDE DEF gone
    <2> QED
      BY <1>1, <1>3, <1>5, <2>1, <2>2 DEF PurgeTokens
  <1>6. CASE UNCHANGED svars
    <2>1. /\ SameTokens /\ tok' \in [Toks -> Token \cup {NoTok}]
          /\ \A u \in Rows' : u \in Rows /\ tok'[u] = tok[u]
      BY <1>6, SameRows DEF svars
    <2> QED
      BY <1>1, <1>6, <2>1, AgeingStep DEF svars
  <1> QED
    BY <1>2, <1>4, <1>5, <1>6

LEMMA RequestsInv ==
    ASSUME SessInv, NEW r \in SReqs,
           \/ LoginVerify(r) \/ Reread(r)
           \/ ChangeVerify(r) \/ SetOwnPassword(r) \/ AdminSetPassword(r)
           \/ RevokeSessions(r) \/ ResetPassword(r) \/ RequestFails(r)
    PROVE  SessInv'
  <1>1. /\ SessTypeOK /\ rq \in [SReqs -> Request] /\ rq[r] \in Request /\ Idle \in Request
        /\ user.pw \in 0..MaxPw /\ user \in [present: BOOLEAN, pw: 0..MaxPw]
        /\ halfDone \in BOOLEAN /\ sfaults \in 0..MaxSFaults
    BY SessAssumption DEF SessInv, SessionsEnd, SessTypeOK, Idle, Request
  <1>2. CASE LoginVerify(r)
    <2> DEFINE new == [Idle EXCEPT !.pc = "create", !.basis = user.pw]
    <2>1. new \in Request /\ new.pc = "create" /\ new.basis = user.pw /\ new.fam = NoTok
      BY <1>1 DEF Idle, Request
    <2>2. \A u \in Rows : tok[u].fam # NoTok
      BY <1>1, SessAssumption DEF SessTypeOK, Rows, Token
    <2>3. rq' = [rq EXCEPT ![r] = new] /\ ~Revoking(r) /\ UNCHANGED <<user, tok, straddled, halfDone, sfaults>>
      BY <1>2 DEF LoginVerify, Revoking
    <2> HIDE DEF new
    <2> QED
      BY <1>1, <2>1, <2>2, <2>3, OwnStep
  <1>3. CASE Reread(r)
    <2>0. rq[r].pc = "reread" /\ ~Revoking(r) /\ UNCHANGED <<user, tok, straddled, halfDone, sfaults>>
      BY <1>3 DEF Reread, Revoking
    <2>1. StaleOf(r) /\ RevokedOf(r)
      BY DEF SessInv
    <2>2. CASE user.present
      <3> DEFINE new == [rq[r] EXCEPT !.pc = "create"]
      <3>1. /\ new \in Request /\ new.pc = "create" /\ new.basis = rq[r].basis /\ new.fam = rq[r].fam
            /\ new.overtaken = rq[r].overtaken
        BY <1>1 DEF Request
      <3>2. rq' = [rq EXCEPT ![r] = new]
        BY <1>3, <2>2 DEF Reread
      <3> HIDE DEF new
      <3>3. new.basis # user.pw => new.overtaken \/ new.fam \in straddled \/ halfDone \/ \E q \in SReqs \ {r} : Revoking(q)
        BY <2>0, <2>1, <3>1 DEF StaleOf
      <3>4. \A u \in Rows : tok[u].fam = new.fam /\ tok[u].rev => new.overtaken \/ new.fam \in straddled
        BY <2>0, <2>1, <3>1 DEF RevokedOf
      <3> QED
        BY <1>1, <2>0, <3>1, <3>2, <3>3, <3>4, OwnStep
    <2>3. CASE ~user.present
      <3>1. rq' = [rq EXCEPT ![r] = Idle]
        BY <1>3, <2>3 DEF Reread
      <3>2. Idle.pc = "idle"
        BY DEF Idle
      <3> QED
        BY <1>1, <2>0, <3>1, <3>2, OwnStep
    <2> QED
      BY <2>2, <2>3
  <1>4. CASE ChangeVerify(r)
    <2> DEFINE new == [Idle EXCEPT !.pc = "set"]
    <2>1. new \in Request /\ new.pc = "set"
      BY <1>1 DEF Idle, Request
    <2>2. rq' = [rq EXCEPT ![r] = new] /\ ~Revoking(r) /\ UNCHANGED <<user, tok, straddled, halfDone, sfaults>>
      BY <1>4 DEF ChangeVerify, Revoking
    <2> HIDE DEF new
    <2> QED
      BY <1>1, <2>1, <2>2, OwnStep
  <1>5. ASSUME NEW where \in {"revokeOwn", "revoke"}, user.pw < MaxPw,
               rq' = [rq EXCEPT ![r] = [Idle EXCEPT !.pc = where, !.basis = user.pw + 1]],
               user' = [user EXCEPT !.pw = user.pw + 1],
               UNCHANGED <<tok, straddled, halfDone, sfaults>>
        PROVE  SessInv'
    <2> DEFINE new == [Idle EXCEPT !.pc = where, !.basis = user.pw + 1]
    <2>0. user.pw + 1 \in 0..MaxPw
      BY <1>1, <1>5, SessAssumption
    <2>1. new \in Request /\ new.pc = where /\ new.basis = user.pw + 1 /\ new.fam = NoTok
      BY <1>1, <2>0 DEF Idle, Request
    <2>2. rq' = [rq EXCEPT ![r] = new]
      BY <1>5
    <2> HIDE DEF new
    <2> QED
      BY <1>5, <2>1, <2>2, PasswordStep
  <1>6. CASE SetOwnPassword(r)
    <2>1. CASE user.present /\ user.pw < MaxPw
      BY <1>5, <1>6, <2>1 DEF SetOwnPassword
    <2>2. CASE ~(user.present /\ user.pw < MaxPw)
      BY <1>1, <1>6, <2>2, OwnStep DEF SetOwnPassword, Idle, Revoking
    <2> QED
      BY <2>1, <2>2
  <1>7. CASE AdminSetPassword(r)
    BY <1>5, <1>7 DEF AdminSetPassword
  <1>8. CASE RevokeSessions(r)
    <2> DEFINE new == IF rq[r].pc = "revokeOwn" THEN [rq[r] EXCEPT !.pc = "create"] ELSE Idle
               o == Overtake(rq, Toks \cup {NoTok})
    <2>1. rq' = [o EXCEPT ![r] = new] /\ tok' = RevokeAllForUser /\ UNCHANGED <<user, straddled, halfDone, sfaults>>
      BY <1>8 DEF RevokeSessions
    <2>2. new \in Request /\ (new.pc = "idle" \/ (rq[r].pc = "revokeOwn" /\ new = [rq[r] EXCEPT !.pc = "create"]))
      BY <1>1 DEF Idle, Request
    <2>3. o \in [SReqs -> Request]
      <3>1. \A s \in SReqs : o[s] \in Request
        BY <1>1, Overtaken
      <3> QED
        BY <3>1 DEF Overtake
    <2> HIDE DEF new
    <2>4. rq' \in [SReqs -> Request] /\ rq'[r] = new /\ \A s \in SReqs \ {r} : rq'[s] = o[s]
      BY <2>1, <2>2, <2>3
    <2> QED
      BY <1>1, <2>1, <2>2, <2>4, AllStep
  <1>9. CASE ResetPassword(r)
    <2> DEFINE o == Overtake(rq, Toks \cup {NoTok})
    <2>1. rq' = o /\ tok' = RevokeAllForUser /\ UNCHANGED <<straddled, halfDone, sfaults>>
          /\ rq[r].pc = "idle" /\ user' = [user EXCEPT !.pw = user.pw + 1] /\ user.pw < MaxPw
      BY <1>9 DEF ResetPassword
    <2>2. \A s \in SReqs : o[s] \in Request /\ o[s].pc = rq[s].pc
      BY <1>1, Overtaken
    <2>3. o \in [SReqs -> Request]
      BY <2>2 DEF Overtake
    <2>4. user' \in [present: BOOLEAN, pw: 0..MaxPw]
      BY <1>1, <2>1, SessAssumption
    <2> HIDE DEF o
    <2>5. rq'[r].pc = "idle" /\ rq' \in [SReqs -> Request]
      BY <2>1, <2>2, <2>3
    <2> QED
      BY <2>1, <2>4, <2>5, AllStep DEF o
  <1>10. CASE RequestFails(r)
    <2>1. /\ rq' = [rq EXCEPT ![r] = Idle] /\ UNCHANGED <<user, tok, straddled>> /\ sfaults' \in 0..MaxSFaults
      BY <1>1, <1>10, SessAssumption DEF RequestFails
    <2>2. /\ halfDone' \in BOOLEAN /\ (halfDone => halfDone') /\ (Revoking(r) => halfDone')
      BY <1>1, <1>10 DEF RequestFails, Revoking
    <2> QED
      BY <1>1, <2>1, <2>2, OwnStep DEF Idle
  <1> QED
    BY <1>2, <1>3, <1>4, <1>6, <1>7, <1>8, <1>9, <1>10

LEMMA SessNextInv == SessInv /\ [SessNext]_svars => SessInv'
  <1> SUFFICES ASSUME SessInv, [SessNext]_svars PROVE SessInv'
    OBVIOUS
  <1>1. ASSUME NEW r \in SReqs, NEW t \in Toks, ConsumeReuse(r, t) \/ Logout(r, t) PROVE SessInv'
    <2>1. t \in Rows /\ tok[t].fam \in Toks
      BY <1>1 DEF ConsumeReuse, Logout, SessInv, SessionsEnd, SessTypeOK, Rows, Token
    <2>2. PICK f \in Toks : f = tok[t].fam
      BY <2>1
    <2> QED
      BY <1>1, <2>2, FamilyStep DEF ConsumeReuse, Logout
  <1>2. CASE \E r \in SReqs, t \in Toks : ConsumeRotate(r, t) \/ ConsumeReuse(r, t) \/ Logout(r, t)
    BY <1>1, <1>2, RotateInv
  <1> QED
    BY <1>2, CreateInv, RequestsInv, AgeingInv DEF SessNext

\* What ends sessions ends them, for any requests, tokens and password changes:
\* a new password all older ones, a logout or a replay the family.  A request
\* that goes on with an old password or a consumed token was overtaken by the
\* revocation, and is counted as such.
THEOREM SessionsAreEnded == SessSpec => []SessionsEnd
  <1>1. SessInit => SessInv
    <2> SUFFICES ASSUME SessInit PROVE SessInv
      OBVIOUS
    <2>1. Rows = {} /\ \A r \in SReqs : rq[r].pc = "idle"
      BY DEF SessInit, Rows, Idle
    <2>2. SessTypeOK
      <3>1. Idle \in Request /\ rq \in [SReqs -> Request]
        BY SessAssumption DEF SessInit, Idle, Request
      <3>2. user \in [present: BOOLEAN, pw: 0..MaxPw] /\ sfaults \in 0..MaxSFaults
        BY SessAssumption DEF SessInit
      <3> QED
        BY <3>1, <3>2 DEF SessInit, SessTypeOK
    <2>3. StaleSessionsEnd /\ RevokedFamilyDead
      BY <2>1 DEF StaleSessionsEnd, RevokedFamilyDead, Usable
    <2> QED
      BY <2>1, <2>2, <2>3 DEF SessInv, SessionsEnd, StaleOf, RevokedOf
  <1>2. SessInv => SessionsEnd
    BY DEF SessInv
  <1> QED
    BY <1>1, <1>2, SessNextInv, PTL DEF SessSpec


-----------------------------------------------------------------------------
(* Password reset                                                          *)

LEMMA PMoves ==
    ASSUME ResetTypeOK, NEW r \in PReqs, NEW q \in PRequest, preq' = [preq EXCEPT ![r] = q]
    PROVE  preq' \in [PReqs -> PRequest] /\ preq'[r] = q /\ \A o \in PReqs \ {r} : preq'[o] = preq[o]
  BY DEF ResetTypeOK

LEMMA ForgotInv ==
    ASSUME ResetInv, NEW r \in PReqs, NEW l \in Links, Forgot(r, l)
    PROVE  ResetInv'
  <1> DEFINE q == [pc |-> "delete", link |-> l, seen |-> {}]
  <1>0. /\ ResetTypeOK /\ OneByOne /\ MailsAgree
        /\ \A k \in Links : SpentOf(k)
        /\ \A o \in PReqs : IssuedOf(o)
    BY DEF ResetInv
  <1>1. /\ q \in PRequest /\ q.pc = "delete" /\ q.link = l
        /\ preq[r].pc = "idle" /\ preq' = [preq EXCEPT ![r] = q]
        /\ overlap' = (overlap \/ \E o \in PReqs \ {r} : preq[o].pc # "idle")
        /\ UNCHANGED <<row, lapsed, mail, changes, pfaults>>
    BY DEF Forgot, Enter, PRequest
  <1>2. row[l] = "none" /\ l \notin lapsed /\ \A o \in PReqs : preq[o].link # l
    BY DEF Forgot, Unused
  <1> HIDE DEF q
  <1>3. preq' \in [PReqs -> PRequest] /\ preq'[r] = q /\ \A o \in PReqs \ {r} : preq'[o] = preq[o]
    BY <1>0, <1>1, PMoves
  <1>4. ResetTypeOK'
    BY <1>0, <1>1, <1>3 DEF ResetTypeOK
  <1>5. \A k \in Links : (SpentOf(k))'
    BY <1>0, <1>1 DEF SpentOf
  <1>6. ASSUME NEW o \in PReqs PROVE (IssuedOf(o))'
    <2>1. CASE o = r
      BY <1>1, <1>2, <1>3, <2>1 DEF IssuedOf
    <2>2. CASE o # r
      BY <1>0, <1>1, <1>2, <1>3, <2>2 DEF IssuedOf
    <2> QED
      BY <2>1, <2>2
  <1>7. OneByOne'
    BY <1>0, <1>1, <1>3 DEF OneByOne
  <1>8. MailsAgree'
    BY <1>0, <1>1, <1>3 DEF MailsAgree
  <1> QED
    BY <1>4, <1>5, <1>6, <1>7, <1>8 DEF ResetInv

LEMMA CompleteInv ==
    ASSUME ResetInv, NEW r \in PReqs, NEW l \in Links, Complete(r, l)
    PROVE  ResetInv'
  <1> DEFINE q == [pc |-> "spent", link |-> l, seen |-> {}]
  <1>0. /\ ResetTypeOK /\ OneByOne /\ MailsAgree
        /\ \A k \in Links : SpentOf(k)
        /\ \A o \in PReqs : IssuedOf(o)
    BY DEF ResetInv
  <1>1. /\ q \in PRequest /\ q.pc = "spent" /\ q.link = l
        /\ preq[r].pc = "idle" /\ preq' = [preq EXCEPT ![r] = q]
        /\ overlap' = (overlap \/ \E o \in PReqs \ {r} : preq[o].pc # "idle")
        /\ row[l] = "open" /\ row' = [row EXCEPT ![l] = "used"]
        /\ changes' = [changes EXCEPT ![l] = changes[l] + 1]
        /\ UNCHANGED <<lapsed, mail, pfaults>>
    BY DEF Complete, Enter, Valid, PRequest
  <1> HIDE DEF q
  <1>3. preq' \in [PReqs -> PRequest] /\ preq'[r] = q /\ \A o \in PReqs \ {r} : preq'[o] = preq[o]
    BY <1>0, <1>1, PMoves
  <1>2. /\ row' \in [Links -> {"none", "open", "used"}] /\ row'[l] = "used"
        /\ \A k \in Links \ {l} : row'[k] = row[k] /\ changes'[k] = changes[k]
        /\ changes' \in [Links -> Nat] /\ changes'[l] = 1
    BY <1>0, <1>1 DEF ResetTypeOK, SpentOf
  <1>4. ResetTypeOK'
    BY <1>0, <1>1, <1>2, <1>3 DEF ResetTypeOK
  <1>5. \A k \in Links : (SpentOf(k))'
    BY <1>0, <1>1, <1>2 DEF SpentOf
  <1>6. ASSUME NEW o \in PReqs PROVE (IssuedOf(o))'
    <2>1. CASE o = r
      BY <1>1, <1>3, <2>1 DEF IssuedOf
    <2>2. CASE o # r
      <3>1. preq'[o] = preq[o] /\ IssuedOf(o)
        BY <1>0, <1>3, <2>2
      <3>2. ASSUME preq[o].pc \in {"delete", "insert"} PROVE preq[o].link # l
        BY <1>1, <3>1, <3>2 DEF IssuedOf
      <3>3. ASSUME preq[o].pc \in {"delete", "insert"}, NEW p \in PReqs \ {o}
            PROVE  preq'[p].link # preq[o].link
        BY <1>1, <1>3, <3>1, <3>2, <3>3 DEF IssuedOf
      <3> QED
        BY <1>1, <1>2, <3>1, <3>2, <3>3 DEF IssuedOf
    <2> QED
      BY <2>1, <2>2
  <1>7. OneByOne'
    <2> SUFFICES ASSUME ~overlap' PROVE OneByOne'
      BY DEF OneByOne
    <2>1. ~overlap /\ \A o \in PReqs \ {r} : preq'[o].pc = "idle"
      BY <1>0, <1>1, <1>3 DEF ResetTypeOK
    <2>2. \A k, m \in Links : row'[k] = "open" /\ row'[m] = "open" => k = m
      BY <1>0, <1>2, <2>1 DEF OneByOne
    <2> QED
      BY <1>1, <1>3, <2>1, <2>2 DEF OneByOne
  <1>8. MailsAgree'
    <2> SUFFICES ASSUME ~overlap', pfaults' = 0
                 PROVE  \A o \in PReqs : preq'[o].pc \notin {"enqueue", "announce", "supersede"}
      BY <1>1, <1>3 DEF MailsAgree
    <2> QED
      BY <1>1, <1>3
  <1> QED
    BY <1>4, <1>5, <1>6, <1>7, <1>8 DEF ResetInv

LEMMA IssueInv ==
    ASSUME ResetInv, NEW r \in PReqs, IssueDelete(r) \/ IssueCommit(r)
    PROVE  ResetInv'
  <1>0. /\ ResetTypeOK /\ OneByOne /\ MailsAgree
        /\ \A k \in Links : SpentOf(k)
        /\ \A o \in PReqs : IssuedOf(o)
        /\ preq \in [PReqs -> PRequest] /\ preq[r] \in PRequest
    BY DEF ResetInv, ResetTypeOK
  <1>1. CASE IssueDelete(r)
    <2> DEFINE q == [preq[r] EXCEPT !.pc = "insert", !.seen = {l \in Links : row[l] = "open"}]
    <2>1. /\ preq[r].pc = "delete" /\ preq' = [preq EXCEPT ![r] = q]
          /\ UNCHANGED <<row, lapsed, mail, changes, overlap, pfaults>>
      BY <1>1 DEF IssueDelete
    <2>2. q \in PRequest /\ q.pc = "insert" /\ q.link = preq[r].link /\ q.seen = {l \in Links : row[l] = "open"}
      BY <1>0 DEF PRequest
    <2> HIDE DEF q
    <2>3. preq' \in [PReqs -> PRequest] /\ preq'[r] = q /\ \A o \in PReqs \ {r} : preq'[o] = preq[o]
      BY <1>0, <2>1, <2>2, PMoves
    <2>4. ResetTypeOK'
      BY <1>0, <2>1, <2>3 DEF ResetTypeOK
    <2>5. \A k \in Links : (SpentOf(k))'
      BY <1>0, <2>1 DEF SpentOf
    <2>6. \A o \in PReqs : preq'[o].link = preq[o].link
      BY <2>2, <2>3
    <2>7. ASSUME NEW o \in PReqs PROVE (IssuedOf(o))'
      BY <1>0, <2>1, <2>2, <2>3, <2>6 DEF IssuedOf
    <2>8. OneByOne'
      BY <1>0, <2>1, <2>2, <2>3 DEF OneByOne
    <2>9. MailsAgree'
      BY <1>0, <2>1, <2>2, <2>3 DEF MailsAgree
    <2> QED
      BY <2>4, <2>5, <2>7, <2>8, <2>9 DEF ResetInv
  <1>2. CASE IssueCommit(r)
    <2> DEFINE q == [preq[r] EXCEPT !.pc = "supersede"]
    <2>0. PICK l \in Links : l = preq[r].link
      BY <1>0, <1>2 DEF IssueCommit, IssuedOf
    <2>1. /\ preq[r].pc = "insert" /\ preq' = [preq EXCEPT ![r] = q]
          /\ row' = [k \in Links |-> IF k = l THEN "open"
                                     ELSE IF k \in preq[r].seen /\ row[k] = "open" THEN "none" ELSE row[k]]
          /\ UNCHANGED <<lapsed, mail, changes, overlap, pfaults>>
      BY <1>2, <2>0 DEF IssueCommit, PGoto
    <2>2. q \in PRequest /\ q.pc = "supersede" /\ q.link = l
      BY <1>0, <2>0 DEF PRequest
    <2> HIDE DEF q
    <2>3. preq' \in [PReqs -> PRequest] /\ preq'[r] = q /\ \A o \in PReqs \ {r} : preq'[o] = preq[o]
      BY <1>0, <2>1, <2>2, PMoves
    <2>4. /\ row' \in [Links -> {"none", "open", "used"}] /\ row'[l] = "open"
          /\ \A k \in Links \ {l} : row'[k] = row[k] \/ (row[k] = "open" /\ row'[k] = "none")
          /\ \A k \in Links \ {l} : k \in preq[r].seen => row'[k] # "open"
      BY <1>0, <2>1 DEF ResetTypeOK
    <2>5. ResetTypeOK'
      BY <1>0, <2>1, <2>3, <2>4 DEF ResetTypeOK
    <2>6. row[l] = "none" /\ l \notin lapsed /\ changes[l] = 0 /\ \A o \in PReqs \ {r} : preq[o].link # l
      BY <1>0, <2>0, <2>1 DEF IssuedOf, SpentOf
    <2>7. ASSUME NEW k \in Links PROVE (SpentOf(k))'
      BY <1>0, <2>1, <2>4, <2>6 DEF SpentOf
    <2>8. ASSUME NEW o \in PReqs PROVE (IssuedOf(o))'
      <3>1. CASE o = r
        BY <2>2, <2>3, <3>1 DEF IssuedOf
      <3>2. CASE o # r
        <4>1. preq'[o] = preq[o] /\ IssuedOf(o) /\ preq[o].link # l
          BY <1>0, <2>3, <2>6, <3>2
        <4>2. \A p \in PReqs : preq'[p].link = preq[p].link
          BY <2>0, <2>2, <2>3
        <4> QED
          BY <2>1, <2>4, <4>1, <4>2 DEF IssuedOf
      <3> QED
        BY <3>1, <3>2
    <2>9. OneByOne'
      BY <1>0, <2>1, <2>2, <2>3, <2>4 DEF OneByOne
    <2>10. MailsAgree'
      <3> SUFFICES ASSUME ~overlap', pfaults' = 0
                   PROVE  \A o \in PReqs \ {r} : preq'[o].pc = "idle"
        BY <2>1, <2>2, <2>3, <2>4 DEF MailsAgree
      <3> QED
        BY <1>0, <2>1, <2>3 DEF OneByOne
    <2> QED
      BY <2>5, <2>7, <2>8, <2>9, <2>10 DEF ResetInv
  <1> QED
    BY <1>1, <1>2

\* A request goes on, or ends, without a new link: the rows are not touched.
LEMMA MailStep ==
    ASSUME ResetInv, NEW r \in PReqs, NEW q \in PRequest, preq' = [preq EXCEPT ![r] = q],
           UNCHANGED <<row, lapsed, changes, overlap>>, preq[r].pc # "idle",
           pfaults' \in 0..MaxPFaults, pfaults' >= pfaults,
           mail' \in [Links -> {"none", "pending", "closed", "sent"}],
           \/ q = PIdle
           \/ /\ q.link = preq[r].link
              /\ \/ preq[r].pc = "supersede" /\ q.pc = "enqueue"
                 \/ preq[r].pc = "spent" /\ q.pc = "announce",
           ~overlap /\ pfaults' = 0 =>
              \/ q.pc # "idle" /\ \A l \in Links : mail'[l] # "pending"
              \/ q.pc = "idle" /\ preq[r].pc \in {"enqueue", "announce"}
                               /\ \A l \in Links : mail'[l] = "pending" => row[l] = "open" \/ l \in lapsed
    PROVE  ResetInv'
  <1>0. /\ ResetTypeOK /\ OneByOne /\ MailsAgree
        /\ \A k \in Links : SpentOf(k)
        /\ \A o \in PReqs : IssuedOf(o)
        /\ pfaults \in Nat
    BY ResetAssumption DEF ResetInv, ResetTypeOK
  <1>1. preq' \in [PReqs -> PRequest] /\ preq'[r] = q /\ \A o \in PReqs \ {r} : preq'[o] = preq[o]
    BY <1>0, PMoves
  <1>2. ResetTypeOK'
    BY <1>0, <1>1 DEF ResetTypeOK
  <1>3. ASSUME NEW k \in Links PROVE (SpentOf(k))'
    BY <1>0 DEF SpentOf
  <1>4. ASSUME NEW o \in PReqs PROVE (IssuedOf(o))'
    <2>1. CASE o = r
      BY <1>0, <1>1, <2>1 DEF IssuedOf, PIdle
    <2>2. CASE o # r
      <3>1. preq'[o] = preq[o] /\ IssuedOf(o)
        BY <1>0, <1>1, <2>2
      <3>2. q.link = preq[r].link \/ q.link = NoLink
        BY DEF PIdle
      <3>3. preq[o].pc \in {"delete", "insert"} => preq[o].link # q.link
        BY <2>2, <3>1, <3>2, ResetAssumption DEF IssuedOf
      <3> QED
        BY <1>1, <2>2, <3>1, <3>3 DEF IssuedOf
    <2> QED
      BY <2>1, <2>2
  <1>5. OneByOne'
    BY <1>0, <1>1 DEF OneByOne, PIdle
  <1>6. MailsAgree'
    <2> SUFFICES ASSUME ~overlap, pfaults' = 0 PROVE MailsAgree'
      BY DEF MailsAgree
    <2>1. pfaults = 0 /\ \A o \in PReqs \ {r} : preq'[o].pc = "idle"
      BY <1>0, <1>1 DEF OneByOne
    <2>2. CASE q = PIdle
      <3>1. q.pc = "idle"
        BY <2>2 DEF PIdle
      <3> QED
        BY <1>1, <2>1, <3>1 DEF MailsAgree
    <2>3. CASE q.pc \in {"enqueue", "announce"}
      BY <1>0, <1>1, <2>1, <2>3 DEF MailsAgree, PIdle
    <2> QED
      BY <2>2, <2>3
  <1> QED
    BY <1>2, <1>3, <1>4, <1>5, <1>6 DEF ResetInv

LEMMA MailInv ==
    ASSUME ResetInv, NEW r \in PReqs,
           IssueFails(r) \/ SupersedeMails(r) \/ QueueLink(r) \/ Announce(r)
    PROVE  ResetInv'
  <1>0. /\ ResetTypeOK /\ OneByOne /\ MailsAgree /\ IssuedOf(r)
        /\ preq \in [PReqs -> PRequest] /\ preq[r] \in PRequest /\ PIdle \in PRequest /\ PIdle.pc = "idle"
        /\ mail \in [Links -> {"none", "pending", "closed", "sent"}]
        /\ pfaults \in 0..MaxPFaults /\ MaxPFaults \in Nat
    BY ResetAssumption DEF ResetInv, ResetTypeOK, PIdle, PRequest
  <1>1. ASSUME PFault PROVE pfaults' \in 0..MaxPFaults /\ pfaults' >= pfaults /\ pfaults' # 0
    BY <1>0, <1>1 DEF PFault
  <1>2. CASE IssueFails(r)
    <2>1. /\ preq' = [preq EXCEPT ![r] = PIdle] /\ preq[r].pc # "idle" /\ PFault
          /\ UNCHANGED <<row, lapsed, changes, overlap, mail>>
      BY <1>2 DEF IssueFails
    <2> QED
      BY <1>0, <1>1, <2>1, MailStep
  <1>3. CASE SupersedeMails(r)
    <2> DEFINE q == [preq[r] EXCEPT !.pc = IF preq[r].pc = "supersede" THEN "enqueue" ELSE "announce"]
    <2>1. /\ preq' = [preq EXCEPT ![r] = q] /\ preq[r].pc \in {"supersede", "spent"}
          /\ (mail' = CloseMails /\ UNCHANGED pfaults) \/ (PFault /\ UNCHANGED mail)
          /\ UNCHANGED <<row, lapsed, changes, overlap>>
      BY <1>3 DEF SupersedeMails, PGoto
    <2>2. /\ q \in PRequest /\ q.link = preq[r].link /\ q.pc # "idle"
          /\ \/ preq[r].pc = "supersede" /\ q.pc = "enqueue"
             \/ preq[r].pc = "spent" /\ q.pc = "announce"
      BY <1>0, <2>1 DEF PRequest
    <2> HIDE DEF q
    <2>3. CloseMails \in [Links -> {"none", "pending", "closed", "sent"}] /\ \A l \in Links : CloseMails[l] # "pending"
      BY <1>0 DEF CloseMails
    <2>4. CASE mail' = CloseMails /\ UNCHANGED pfaults
      <3>1. /\ mail' \in [Links -> {"none", "pending", "closed", "sent"}]
            /\ \A l \in Links : mail'[l] # "pending"
            /\ pfaults' \in 0..MaxPFaults /\ pfaults' >= pfaults
        BY <1>0, <2>3, <2>4
      <3> QED
        BY <2>1, <2>2, <3>1, MailStep
    <2>5. CASE PFault /\ UNCHANGED mail
      BY <1>0, <1>1, <2>1, <2>2, <2>5, MailStep
    <2> QED
      BY <2>1, <2>4, <2>5
  <1>4. CASE QueueLink(r)
    <2>1. /\ preq' = [preq EXCEPT ![r] = PIdle] /\ preq[r].pc = "enqueue"
          /\ UNCHANGED <<row, lapsed, changes, overlap>>
      BY <1>4 DEF QueueLink
    <2>2. CASE PFault /\ UNCHANGED mail
      BY <1>0, <1>1, <2>1, <2>2, MailStep
    <2>3. CASE mail' = [mail EXCEPT ![preq[r].link] = "pending"] /\ UNCHANGED pfaults
      <3>1. /\ mail' \in [Links -> {"none", "pending", "closed", "sent"}]
            /\ pfaults' \in 0..MaxPFaults /\ pfaults' >= pfaults
        <4>1. preq[r].link \in Links
          BY <1>0, <2>1 DEF IssuedOf
        <4> QED
          BY <1>0, <2>3, <4>1
      <3>2. ASSUME ~overlap, pfaults' = 0
            PROVE  \A l \in Links : mail'[l] = "pending" => row[l] = "open" \/ l \in lapsed
        <4>1. pfaults = 0
          BY <2>3, <3>2
        <4>2. /\ \A l \in Links : mail[l] # "pending"
              /\ row[preq[r].link] = "open" \/ preq[r].link \in lapsed
          BY <1>0, <2>1, <3>2, <4>1 DEF MailsAgree
        <4> QED
          BY <1>0, <2>3, <4>2
      <3>3. ~overlap /\ pfaults' = 0 =>
               PIdle.pc = "idle" /\ preq[r].pc \in {"enqueue", "announce"}
                  /\ \A l \in Links : mail'[l] = "pending" => row[l] = "open" \/ l \in lapsed
        BY <1>0, <2>1, <3>2
      <3>4. preq[r].pc # "idle"
        BY <2>1
      <3> QED
        BY <1>0, <2>1, <3>1, <3>3, <3>4, MailStep
    <2> QED
      BY <1>4, <2>2, <2>3 DEF QueueLink
  <1>5. CASE Announce(r)
    <2>1. /\ preq' = [preq EXCEPT ![r] = PIdle] /\ preq[r].pc = "announce"
          /\ UNCHANGED <<row, lapsed, changes, overlap, mail, pfaults>>
      BY <1>5 DEF Announce
    <2>2. ~overlap /\ pfaults = 0 => \A l \in Links : mail[l] # "pending"
      BY <1>0, <2>1 DEF MailsAgree
    <2>3. ~overlap /\ pfaults' = 0 =>
             PIdle.pc = "idle" /\ preq[r].pc \in {"enqueue", "announce"}
                /\ \A l \in Links : mail'[l] = "pending" => row[l] = "open" \/ l \in lapsed
      BY <1>0, <2>1, <2>2
    <2>4. /\ mail' \in [Links -> {"none", "pending", "closed", "sent"}]
          /\ pfaults' \in 0..MaxPFaults /\ pfaults' >= pfaults /\ preq[r].pc # "idle"
      BY <1>0, <2>1
    <2> QED
      BY <1>0, <2>1, <2>3, <2>4, MailStep
  <1> QED
    BY <1>2, <1>3, <1>4, <1>5

\* What happens to links without a request: they lapse and are purged, and the
\* worker takes their mails.
LEMMA LinkStep ==
    ASSUME ResetInv, UNCHANGED <<changes, preq, overlap, pfaults>>,
           row' \in [Links -> {"none", "open", "used"}], lapsed' \subseteq Links, lapsed \subseteq lapsed',
           mail' \in [Links -> {"none", "pending", "closed", "sent"}],
           \A l \in Links : /\ row'[l] = row[l] \/ (row'[l] = "none" /\ l \in lapsed')
                            /\ mail'[l] = "pending" => mail[l] = "pending"
                            /\ l \in lapsed' /\ l \notin lapsed => row[l] # "none"
    PROVE  ResetInv'
  <1>0. /\ ResetTypeOK /\ OneByOne /\ MailsAgree
        /\ \A k \in Links : SpentOf(k)
        /\ \A o \in PReqs : IssuedOf(o)
    BY DEF ResetInv
  <1>1. ResetTypeOK'
    BY <1>0 DEF ResetTypeOK
  <1>2. ASSUME NEW k \in Links PROVE (SpentOf(k))'
    BY <1>0 DEF SpentOf
  <1>3. ASSUME NEW o \in PReqs PROVE (IssuedOf(o))'
    BY <1>0 DEF IssuedOf
  <1>4. OneByOne'
    BY <1>0 DEF OneByOne
  <1>5. MailsAgree'
    <2> SUFFICES ASSUME ~overlap, pfaults = 0 PROVE MailsAgree'
      BY DEF MailsAgree
    <2>1. ASSUME NEW r \in PReqs, preq[r].pc \in {"supersede", "enqueue"}
          PROVE  row'[preq[r].link] = "open" \/ preq[r].link \in lapsed'
      <3>1. preq[r].link \in Links /\ (row[preq[r].link] = "open" \/ preq[r].link \in lapsed)
        BY <1>0, <2>1 DEF IssuedOf, MailsAgree
      <3> QED
        BY <3>1
    <2> QED
      BY <1>0, <2>1 DEF MailsAgree
  <1> QED
    BY <1>1, <1>2, <1>3, <1>4, <1>5 DEF ResetInv

LEMMA LinksInv ==
    ASSUME ResetInv, (\E l \in Links : DeliverMail(l) \/ Lapse(l)) \/ PurgeLinks \/ UNCHANGED pvars
    PROVE  ResetInv'
  <1>0. ResetTypeOK
    BY DEF ResetInv
  <1>1. ASSUME NEW l \in Links, DeliverMail(l) PROVE ResetInv'
    <2>1. /\ mail' \in [Links -> {"none", "pending", "closed", "sent"}]
          /\ \A k \in Links : mail'[k] = "pending" => mail[k] = "pending"
      BY <1>0, <1>1 DEF DeliverMail, ResetTypeOK
    <2> QED
      BY <1>0, <1>1, <2>1, LinkStep DEF DeliverMail, ResetTypeOK
  <1>2. ASSUME NEW l \in Links, Lapse(l) PROVE ResetInv'
    <2>1. lapsed' = lapsed \cup {l} /\ row[l] # "none" /\ UNCHANGED <<row, mail, changes, preq, overlap, pfaults>>
      BY <1>2 DEF Lapse
    <2> QED
      BY <1>0, <2>1, LinkStep DEF ResetTypeOK
  <1>3. CASE PurgeLinks
    <2>1. /\ row' \in [Links -> {"none", "open", "used"}]
          /\ \A k \in Links : row'[k] = row[k] \/ (row'[k] = "none" /\ k \in lapsed)
          /\ UNCHANGED <<lapsed, mail, changes, preq, overlap, pfaults>>
      BY <1>0, <1>3 DEF PurgeLinks, ResetTypeOK
    <2> QED
      BY <1>0, <2>1, LinkStep DEF ResetTypeOK
  <1>4. CASE UNCHANGED pvars
    BY <1>0, <1>4, LinkStep DEF pvars, ResetTypeOK
  <1> QED
    BY <1>1, <1>2, <1>3, <1>4

\* A set without two different elements.
LEMMA AtMostOne ==
    ASSUME NEW S, \A k, l \in S : k = l
    PROVE  Cardinality(S) <= 1
  <1>1. CASE S = {}
    BY <1>1, FS_EmptySet
  <1>2. CASE S # {}
    <2>1. PICK x \in S : TRUE
      BY <1>2
    <2>2. S = {x}
      BY <2>1
    <2> QED
      BY <2>2, FS_Singleton
  <1> QED
    BY <1>1, <1>2

\* Requests for a password reset that come one after the other leave one valid
\* link, and what waits to be sent carries it; and no link changes the password
\* twice, however many requests come at once: for any requests and links.
THEOREM LinksAgree == ResetSpec => []LinksHold
  <1>1. ResetInit => ResetInv
    <2> SUFFICES ASSUME ResetInit PROVE ResetInv
      OBVIOUS
    <2>1. ResetTypeOK
      <3>1. PIdle \in PRequest
        BY DEF PIdle, PRequest
      <3>2. /\ row \in [Links -> {"none", "open", "used"}]
            /\ mail \in [Links -> {"none", "pending", "closed", "sent"}]
            /\ changes \in [Links -> Nat]
        BY DEF ResetInit
      <3>3. preq \in [PReqs -> PRequest]
        BY <3>1 DEF ResetInit
      <3>4. lapsed \subseteq Links /\ pfaults \in 0..MaxPFaults
        BY ResetAssumption DEF ResetInit
      <3>5. overlap \in BOOLEAN
        BY DEF ResetInit
      <3> QED
        BY <3>2, <3>3, <3>4, <3>5 DEF ResetTypeOK
    <2>2. /\ \A r \in PReqs : preq[r].pc = "idle"
          /\ \A l \in Links : row[l] = "none" /\ mail[l] = "none" /\ changes[l] = 0
      BY DEF ResetInit, PIdle
    <2>3. OneByOne /\ MailsAgree
      BY <2>2 DEF OneByOne, MailsAgree
    <2>4. ASSUME NEW l \in Links PROVE SpentOf(l)
      BY <2>2 DEF SpentOf
    <2>5. ASSUME NEW r \in PReqs PROVE IssuedOf(r)
      BY <2>2 DEF IssuedOf
    <2> QED
      BY <2>1, <2>3, <2>4, <2>5 DEF ResetInv
  <1>2. ResetInv /\ [ResetNext]_pvars => ResetInv'
    BY ForgotInv, CompleteInv, IssueInv, MailInv, LinksInv DEF ResetNext
  <1>3. ResetInv => LinksHold
    <2> SUFFICES ASSUME ResetInv PROVE LinksHold
      OBVIOUS
    <2>1. LinkSpentOnce
      BY DEF ResetInv, SpentOf, LinkSpentOnce
    <2>2. SerialResetsAgree
      <3> SUFFICES ASSUME ~overlap PROVE SerialResetsAgree
        BY DEF SerialResetsAgree
      <3>1. OneValidLink
        BY AtMostOne DEF ResetInv, OneByOne, OneValidLink, Valid
      <3>2. ASSUME pfaults = 0, \A r \in PReqs : preq[r].pc = "idle", NEW l \in Links, mail[l] = "pending"
            PROVE  Valid(l) \/ l \in lapsed
        BY <3>2 DEF ResetInv, MailsAgree, Valid
      <3> QED
        BY <3>1, <3>2 DEF SerialResetsAgree
    <2> QED
      BY <2>1, <2>2 DEF ResetInv, LinksHold
  <1> QED
    BY <1>1, <1>2, <1>3, PTL DEF ResetSpec


-----------------------------------------------------------------------------
(* The last super_admin                                                    *)

\* The natural numbers are well founded, so a row that is next exists.
LEMMA LeastOf ==
    ASSUME NEW S \in SUBSET Nat, S # {}
    PROVE  \E u \in S : \A v \in S : u <= v
  <1> DEFINE R == {p \in Nat \X Nat : p[1] < p[2]}
  <1>1. IsWellFoundedOn(R, Nat)
    BY NatLessThanWellFounded DEF OpToRel
  <1>2. PICK u \in S : \A v \in S : ~(<<v, u>> \in R)
    BY <1>1, WFMin
  <1>3. ASSUME NEW v \in S PROVE u <= v
    <2>1. u \in Nat /\ v \in Nat /\ <<v, u>> \in Nat \X Nat
      OBVIOUS
    <2>2. v < u => <<v, u>> \in R
      BY <2>1
    <2> QED
      BY <1>2, <2>1, <2>2
  <1> QED
    BY <1>3

LEMMA NextRowIs ==
    ASSUME SuperTypeOK, NEW t \in Txs, tx[t].todo # {}
    PROVE  NextRow(t) \in tx[t].todo /\ \A v \in tx[t].todo : NextRow(t) <= v
  <1>1. tx[t].todo \in SUBSET Nat
    BY DEF SuperTypeOK, TxState, Uids
  <1>2. \E u \in tx[t].todo : \A v \in tx[t].todo : u <= v
    BY <1>1, LeastOf
  <1> QED
    BY <1>2 DEF NextRow

LEMMA TxMoves ==
    ASSUME SuperTypeOK, NEW t \in Txs, NEW q \in TxState, tx' = [tx EXCEPT ![t] = q]
    PROVE  tx' \in [Txs -> TxState] /\ tx'[t] = q /\ \A v \in Txs \ {t} : tx'[v] = tx[v]
  BY DEF SuperTypeOK

\* A row changes that nobody has locked and that was no super_admin's.
LEMMA RoleStep ==
    ASSUME SuperInv, NEW u \in Uids, NEW r \in Roles, role[u] # "super_admin",
           role' = [role EXCEPT ![u] = r], UNCHANGED <<holder, tx>>,
           raced' \in BOOLEAN, raced => raced',
           r = "super_admin" /\ ~raced' => \A t \in Txs : tx[t].pc = "idle"
    PROVE  SuperInv'
  <1>0. SuperTypeOK /\ Locks /\ Snapshots
    BY DEF SuperInv
  <1>1. role' \in [Uids -> Roles \cup {"none"}] /\ role'[u] = r /\ \A v \in Uids \ {u} : role'[v] = role[v]
    BY <1>0 DEF SuperTypeOK
  <1>2. SuperTypeOK'
    BY <1>0, <1>1 DEF SuperTypeOK
  <1>3. ASSUME NEW t \in Txs, NEW v \in tx[t].got PROVE role'[v] = "super_admin"
    <2>1. role[v] = "super_admin" /\ v \in Uids
      BY <1>0, <1>3 DEF Locks, SuperTypeOK, TxState
    <2> QED
      BY <1>1, <2>1
  <1>4. Locks'
    BY <1>0, <1>3 DEF Locks
  <1>5. Snapshots'
    <2> SUFFICES ASSUME ~raced' PROVE Snapshots'
      BY DEF Snapshots
    <2>1. Supers # {} /\ \A t \in Txs : tx[t].pc # "idle" => Supers \subseteq tx[t].todo \cup tx[t].got
      BY <1>0 DEF Snapshots
    <2>2. Supers \subseteq Supers'
      BY <1>1 DEF Supers
    <2>3. r # "super_admin" => Supers' = Supers
      BY <1>1 DEF Supers
    <2> QED
      BY <2>1, <2>2, <2>3 DEF Snapshots
  <1> QED
    BY <1>2, <1>4, <1>5 DEF SuperInv

\* A transaction ends and gives its locks back.
LEMMA Release ==
    ASSUME SuperInv, NEW t \in Txs, holder' = Unlocked(t), tx' = [tx EXCEPT ![t] = TxIdle],
           role' \in [Uids -> Roles \cup {"none"}], UNCHANGED raced,
           \A v \in Txs \ {t} : \A u \in tx[v].got : role'[u] = role[u],
           Supers' \subseteq Supers, ~raced => Supers' # {}
    PROVE  SuperInv'
  <1>0. SuperTypeOK /\ Locks /\ Snapshots
    BY DEF SuperInv
  <1>1. /\ TxIdle \in TxState /\ TxIdle.pc = "idle" /\ TxIdle.got = {} /\ TxIdle.todo = {}
    BY SuperAssumption DEF TxIdle, TxState, Uids
  <1>2. tx' \in [Txs -> TxState] /\ tx'[t] = TxIdle /\ \A v \in Txs \ {t} : tx'[v] = tx[v]
    BY <1>0, <1>1, TxMoves
  <1>3. /\ holder' \in [Uids -> Txs \cup {NoTx}]
        /\ \A u \in Uids : holder'[u] = IF holder[u] = t THEN NoTx ELSE holder[u]
    BY <1>0 DEF Unlocked, SuperTypeOK
  <1>4. SuperTypeOK'
    BY <1>0, <1>2, <1>3 DEF SuperTypeOK
  <1>5. Locks'
    <2>1. ASSUME NEW u \in Uids, NEW v \in Txs PROVE holder'[u] = v <=> u \in tx'[v].got
      <3>1. v # NoTx
        BY SuperAssumption
      <3>2. CASE v = t
        BY <1>1, <1>2, <1>3, <3>1, <3>2
      <3>3. CASE v # t
        BY <1>0, <1>2, <1>3, <3>1, <3>3 DEF Locks
      <3> QED
        BY <3>2, <3>3
    <2>2. ASSUME NEW v \in Txs, NEW u \in tx'[v].got PROVE role'[u] = "super_admin"
      <3>1. v # t
        BY <1>1, <1>2, <2>2
      <3> QED
        BY <1>0, <1>2, <2>2, <3>1 DEF Locks
    <2>3. ASSUME NEW v \in Txs
          PROVE  /\ tx'[v].pc = "idle" => tx'[v].got = {} /\ tx'[v].todo = {}
                 /\ tx'[v].pc = "write" => tx'[v].todo = {} /\ tx'[v].got # {tx'[v].target}
                 /\ \A g \in tx'[v].got, d \in tx'[v].todo : g < d
      <3>1. CASE v = t
        BY <1>1, <1>2, <3>1
      <3>2. CASE v # t
        BY <1>0, <1>2, <3>2 DEF Locks
      <3> QED
        BY <3>1, <3>2
    <2> QED
      BY <2>1, <2>2, <2>3 DEF Locks
  <1>6. Snapshots'
    <2> SUFFICES ASSUME ~raced PROVE Snapshots'
      BY DEF Snapshots
    <2>1. ASSUME NEW v \in Txs, tx'[v].pc # "idle" PROVE Supers' \subseteq tx'[v].todo \cup tx'[v].got
      <3>1. v # t
        BY <1>1, <1>2, <2>1
      <3> QED
        BY <1>0, <1>2, <2>1, <3>1 DEF Snapshots
    <2> QED
      BY <2>1 DEF Snapshots
  <1> QED
    BY <1>4, <1>5, <1>6 DEF SuperInv

\* A transaction goes on without a row being written.
LEMMA GuardStep ==
    ASSUME SuperInv, NEW t \in Txs, NEW q \in TxState, tx' = [tx EXCEPT ![t] = q],
           UNCHANGED <<role, raced>>, holder' \in [Uids -> Txs \cup {NoTx}],
           \A u \in Uids : /\ holder'[u] = t <=> u \in q.got
                           /\ \A v \in Txs \ {t} : holder'[u] = v <=> holder[u] = v,
           \A u \in q.got : role[u] = "super_admin",
           q.pc # "idle",
           q.pc = "write" => q.todo = {} /\ q.got # {q.target},
           \A g \in q.got, d \in q.todo : g < d,
           ~raced => Supers \subseteq q.todo \cup q.got
    PROVE  SuperInv'
  <1>0. SuperTypeOK /\ Locks /\ Snapshots
    BY DEF SuperInv
  <1>1. tx' \in [Txs -> TxState] /\ tx'[t] = q /\ \A v \in Txs \ {t} : tx'[v] = tx[v]
    BY <1>0, TxMoves
  <1>2. SuperTypeOK'
    BY <1>0, <1>1 DEF SuperTypeOK
  <1>3. Locks'
    <2>1. ASSUME NEW u \in Uids, NEW v \in Txs PROVE holder'[u] = v <=> u \in tx'[v].got
      <3>1. CASE v = t
        BY <1>1, <3>1
      <3>2. CASE v # t
        BY <1>0, <1>1, <3>2 DEF Locks
      <3> QED
        BY <3>1, <3>2
    <2>2. ASSUME NEW v \in Txs
          PROVE  /\ \A u \in tx'[v].got : role'[u] = "super_admin"
                 /\ tx'[v].pc = "idle" => tx'[v].got = {} /\ tx'[v].todo = {}
                 /\ tx'[v].pc = "write" => tx'[v].todo = {} /\ tx'[v].got # {tx'[v].target}
                 /\ \A g \in tx'[v].got, d \in tx'[v].todo : g < d
      <3>1. CASE v = t
        BY <1>1, <3>1
      <3>2. CASE v # t
        BY <1>0, <1>1, <3>2 DEF Locks
      <3> QED
        BY <3>1, <3>2
    <2> QED
      BY <2>1, <2>2 DEF Locks
  <1>4. Snapshots'
    <2>1. Supers' = Supers
      BY DEF Supers
    <2> QED
      BY <1>0, <1>1, <2>1 DEF Snapshots
  <1> QED
    BY <1>2, <1>3, <1>4 DEF SuperInv

LEMMA GuardInv ==
    ASSUME SuperInv, NEW t \in Txs,
           LockNext(t) \/ GuardDecides(t) \/ \E u \in Uids, to \in {"org_admin", "none"} : BeginGuard(t, u, to)
    PROVE  SuperInv'
  <1>0. /\ SuperTypeOK /\ Locks /\ Snapshots
        /\ role \in [Uids -> Roles \cup {"none"}] /\ holder \in [Uids -> Txs \cup {NoTx}]
        /\ tx[t] \in TxState /\ t # NoTx
    BY SuperAssumption DEF SuperInv, SuperTypeOK
  <1>1. CASE LockNext(t)
    <2>1. PICK u \in Uids : u = NextRow(t) /\ u \in tx[t].todo /\ \A v \in tx[t].todo : u <= v
      BY <1>0, <1>1, NextRowIs DEF LockNext, TxState
    <2>2. /\ tx[t].pc = "guard" /\ holder[u] = NoTx
          /\ \A g \in tx[t].got, d \in tx[t].todo : g < d
          /\ \A g \in tx[t].got : role[g] = "super_admin"
          /\ \A w \in Uids, v \in Txs : holder[w] = v <=> w \in tx[v].got
          /\ ~raced => Supers \subseteq tx[t].todo \cup tx[t].got
      BY <1>0, <1>1, <2>1 DEF LockNext, Locks, Snapshots
    <2>3. \A d \in tx[t].todo \ {u} : u < d
      <3>1. tx[t].todo \subseteq Nat
        BY <1>0 DEF TxState, Uids
      <3> QED
        BY <2>1, <3>1
    <2>4. CASE role[u] = "super_admin"
      <3> DEFINE q == [tx[t] EXCEPT !.todo = tx[t].todo \ {u}, !.got = tx[t].got \cup {u}]
      <3>1. tx' = [tx EXCEPT ![t] = q] /\ holder' = [holder EXCEPT ![u] = t] /\ UNCHANGED <<role, raced>>
        BY <1>1, <2>1, <2>4 DEF LockNext
      <3>2. /\ q \in TxState /\ q.pc = "guard"
            /\ q.todo = tx[t].todo \ {u} /\ q.got = tx[t].got \cup {u}
        BY ZenonT(60), <1>0, <2>2 DEF TxState
      <3> HIDE DEF q
      <3>3. /\ holder' \in [Uids -> Txs \cup {NoTx}]
            /\ \A w \in Uids : /\ holder'[w] = t <=> w \in q.got
                               /\ \A v \in Txs \ {t} : holder'[w] = v <=> holder[w] = v
        BY <1>0, <2>2, <3>1, <3>2, SuperAssumption
      <3>4. /\ \A w \in q.got : role[w] = "super_admin"
            /\ \A g \in q.got, d \in q.todo : g < d
            /\ ~raced => Supers \subseteq q.todo \cup q.got
        BY <2>2, <2>3, <2>4, <3>2
      <3> QED
        BY <3>1, <3>2, <3>3, <3>4, GuardStep
    <2>5. CASE role[u] # "super_admin"
      <3> DEFINE q == [tx[t] EXCEPT !.todo = tx[t].todo \ {u}]
      <3>1. tx' = [tx EXCEPT ![t] = q] /\ UNCHANGED <<role, raced, holder>>
        BY <1>1, <2>1, <2>5 DEF LockNext
      <3>2. /\ q \in TxState /\ q.pc = "guard"
            /\ q.todo = tx[t].todo \ {u} /\ q.got = tx[t].got
        BY <1>0, <2>2 DEF TxState
      <3> HIDE DEF q
      <3>3. /\ holder' \in [Uids -> Txs \cup {NoTx}]
            /\ \A w \in Uids : /\ holder'[w] = t <=> w \in q.got
                               /\ \A v \in Txs \ {t} : holder'[w] = v <=> holder[w] = v
        BY <1>0, <2>2, <3>1, <3>2
      <3>4. /\ \A w \in q.got : role[w] = "super_admin"
            /\ \A g \in q.got, d \in q.todo : g < d
            /\ ~raced => Supers \subseteq q.todo \cup q.got
        BY <2>2, <2>5, <3>2 DEF Supers
      <3> QED
        BY <3>1, <3>2, <3>3, <3>4, GuardStep
    <2> QED
      BY <2>4, <2>5
  <1>2. CASE GuardDecides(t)
    <2>1. CASE LastSuperAdmin(t)
      <3>1. /\ holder' = Unlocked(t) /\ tx' = [tx EXCEPT ![t] = TxIdle] /\ UNCHANGED <<role, raced>>
        BY <1>2, <2>1 DEF GuardDecides, Rollback
      <3>2. Supers' = Supers /\ (~raced => Supers # {})
        BY <1>0, <3>1 DEF Supers, Snapshots
      <3> QED
        BY <1>0, <3>1, <3>2, Release
    <2>2. CASE ~LastSuperAdmin(t)
      <3> DEFINE q == [tx[t] EXCEPT !.pc = "write"]
      <3>1. /\ tx' = [tx EXCEPT ![t] = q] /\ UNCHANGED <<role, raced, holder>>
            /\ tx[t].pc = "guard" /\ tx[t].todo = {} /\ tx[t].got # {tx[t].target}
        BY <1>2, <2>2 DEF GuardDecides, LastSuperAdmin
      <3>2. /\ q \in TxState /\ q.pc = "write" /\ q.target = tx[t].target
            /\ q.todo = tx[t].todo /\ q.got = tx[t].got
        BY <1>0 DEF TxState
      <3> HIDE DEF q
      <3>3. /\ \A w \in Uids : holder[w] = t <=> w \in q.got
            /\ \A w \in q.got : role[w] = "super_admin"
            /\ \A g \in q.got, d \in q.todo : g < d
            /\ ~raced => Supers \subseteq q.todo \cup q.got
        BY <1>0, <3>1, <3>2 DEF Locks, Snapshots
      <3>4. /\ holder' \in [Uids -> Txs \cup {NoTx}]
            /\ \A w \in Uids : /\ holder'[w] = t <=> w \in q.got
                               /\ \A v \in Txs \ {t} : holder'[w] = v <=> holder[w] = v
        BY <1>0, <3>1, <3>3
      <3>5. q.pc # "idle" /\ q.todo = {} /\ q.got # {q.target}
        BY <3>1, <3>2
      <3> QED
        BY <3>1, <3>2, <3>3, <3>4, <3>5, GuardStep
    <2> QED
      BY <2>1, <2>2
  <1>3. ASSUME NEW u \in Uids, NEW to \in {"org_admin", "none"}, BeginGuard(t, u, to)
        PROVE  SuperInv'
    <2> DEFINE q == [pc |-> "guard", target |-> u, to |-> to, todo |-> Supers, got |-> {}]
    <2>1. tx[t].pc = "idle" /\ tx' = [tx EXCEPT ![t] = q] /\ UNCHANGED <<role, raced, holder>>
      BY <1>3 DEF BeginGuard
    <2>2. q \in TxState /\ q.pc = "guard" /\ q.todo = Supers /\ q.got = {}
      BY DEF TxState, Supers
    <2> HIDE DEF q
    <2>3. \A w \in Uids : holder[w] = t <=> w \in q.got
      BY <1>0, <2>1, <2>2 DEF Locks
    <2> QED
      BY <1>0, <2>1, <2>2, <2>3, GuardStep
  <1> QED
    BY <1>1, <1>2, <1>3

\* A write leaves another super_admin: the guard has seen and locked them all.
LEMMA WriteInv ==
    ASSUME SuperInv, NEW t \in Txs, WriteCommit(t)
    PROVE  SuperInv'
  <1>0. /\ SuperTypeOK /\ Locks /\ Snapshots
        /\ role \in [Uids -> Roles \cup {"none"}] /\ tx[t] \in TxState
    BY DEF SuperInv, SuperTypeOK
  <1>1. PICK u \in Uids, to \in {"org_admin", "none"} : u = tx[t].target /\ to = tx[t].to
    BY <1>0 DEF TxState
  <1>2. /\ tx[t].pc = "write" /\ holder[u] \in {t, NoTx}
        /\ holder' = Unlocked(t) /\ tx' = [tx EXCEPT ![t] = TxIdle] /\ UNCHANGED raced
        /\ role' = role \/ role' = [role EXCEPT ![u] = to]
    BY <1>1 DEF WriteCommit
  <1>3. /\ role' \in [Uids -> Roles \cup {"none"}]
        /\ \A w \in Uids : role'[w] = role[w] \/ (w = u /\ role'[w] # "super_admin")
    BY <1>0, <1>2 DEF Roles
  <1>4. Supers' \subseteq Supers
    BY <1>3 DEF Supers
  <1>5. ASSUME ~raced PROVE Supers' # {}
    <2>1. Supers # {} /\ Supers \subseteq tx[t].got /\ tx[t].got # {u} /\ tx[t].got \subseteq Supers
      BY <1>0, <1>1, <1>2, <1>5 DEF Locks, Snapshots, Supers, TxState
    <2>2. PICK w \in Supers : w # u
      BY <2>1
    <2>3. w \in Supers'
      BY <1>3, <2>2 DEF Supers
    <2> QED
      BY <2>3
  <1>6. ASSUME NEW v \in Txs \ {t}, NEW w \in tx[v].got PROVE role'[w] = role[w]
    <2>1. w \in Uids /\ holder[w] = v /\ v # NoTx
      BY <1>0, <1>6, SuperAssumption DEF Locks, SuperTypeOK, TxState
    <2> QED
      BY <1>2, <1>3, <2>1
  <1> QED
    BY <1>2, <1>3, <1>4, <1>5, <1>6, Release

LEMMA AbortInv ==
    ASSUME SuperInv, NEW t \in Txs, DeadlockAborts(t)
    PROVE  SuperInv'
  <1>0. role \in [Uids -> Roles \cup {"none"}] /\ Snapshots
    BY DEF SuperInv, SuperTypeOK
  <1>1. holder' = Unlocked(t) /\ tx' = [tx EXCEPT ![t] = TxIdle] /\ UNCHANGED <<role, raced>>
    BY DEF DeadlockAborts, Rollback
  <1>2. Supers' = Supers /\ (~raced => Supers # {})
    BY <1>0, <1>1 DEF Supers, Snapshots
  <1> QED
    BY <1>0, <1>1, <1>2, Release

LEMMA RolesInv ==
    ASSUME SuperInv, NEW u \in Uids,
           Promote(u) \/ BootstrapSuperAdmin(u) \/ \E r \in Roles : CreateUser(u, r)
    PROVE  SuperInv'
  <1>0. raced \in BOOLEAN /\ Snapshots /\ "super_admin" \in Roles
    BY DEF SuperInv, SuperTypeOK, Roles
  <1>1. CASE Promote(u)
    <2>1. /\ role[u] # "super_admin" /\ role' = [role EXCEPT ![u] = "super_admin"] /\ UNCHANGED <<holder, tx>>
          /\ raced' = (raced \/ \E t \in Txs : tx[t].pc # "idle")
      BY <1>1 DEF Promote
    <2>2. raced' \in BOOLEAN /\ (raced => raced') /\ (~raced' => \A t \in Txs : tx[t].pc = "idle")
      BY <2>1
    <2> QED
      BY <1>0, <2>1, <2>2, RoleStep
  <1>2. CASE BootstrapSuperAdmin(u)
    <2>1. /\ Supers = {} /\ role[u] # "super_admin" /\ role' = [role EXCEPT ![u] = "super_admin"]
          /\ UNCHANGED <<holder, tx, raced>>
      BY <1>2 DEF BootstrapSuperAdmin
    <2>2. raced
      BY <1>0, <2>1 DEF Snapshots
    <2> QED
      BY <1>0, <2>1, <2>2, RoleStep
  <1>3. ASSUME NEW r \in Roles, CreateUser(u, r) PROVE SuperInv'
    <2>1. /\ role[u] # "super_admin" /\ role' = [role EXCEPT ![u] = r] /\ UNCHANGED <<holder, tx>>
          /\ raced' = (raced \/ (r = "super_admin" /\ \E t \in Txs : tx[t].pc # "idle"))
      BY <1>3 DEF CreateUser
    <2>2. /\ raced' \in BOOLEAN /\ (raced => raced')
          /\ r = "super_admin" /\ ~raced' => \A t \in Txs : tx[t].pc = "idle"
      BY <2>1
    <2> QED
      BY <2>1, <2>2, RoleStep
  <1> QED
    BY <1>1, <1>2, <1>3

\* The order of the ids keeps two guards from waiting for each other.
LEMMA NoCircle ==
    ASSUME SuperInv, ~raced, NEW t \in Txs, NEW v \in Txs, WaitsFor(t, v), WaitsFor(v, t)
    PROVE  FALSE
  <1>0. /\ SuperTypeOK /\ Locks /\ Snapshots
        /\ tx[t] \in TxState /\ tx[v] \in TxState /\ t # v
    BY DEF SuperInv, SuperTypeOK, WaitsFor
  \* A transaction that writes waits for nobody: it has every row of a super_admin.
  <1>1. ASSUME NEW a \in Txs, NEW b \in Txs, a # b, tx[a].pc = "write", holder[tx[a].target] = b
        PROVE  FALSE
    <2>1. PICK u \in Uids : u = tx[a].target
      BY <1>0 DEF SuperTypeOK, TxState
    <2>2. u \in tx[b].got /\ role[u] = "super_admin"
      BY <1>0, <1>1, <2>1 DEF Locks
    <2>3. u \in tx[a].got
      BY <1>0, <1>1, <2>1, <2>2 DEF Locks, Snapshots, Supers
    <2> QED
      BY <1>0, <1>1, <2>1, <2>3 DEF Locks
  <1>2. /\ tx[t].todo # {} /\ holder[NextRow(t)] = v
        /\ tx[v].todo # {} /\ holder[NextRow(v)] = t
    BY <1>0, <1>1 DEF WaitsFor
  <1>3. PICK x \in Uids : x = NextRow(t) /\ x \in tx[t].todo
    BY <1>0, <1>2, NextRowIs DEF TxState
  <1>4. PICK y \in Uids : y = NextRow(v) /\ y \in tx[v].todo
    BY <1>0, <1>2, NextRowIs DEF TxState
  <1>5. x \in tx[v].got /\ y \in tx[t].got
    BY <1>0, <1>2, <1>3, <1>4 DEF Locks
  <1>6. x < y /\ y < x
    BY <1>0, <1>3, <1>4, <1>5 DEF Locks
  <1> QED
    BY <1>6 DEF Uids

\* As long as no account is raised to super_admin under a guard, one super_admin
\* remains and no two administrators wait for each other in a circle: for any
\* number of accounts and transactions (users.go guardLastSuperAdmin).
THEOREM OneRemains == SuperSpec => []GuardHolds
  <1>1. SuperInit => SuperInv
    <2> SUFFICES ASSUME SuperInit PROVE SuperInv
      OBVIOUS
    <2>1. /\ TxIdle \in TxState /\ TxIdle.pc = "idle" /\ TxIdle.got = {} /\ TxIdle.todo = {}
          /\ 1 \in Uids
      BY SuperAssumption DEF TxIdle, TxState, Uids
    <2>2. /\ role \in [Uids -> Roles \cup {"none"}] /\ holder \in [Uids -> Txs \cup {NoTx}]
          /\ role[1] = "super_admin" /\ \A u \in Uids : holder[u] = NoTx
      BY <2>1 DEF SuperInit, Roles
    <2>3. tx \in [Txs -> TxState] /\ \A t \in Txs : tx[t] = TxIdle
      BY <2>1 DEF SuperInit
    <2>4. raced = FALSE
      BY DEF SuperInit
    <2>5. SuperTypeOK
      BY <2>2, <2>3, <2>4 DEF SuperTypeOK
    <2>6. Locks
      BY <2>1, <2>2, <2>3, SuperAssumption DEF Locks
    <2>7. Snapshots
      BY <2>1, <2>2, <2>3 DEF Snapshots, Supers
    <2> QED
      BY <2>5, <2>6, <2>7 DEF SuperInv
  <1>2. SuperInv /\ UNCHANGED avars => SuperInv'
    BY DEF SuperInv, SuperTypeOK, Locks, Snapshots, Supers, avars
  <1>3. SuperInv /\ [SuperNext]_avars => SuperInv'
    BY <1>2, GuardInv, WriteInv, AbortInv, RolesInv DEF SuperNext, SuperStep
  <1>4. SuperInv => GuardHolds
    BY NoCircle DEF SuperInv, Snapshots, SuperAdminRemains, NoDeadlock, GuardHolds
  <1> QED
    BY <1>1, <1>3, <1>4, PTL DEF SuperSpec

-----------------------------------------------------------------------------
(* Organizations                                                           *)

\* f collects, from base on, what a step adds in each round.
Rounds(f, lo, hi, base, step) ==
    \A k \in lo..hi : f[k] = IF k = lo THEN base ELSE f[k - 1] \cup step[f[k - 1]]

LEMMA RoundsExist ==
    ASSUME NEW U, NEW base \in SUBSET U, NEW step \in [SUBSET U -> SUBSET U], NEW lo \in Nat, NEW h \in Nat
    PROVE  \E f \in [lo..(lo + h) -> SUBSET U] : Rounds(f, lo, lo + h, base, step)
  <1> DEFINE Has(n) == \E f \in [lo..(lo + n) -> SUBSET U] : Rounds(f, lo, lo + n, base, step)
             Bad == {n \in Nat : ~Has(n)}
  <1>1. SUFFICES ASSUME Bad # {} PROVE FALSE
    OBVIOUS
  <1>2. PICK n \in Bad : \A m \in Bad : n <= m
    BY <1>1, LeastOf
  <1>3. n # 0
    <2> SUFFICES ASSUME n = 0 PROVE Has(0)
      BY <1>2
    <2> DEFINE f == [k \in lo..lo |-> base]
    <2>1. f \in [lo..(lo + 0) -> SUBSET U] /\ \A k \in lo..(lo + 0) : k = lo /\ f[k] = base
      OBVIOUS
    <2> HIDE DEF f
    <2> QED
      BY <2>1 DEF Rounds
  <1>4. n - 1 \in Nat /\ Has(n - 1)
    <2>1. n \in Nat /\ n - 1 \in Nat /\ ~(n <= n - 1)
      BY <1>2, <1>3
    <2> QED
      BY <1>2, <2>1
  <1>5. PICK f \in [lo..(lo + (n - 1)) -> SUBSET U] : Rounds(f, lo, lo + (n - 1), base, step)
    BY <1>4
  <1> DEFINE last == f[lo + (n - 1)]
             g == [k \in lo..(lo + n) |-> IF k = lo + n THEN last \cup step[last] ELSE f[k]]
  <1>6. n \in Nat /\ last \in SUBSET U /\ last \cup step[last] \in SUBSET U
    <2>1. n \in Nat /\ lo + (n - 1) \in lo..(lo + (n - 1))
      BY <1>2, <1>4
    <2>2. last \in SUBSET U
      BY <2>1
    <2>3. step[last] \in SUBSET U
      BY <2>2
    <2> QED
      BY <2>1, <2>2, <2>3
  <1>7. /\ g \in [lo..(lo + n) -> SUBSET U]
        /\ g[lo + n] = last \cup step[last]
        /\ \A k \in lo..(lo + (n - 1)) : k \in lo..(lo + n) /\ g[k] = f[k]
    BY <1>4, <1>6
  <1> HIDE DEF g, last
  <1>8. ASSUME NEW k \in lo..(lo + n)
        PROVE  g[k] = IF k = lo THEN base ELSE g[k - 1] \cup step[g[k - 1]]
    <2>1. CASE k = lo + n
      <3>1. k # lo /\ k - 1 = lo + (n - 1) /\ k - 1 \in lo..(lo + (n - 1))
        BY <1>3, <1>6, <2>1
      <3>2. g[k - 1] = last
        BY <1>7, <3>1 DEF last
      <3> QED
        BY <1>7, <2>1, <3>1, <3>2
    <2>2. CASE k # lo + n
      <3>1. k \in lo..(lo + (n - 1)) /\ (k # lo => k - 1 \in lo..(lo + (n - 1)))
        BY <1>6, <2>2
      <3>2. f[k] = IF k = lo THEN base ELSE f[k - 1] \cup step[f[k - 1]]
        BY <1>5, <3>1 DEF Rounds
      <3> QED
        BY <1>7, <3>1, <3>2
    <2> QED
      BY <2>1, <2>2
  <1>9. Has(n)
    BY <1>7, <1>8 DEF Rounds
  <1> QED
    BY <1>2, <1>9

LEMMA RoundsIf ==
    ASSUME NEW U, NEW base \in SUBSET U, NEW step \in [SUBSET U -> SUBSET U], NEW lo \in Nat, NEW hi \in Nat, NEW f,
           f[lo] = base, \A k \in lo..hi : k # lo /\ f[k - 1] \in SUBSET U => f[k] = f[k - 1] \cup step[f[k - 1]]
    PROVE  Rounds(f, lo, hi, base, step)
  <1> DEFINE Bad == {k \in Nat : k \in lo..hi /\ f[k] \notin SUBSET U}
  <1>1. Bad = {}
    <2>1. SUFFICES ASSUME Bad # {} PROVE FALSE
      OBVIOUS
    <2>2. PICK k \in Bad : \A m \in Bad : k <= m
      <3>1. Bad \in SUBSET Nat
        OBVIOUS
      <3> HIDE DEF Bad
      <3> QED
        BY <2>1, <3>1, LeastOf
    <2>3. k \in Nat /\ k \in lo..hi /\ f[k] \notin SUBSET U
      BY <2>2
    <2>4. k # lo
      BY <2>3
    <2>5. k - 1 \in Nat /\ k - 1 \in lo..hi /\ ~(k <= k - 1)
      BY <2>3, <2>4
    <2>6. f[k - 1] \in SUBSET U
      BY <2>2, <2>5
    <2>7. step[f[k - 1]] \in SUBSET U
      BY <2>6
    <2>8. f[k] = f[k - 1] \cup step[f[k - 1]]
      BY <2>3, <2>4, <2>6
    <2> QED
      BY <2>3, <2>6, <2>7, <2>8
  <1>2. \A k \in lo..hi : k # lo => f[k - 1] \in SUBSET U
    <2> SUFFICES ASSUME NEW k \in lo..hi, k # lo PROVE f[k - 1] \in SUBSET U
      OBVIOUS
    <2>1. k - 1 \in Nat /\ k - 1 \in lo..hi
      OBVIOUS
    <2> QED
      BY <1>1, <2>1
  <1> QED
    BY <1>2 DEF Rounds

\* After as many rounds as there are elements, a round adds nothing: each round
\* before that added one at least.
LEMMA RoundsEnd ==
    ASSUME NEW U, IsFiniteSet(U), NEW base \in SUBSET U, NEW step \in [SUBSET U -> SUBSET U], step[{}] = {},
           NEW lo \in {0, 1}, lo <= Cardinality(U), NEW f, Rounds(f, lo, Cardinality(U), base, step)
    PROVE  LET R == f[Cardinality(U)]
           IN  /\ R \in SUBSET U /\ base \subseteq R /\ step[R] \subseteq R
               /\ \A T \in SUBSET U : base \subseteq T /\ (\A X \in SUBSET T : step[X] \subseteq T) => R \subseteq T
  <1> DEFINE N == Cardinality(U)
             Grown(n) == /\ f[n] \in SUBSET U /\ base \subseteq f[n]
                         /\ step[f[n]] \subseteq f[n] \/ n <= Cardinality(f[n])
                         /\ \A T \in SUBSET U :
                               base \subseteq T /\ (\A X \in SUBSET T : step[X] \subseteq T) => f[n] \subseteq T
             Bad == {n \in Nat : n \in lo..N /\ ~Grown(n)}
  <1>1. N \in Nat /\ lo \in Nat
    BY FS_CardinalityType
  <1>2. Bad = {}
    <2>1. SUFFICES ASSUME Bad # {} PROVE FALSE
      OBVIOUS
    <2>2. PICK n \in Bad : \A m \in Bad : n <= m
      <3>1. Bad \in SUBSET Nat
        OBVIOUS
      <3> HIDE DEF Bad
      <3> QED
        BY <2>1, <3>1, LeastOf
    <2>3. n \in Nat /\ n \in lo..N /\ ~Grown(n)
      BY <2>2
    <2>4. CASE n = lo
      <3>1. f[n] = base
        BY <2>3, <2>4 DEF Rounds
      <3>2. step[base] \subseteq base \/ n <= Cardinality(base)
        <4>1. CASE base = {}
          BY <4>1
        <4>2. CASE base # {}
          <5>1. IsFiniteSet(base) /\ Cardinality(base) \in Nat /\ Cardinality(base) # 0
            BY <4>2, FS_Subset, FS_CardinalityType, FS_EmptySet
          <5> QED
            BY <2>4, <5>1
        <4> QED
          BY <4>1, <4>2
      <3> QED
        BY <2>3, <3>1, <3>2
    <2>5. CASE n # lo
      <3>1. n - 1 \in Nat /\ n - 1 \in lo..N /\ ~(n <= n - 1) /\ (n - 1) + 1 = n
        BY <1>1, <2>3, <2>5
      <3>2. Grown(n - 1)
        BY <2>2, <3>1
      <3>3. PICK A : A = f[n - 1]
        OBVIOUS
      <3>4. /\ A \in SUBSET U /\ base \subseteq A
            /\ step[A] \subseteq A \/ n - 1 <= Cardinality(A)
            /\ \A T \in SUBSET U : base \subseteq T /\ (\A X \in SUBSET T : step[X] \subseteq T) => A \subseteq T
        BY <3>2, <3>3
      <3>5. f[n] = A \cup step[A] /\ step[A] \in SUBSET U
        BY <2>3, <2>5, <3>3, <3>4 DEF Rounds
      <3>6. step[f[n]] \subseteq f[n] \/ n <= Cardinality(f[n])
        <4>1. CASE step[A] \subseteq A
          <5>1. f[n] = A
            BY <3>5, <4>1
          <5> QED
            BY <4>1, <5>1
        <4>2. CASE ~(step[A] \subseteq A)
          <5>1. PICK y \in step[A] : y \notin A
            BY <4>2
          <5>2. IsFiniteSet(f[n]) /\ IsFiniteSet(A) /\ Cardinality(A) \in Nat /\ Cardinality(f[n]) \in Nat
            BY <3>4, <3>5, FS_Subset, FS_CardinalityType
          <5>3. Cardinality(A) <= Cardinality(f[n]) /\ (Cardinality(A) = Cardinality(f[n]) => A = f[n])
            BY <3>5, <5>2, FS_Subset
          <5>4. A # f[n]
            BY <3>5, <5>1
          <5> QED
            BY <3>1, <3>4, <4>2, <5>2, <5>3, <5>4
        <4> QED
          BY <4>1, <4>2
      <3>7. ASSUME NEW T \in SUBSET U, base \subseteq T, \A X \in SUBSET T : step[X] \subseteq T
            PROVE  f[n] \subseteq T
        <4>1. A \subseteq T
          BY <3>4, <3>7
        <4>2. step[A] \subseteq T
          BY <3>7, <4>1
        <4> QED
          BY <3>5, <4>1, <4>2
      <3>8. f[n] \in SUBSET U /\ base \subseteq f[n]
        BY <3>4, <3>5
      <3> QED
        BY <2>3, <3>6, <3>7, <3>8
    <2> QED
      BY <2>4, <2>5
  <1>3. Grown(N)
    <2>1. N \in Nat /\ N \in lo..N
      BY <1>1
    <2> QED
      BY <1>2, <2>1
  <1>4. step[f[N]] \subseteq f[N]
    <2>1. CASE N <= Cardinality(f[N])
      <3>1. f[N] \in SUBSET U /\ Cardinality(f[N]) <= N /\ (Cardinality(f[N]) = N => f[N] = U)
        BY <1>3, FS_Subset
      <3>2. Cardinality(f[N]) \in Nat
        BY <3>1, FS_Subset, FS_CardinalityType
      <3>3. f[N] = U
        BY <1>1, <2>1, <3>1, <3>2
      <3> QED
        BY <3>1, <3>3
    <2> QED
      BY <1>3, <2>1
  <1> QED
    BY <1>3, <1>4

\* What the recursive queries compute, however the tree looks: everything below
\* S, or above it, and nothing more.
BelowRight(S) ==
    /\ WithDescendants(S) \in SUBSET Orgs /\ S \cap Existing \subseteq WithDescendants(S)
    /\ Children(WithDescendants(S)) \subseteq WithDescendants(S)
    /\ \A T \in SUBSET Orgs : S \cap Existing \subseteq T /\ Children(T) \subseteq T => WithDescendants(S) \subseteq T
AboveRight(S) ==
    /\ Ancestors(S) \in SUBSET Orgs /\ Parents(S) \subseteq Ancestors(S)
    /\ Parents(Ancestors(S)) \subseteq Ancestors(S)
    /\ \A T \in SUBSET Orgs : Parents(S) \subseteq T /\ Parents(T) \subseteq T => Ancestors(S) \subseteq T
QueriesRight == \A S \in SUBSET Orgs : BelowRight(S) /\ (Orgs # {} => AboveRight(S))

LEMMA Below ==
    ASSUME NEW S \in SUBSET Orgs
    PROVE  BelowRight(S)
  <1> DEFINE N == Cardinality(Orgs)
             base == S \cap Existing
             step == [X \in SUBSET Orgs |-> Children(X)]
             IsRound(f) == f = [n \in 0..N |-> IF n = 0 THEN base ELSE f[n - 1] \cup Children(f[n - 1])]
             g == CHOOSE f : IsRound(f)
  <1>1. IsFiniteSet(Orgs) /\ N \in Nat
    BY OrgAssumption, FS_CardinalityType
  <1>2. base \in SUBSET Orgs /\ step \in [SUBSET Orgs -> SUBSET Orgs] /\ step[{}] = {}
    <2>1. Children({}) = {} /\ \A X \in SUBSET Orgs : Children(X) \in SUBSET Orgs
      BY DEF Children, Existing
    <2>2. {} \in SUBSET Orgs
      OBVIOUS
    <2> QED
      BY <2>1, <2>2
  <1>3. \A X \in SUBSET Orgs : step[X] = Children(X)
    OBVIOUS
  <1>4. WithDescendants(S) = g[N]
    BY DEF WithDescendants
  <1> HIDE DEF base, step, N
  <1>5. \E f : IsRound(f)
    <2>1. PICK f \in [0..(0 + N) -> SUBSET Orgs] : Rounds(f, 0, 0 + N, base, step)
      <3>1. 0 \in Nat
        OBVIOUS
      <3> QED
        BY <1>1, <1>2, <3>1, RoundsExist
    <2>2. ASSUME NEW k \in 0..N PROVE f[k] = IF k = 0 THEN base ELSE f[k - 1] \cup Children(f[k - 1])
      <3>1. f[k] = IF k = 0 THEN base ELSE f[k - 1] \cup step[f[k - 1]]
        BY <1>1, <2>1 DEF Rounds
      <3>2. k # 0 => k - 1 \in 0..N /\ f[k - 1] \in SUBSET Orgs
        BY <1>1, <2>1
      <3> QED
        BY <1>3, <3>1, <3>2
    <2>3. f = [n \in 0..N |-> f[n]]
      BY <1>1, <2>1
    <2>4. IsRound(f)
      BY <2>2, <2>3
    <2> QED
      BY <2>4
  <1>6. IsRound(g)
    BY <1>5
  <1> HIDE DEF g
  <1>7. \A k \in 0..N : g[k] = IF k = 0 THEN base ELSE g[k - 1] \cup Children(g[k - 1])
    BY <1>6
  <1>8. Rounds(g, 0, N, base, step)
    <2>1. ASSUME NEW k \in 0..N, k # 0, g[k - 1] \in SUBSET Orgs PROVE g[k] = g[k - 1] \cup step[g[k - 1]]
      BY <1>3, <1>7, <2>1
    <2>2. 0 \in Nat /\ 0 \in 0..N
      BY <1>1
    <2>3. g[0] = base
      BY <1>7, <2>2
    <2> QED
      BY <1>1, <1>2, <2>1, <2>2, <2>3, RoundsIf
  <1>9. /\ g[N] \in SUBSET Orgs /\ base \subseteq g[N] /\ step[g[N]] \subseteq g[N]
        /\ \A T \in SUBSET Orgs : base \subseteq T /\ (\A X \in SUBSET T : step[X] \subseteq T) => g[N] \subseteq T
    <2>1. 0 \in {0, 1} /\ 0 <= N
      BY <1>1
    <2> QED
      BY <1>1, <1>2, <1>8, <2>1, RoundsEnd DEF N
  <1>10. ASSUME NEW T \in SUBSET Orgs, base \subseteq T, Children(T) \subseteq T PROVE g[N] \subseteq T
    <2>1. ASSUME NEW X \in SUBSET T PROVE step[X] \subseteq T
      <3>1. X \in SUBSET Orgs /\ Children(X) \subseteq Children(T)
        BY DEF Children
      <3> QED
        BY <1>3, <1>10, <3>1
    <2> QED
      BY <1>9, <1>10, <2>1
  <1>11. Children(g[N]) \subseteq g[N]
    BY <1>3, <1>9
  <1> QED
    BY <1>4, <1>9, <1>10, <1>11 DEF BelowRight, base

LEMMA Above ==
    ASSUME NEW S \in SUBSET Orgs, Orgs # {}
    PROVE  AboveRight(S)
  <1> DEFINE N == Cardinality(Orgs)
             base == Parents(S)
             step == [X \in SUBSET Orgs |-> Parents(X)]
             IsRound(f) == f = [n \in 1..N |-> IF n = 1 THEN base ELSE f[n - 1] \cup Parents(f[n - 1])]
             g == CHOOSE f : IsRound(f)
  <1>1. IsFiniteSet(Orgs) /\ N \in Nat /\ 1 <= N
    <2>1. IsFiniteSet(Orgs) /\ N \in Nat /\ N # 0
      BY OrgAssumption, FS_CardinalityType, FS_EmptySet
    <2> QED
      BY <2>1
  <1>2. base \in SUBSET Orgs /\ step \in [SUBSET Orgs -> SUBSET Orgs] /\ step[{}] = {}
    <2>1. Parents({}) = {} /\ Parents(S) \in SUBSET Orgs /\ \A X \in SUBSET Orgs : Parents(X) \in SUBSET Orgs
      BY DEF Parents
    <2>2. {} \in SUBSET Orgs
      OBVIOUS
    <2> QED
      BY <2>1, <2>2
  <1>3. \A X \in SUBSET Orgs : step[X] = Parents(X)
    OBVIOUS
  <1>4. Ancestors(S) = g[N]
    BY DEF Ancestors
  <1> HIDE DEF base, step, N
  <1>5. \E f : IsRound(f)
    <2>1. PICK f \in [1..N -> SUBSET Orgs] : Rounds(f, 1, N, base, step)
      <3>1. 1 \in Nat /\ N - 1 \in Nat /\ 1 + (N - 1) = N
        BY <1>1
      <3>2. \E f \in [1..(1 + (N - 1)) -> SUBSET Orgs] : Rounds(f, 1, 1 + (N - 1), base, step)
        BY <1>2, <3>1, RoundsExist
      <3> QED
        BY <3>1, <3>2
    <2>2. ASSUME NEW k \in 1..N PROVE f[k] = IF k = 1 THEN base ELSE f[k - 1] \cup Parents(f[k - 1])
      <3>1. f[k] = IF k = 1 THEN base ELSE f[k - 1] \cup step[f[k - 1]]
        BY <1>1, <2>1 DEF Rounds
      <3>2. k # 1 => k - 1 \in 1..N /\ f[k - 1] \in SUBSET Orgs
        BY <1>1, <2>1
      <3> QED
        BY <1>3, <3>1, <3>2
    <2>3. f = [n \in 1..N |-> f[n]]
      BY <1>1, <2>1
    <2>4. IsRound(f)
      BY <2>2, <2>3
    <2> QED
      BY <2>4
  <1>6. IsRound(g)
    BY <1>5
  <1> HIDE DEF g
  <1>7. \A k \in 1..N : g[k] = IF k = 1 THEN base ELSE g[k - 1] \cup Parents(g[k - 1])
    BY <1>6
  <1>8. Rounds(g, 1, N, base, step)
    <2>1. ASSUME NEW k \in 1..N, k # 1, g[k - 1] \in SUBSET Orgs PROVE g[k] = g[k - 1] \cup step[g[k - 1]]
      BY <1>3, <1>7, <2>1
    <2>2. 1 \in Nat /\ 1 \in 1..N
      BY <1>1
    <2>3. g[1] = base
      BY <1>7, <2>2
    <2> QED
      BY <1>1, <1>2, <2>1, <2>2, <2>3, RoundsIf
  <1>9. /\ g[N] \in SUBSET Orgs /\ base \subseteq g[N] /\ step[g[N]] \subseteq g[N]
        /\ \A T \in SUBSET Orgs : base \subseteq T /\ (\A X \in SUBSET T : step[X] \subseteq T) => g[N] \subseteq T
    <2>1. 1 \in {0, 1} /\ 1 <= N
      BY <1>1
    <2> QED
      BY <1>1, <1>2, <1>8, <2>1, RoundsEnd DEF N
  <1>10. ASSUME NEW T \in SUBSET Orgs, base \subseteq T, Parents(T) \subseteq T PROVE g[N] \subseteq T
    <2>1. ASSUME NEW X \in SUBSET T PROVE step[X] \subseteq T
      <3>1. X \in SUBSET Orgs /\ Parents(X) \subseteq Parents(T)
        BY DEF Parents
      <3> QED
        BY <1>3, <1>10, <3>1
    <2> QED
      BY <1>9, <1>10, <2>1
  <1>11. Parents(g[N]) \subseteq g[N]
    BY <1>3, <1>9
  <1> QED
    BY <1>4, <1>9, <1>10, <1>11 DEF AboveRight, base

LEMMA Queries == QueriesRight
  BY Below, Above DEF QueriesRight

LEMMA QueriesNext == QueriesRight'
  BY Queries, PTL

\* What is not given another parent in S or above it has no more above it.
LEMMA AncestorsKept ==
    ASSUME NEW S \in SUBSET Orgs, Orgs # {},
           \A x \in S \cup Ancestors(S) :
              x \in Existing' /\ parent'[x] \in Orgs => x \in Existing /\ parent'[x] = parent[x]
    PROVE  Ancestors(S)' \subseteq Ancestors(S)
  <1>1. PICK A \in SUBSET Orgs : A = Ancestors(S)
    BY Queries DEF QueriesRight, AboveRight
  <1>2. Parents(S) \subseteq A /\ Parents(A) \subseteq A
    BY <1>1, Queries DEF QueriesRight, AboveRight
  <1>3. Parents(S)' \subseteq Parents(S) /\ Parents(A)' \subseteq Parents(A)
    BY <1>1 DEF Parents
  <1>4. \A T \in SUBSET Orgs : Parents(S)' \subseteq T /\ Parents(T)' \subseteq T => Ancestors(S)' \subseteq T
    BY QueriesNext DEF QueriesRight, AboveRight
  <1> QED
    BY <1>1, <1>2, <1>3, <1>4

\* A step that adds nothing above what exists keeps the tree a tree.
LEMMA TreeKept ==
    ASSUME OrgInv, UNCHANGED <<move, crossed>>,
           \A x \in Existing : x \in Existing' /\ parent'[x] \in Orgs => parent'[x] = parent[x],
           \A x \in Existing' : x \in Existing \/ (parent'[x] \in Existing \cup {Root})
    PROVE  MoveStands'
  <1>0. OrgTypeOK /\ RowsExist /\ MoveStands /\ Root \notin Orgs /\ Gone \notin Orgs
    BY OrgAssumption DEF OrgInv
  <1>1. ASSUME NEW S \in SUBSET Existing, Orgs # {} PROVE Ancestors(S)' \subseteq Ancestors(S) /\ Ancestors(S) \subseteq Existing
    <2>1. S \in SUBSET Orgs /\ Existing \in SUBSET Orgs
      BY DEF Existing
    <2>2. \A X \in SUBSET Existing : Parents(X) \subseteq Existing
      BY <1>0 DEF Parents, RowsExist
    <2>3. Ancestors(S) \subseteq Existing
      BY <1>1, <2>1, <2>2, Queries DEF QueriesRight, AboveRight
    <2>4. \A x \in S \cup Ancestors(S) :
             x \in Existing' /\ parent'[x] \in Orgs => x \in Existing /\ parent'[x] = parent[x]
      BY <2>3
    <2> QED
      BY <1>1, <2>1, <2>3, <2>4, AncestorsKept
  <1>2. ASSUME ~crossed, NEW x \in Existing' PROVE x \notin Ancestors({x})'
    <2>1. x \in Orgs /\ Orgs # {}
      BY DEF Existing
    <2>2. CASE x \in Existing
      <3>1. x \notin Ancestors({x})
        BY <1>0, <1>2, <2>2 DEF MoveStands, Acyclic
      <3> QED
        BY <1>1, <2>1, <2>2, <3>1
    <2>3. CASE x \notin Existing
      <3>1. PICK E \in SUBSET Orgs : E = Existing
        BY DEF Existing
      <3>2. Parents({x})' \subseteq E
        BY <1>0, <2>3, <3>1 DEF Parents
      <3>3. Parents(E)' \subseteq E
        <4>1. ASSUME NEW y \in E, y \in Existing', parent'[y] \in Orgs PROVE parent'[y] \in E
          <5>1. parent'[y] = parent[y] /\ parent[y] \in Existing \cup {Root}
            BY <1>0, <3>1, <4>1 DEF RowsExist
          <5> QED
            BY <1>0, <3>1, <4>1, <5>1
        <4> QED
          BY <4>1 DEF Parents
      <3>4. Ancestors({x})' \subseteq E
        BY <2>1, <3>2, <3>3, QueriesNext DEF QueriesRight, AboveRight
      <3> QED
        BY <2>3, <3>1, <3>4
    <2> QED
      BY <2>2, <2>3
  <1>3. ASSUME ~crossed, NEW m \in Movers, move[m] # NoMove PROVE NoCycleThrough(move[m].org, move[m].to)'
    <2>1. PICK o, p : o = move[m].org /\ p = move[m].to
      OBVIOUS
    <2>2. o \in Existing /\ p \in Existing \cup {Root} /\ NoCycleThrough(o, p)
      BY <1>0, <1>3, <2>1 DEF RowsExist, MoveStands
    <2>3. Orgs # {} /\ {p} \cap Orgs \in SUBSET Existing
      BY <1>0, <2>2 DEF Existing
    <2>4. Ancestors({p} \cap Orgs)' \subseteq Ancestors({p} \cap Orgs)
      BY <1>1, <2>3
    <2>5. NoCycleThrough(o, p)'
      BY <2>2, <2>4 DEF NoCycleThrough
    <2> QED
      BY <2>1, <2>5 DEF NoCycleThrough
  <1> QED
    BY <1>0, <1>2, <1>3 DEF MoveStands, Acyclic

\* A move under way commits: what was no ancestor when the trigger looked, and
\* has not become one since, can be put below.
LEMMA CommitKeepsTree ==
    ASSUME OrgInv, NEW m \in Movers, MoveCommits(m)
    PROVE  MoveStands'
  <1>0. OrgTypeOK /\ RowsExist /\ MoveStands /\ Root \notin Orgs /\ Gone \notin Orgs /\ Root # Gone
    BY OrgAssumption DEF OrgInv
  <1>1. PICK o, p : o = move[m].org /\ p = move[m].to
    OBVIOUS
  <1>2. /\ o \in Existing /\ p \in Existing \cup {Root} /\ o \in Orgs /\ Orgs # {} /\ move[m] # NoMove
        /\ parent' = [parent EXCEPT ![o] = p] /\ move' = [move EXCEPT ![m] = NoMove] /\ UNCHANGED crossed
        /\ parent \in [Orgs -> Orgs \cup {Root, Gone}]
    BY <1>0, <1>1 DEF MoveCommits, RowsExist, Existing, OrgTypeOK
  <1>3. /\ Existing' = Existing /\ parent'[o] = p
        /\ \A x \in Orgs \ {o} : parent'[x] = parent[x]
    BY <1>0, <1>2 DEF Existing
  <1>4. ASSUME ~crossed PROVE \A n \in Movers : move'[n] = NoMove
    <2>1. \A n \in Movers : move[n] # NoMove => n = m
      BY <1>0, <1>2, <1>4 DEF MoveStands
    <2> QED
      BY <1>0, <1>2, <2>1 DEF OrgTypeOK
  <1>5. ASSUME ~crossed, NEW x \in Existing PROVE x \notin Ancestors({x})'
    <2>1. x \in Orgs /\ x \notin Ancestors({x}) /\ NoCycleThrough(o, p)
      BY <1>0, <1>1, <1>2, <1>5 DEF Existing, MoveStands, Acyclic
    <2>2. PICK P \in SUBSET Orgs : P = {p} \cap Orgs
      OBVIOUS
    <2>3. PICK A \in SUBSET Orgs : A = P \cup Ancestors(P)
      BY <1>2, Queries DEF QueriesRight, AboveRight
    <2>4. PICK B \in SUBSET Orgs : B = Ancestors({x})
      BY <1>2, <2>1, Queries DEF QueriesRight, AboveRight
    <2>5. /\ o \notin A /\ x \notin B /\ P \subseteq A
          /\ Parents(A) \subseteq A /\ Parents({x}) \subseteq B /\ Parents(B) \subseteq B
      <3>1. o \notin A
        BY <1>2, <2>1, <2>2, <2>3 DEF NoCycleThrough
      <3>2. Parents(P) \subseteq Ancestors(P) /\ Parents(Ancestors(P)) \subseteq Ancestors(P)
        BY <1>2, Queries DEF QueriesRight, AboveRight
      <3>3. Parents(A) \subseteq A
        BY <2>3, <3>2 DEF Parents
      <3>4. Parents({x}) \subseteq B /\ Parents(B) \subseteq B
        BY <1>2, <2>1, <2>4, Queries DEF QueriesRight, AboveRight
      <3> QED
        BY <2>1, <2>3, <2>4, <3>1, <3>3, <3>4
    \* Above x there is now no more than what was, and what is above p.
    <2>6. \E T \in SUBSET Orgs : Parents({x})' \subseteq T /\ Parents(T)' \subseteq T /\ x \notin T
      <3>1. CASE x = o
        <4>1. Parents({x})' \subseteq A
          BY <1>3, <2>2, <2>5, <3>1 DEF Parents
        <4>2. Parents(A)' \subseteq A
          BY <1>3, <2>5 DEF Parents
        <4> QED
          BY <2>5, <3>1, <4>1, <4>2
      <3>2. CASE x # o /\ x \notin A
        <4>1. PICK T \in SUBSET Orgs : T = A \cup B
          OBVIOUS
        <4>2. Parents({x})' \subseteq T
          BY <1>3, <2>1, <2>5, <3>2, <4>1 DEF Parents
        <4>3. Parents(T)' \subseteq T
          <5>1. ASSUME NEW y \in T, y \in Existing', parent'[y] \in Orgs PROVE parent'[y] \in T
            <6>1. CASE y = o
              BY <1>3, <2>2, <2>5, <4>1, <5>1, <6>1
            <6>2. CASE y # o
              BY <1>3, <2>5, <4>1, <5>1, <6>2 DEF Parents
            <6> QED
              BY <6>1, <6>2
          <5> QED
            BY <5>1 DEF Parents
        <4> QED
          BY <2>5, <3>2, <4>1, <4>2, <4>3
      <3>3. CASE x # o /\ x \in A
        <4>1. Parents({x}) \subseteq A
          BY <2>5, <3>3 DEF Parents
        <4>2. B \subseteq A
          BY <1>2, <2>1, <2>4, <2>5, <4>1, Queries DEF QueriesRight, AboveRight
        <4>3. o \notin B
          BY <2>5, <4>2
        <4>4. Parents({x})' \subseteq B /\ Parents(B)' \subseteq B
          BY <1>3, <2>1, <2>5, <3>3, <4>3 DEF Parents
        <4> QED
          BY <2>5, <4>4
      <3> QED
        BY <3>1, <3>2, <3>3
    <2>7. PICK T \in SUBSET Orgs : Parents({x})' \subseteq T /\ Parents(T)' \subseteq T /\ x \notin T
      BY <2>6
    <2>8. Ancestors({x})' \subseteq T
      BY <1>2, <2>1, <2>7, QueriesNext DEF QueriesRight, AboveRight
    <2> QED
      BY <2>7, <2>8
  <1> QED
    BY <1>2, <1>3, <1>4, <1>5 DEF MoveStands, Acyclic

LEMMA OrgConstants ==
    /\ Root \notin Orgs /\ Gone \notin Orgs /\ Root # Gone /\ MaxMoves \in Nat
    /\ NoMove.org = Gone /\ NoMove.to = Gone /\ NoMove \in [org: Orgs \cup {Gone}, to: Orgs \cup {Root, Gone}]
  BY OrgAssumption DEF NoMove

\* Steps that leave the tree and the moves alone.
LEMMA AssignmentsInv ==
    ASSUME OrgInv, UNCHANGED <<parent, move, crossed, moves>>,
           hostOrg' \in [HostIds -> Orgs \cup {Gone}], \A h \in Hosts' : hostOrg'[h] \in Existing,
           userOrgs' \subseteq Existing, userHosts' \subseteq Hosts'
    PROVE  OrgInv'
  <1>0. OrgTypeOK /\ RowsExist
    BY DEF OrgInv
  <1>1. Existing' = Existing
    BY DEF Existing
  <1>2. OrgTypeOK'
    BY <1>0, <1>1 DEF OrgTypeOK
  <1>3. RowsExist'
    BY <1>0, <1>1 DEF RowsExist
  <1>4. MoveStands'
    BY <1>1, TreeKept
  <1> QED
    BY <1>2, <1>3, <1>4 DEF OrgInv

LEMMA AssignInv ==
    ASSUME OrgInv,
           \/ \E h \in HostIds, o \in Orgs : CreateHost(h, o)
           \/ \E h \in HostIds : DeleteHost(h)
           \/ \E S \in SUBSET Orgs : SetUserOrganizations(S)
           \/ \E S \in SUBSET HostIds : SetUserHosts(S)
           \/ \E o \in Orgs : AddByOrganization(o)
    PROVE  OrgInv'
  <1>0. /\ OrgTypeOK /\ RowsExist /\ hostOrg \in [HostIds -> Orgs \cup {Gone}] /\ Gone \notin Orgs
        /\ userOrgs \subseteq Existing /\ userHosts \subseteq Hosts /\ \A h \in Hosts : hostOrg[h] \in Existing
    BY OrgConstants DEF OrgInv, OrgTypeOK, RowsExist
  <1>1. ASSUME NEW h \in HostIds, NEW o \in Orgs, CreateHost(h, o) PROVE OrgInv'
    <2>1. /\ o \in Existing /\ hostOrg' = [hostOrg EXCEPT ![h] = o]
          /\ UNCHANGED <<parent, userOrgs, userHosts, move, crossed, moves>>
      BY <1>1 DEF CreateHost
    <2>2. hostOrg' \in [HostIds -> Orgs \cup {Gone}] /\ Hosts' = Hosts \cup {h}
      BY <1>0, <2>1 DEF Hosts
    <2>3. \A x \in Hosts' : hostOrg'[x] \in Existing
      BY <1>0, <2>1, <2>2 DEF Hosts
    <2> QED
      BY <1>0, <2>1, <2>2, <2>3, AssignmentsInv
  <1>2. ASSUME NEW h \in HostIds, DeleteHost(h) PROVE OrgInv'
    <2>1. /\ hostOrg' = [hostOrg EXCEPT ![h] = Gone] /\ userHosts' = userHosts \ {h}
          /\ UNCHANGED <<parent, userOrgs, move, crossed, moves>>
      BY <1>2 DEF DeleteHost
    <2>2. hostOrg' \in [HostIds -> Orgs \cup {Gone}] /\ Hosts' = Hosts \ {h}
      BY <1>0, <2>1 DEF Hosts
    <2>3. \A x \in Hosts' : hostOrg'[x] \in Existing
      BY <1>0, <2>1, <2>2 DEF Hosts
    <2>4. userHosts' \subseteq Hosts'
      BY <1>0, <2>1, <2>2
    <2> QED
      BY <1>0, <2>1, <2>2, <2>3, <2>4, AssignmentsInv
  <1>3. ASSUME NEW S \in SUBSET Orgs, SetUserOrganizations(S) PROVE OrgInv'
    <2>1. S \subseteq Existing /\ userOrgs' = S /\ UNCHANGED <<parent, hostOrg, userHosts, move, crossed, moves>>
      BY <1>3 DEF SetUserOrganizations
    <2>2. Hosts' = Hosts
      BY <2>1 DEF Hosts
    <2> QED
      BY <1>0, <2>1, <2>2, AssignmentsInv
  <1>4. ASSUME NEW S \in SUBSET HostIds, SetUserHosts(S) PROVE OrgInv'
    <2>1. S \subseteq Hosts /\ userHosts' = S /\ UNCHANGED <<parent, hostOrg, userOrgs, move, crossed, moves>>
      BY <1>4 DEF SetUserHosts
    <2>2. Hosts' = Hosts
      BY <2>1 DEF Hosts
    <2> QED
      BY <1>0, <2>1, <2>2, AssignmentsInv
  <1>5. ASSUME NEW o \in Orgs, AddByOrganization(o) PROVE OrgInv'
    <2>1. /\ userHosts' = userHosts \cup {h \in Hosts : hostOrg[h] = o}
          /\ UNCHANGED <<parent, hostOrg, userOrgs, move, crossed, moves>>
      BY <1>5 DEF AddByOrganization
    <2>2. Hosts' = Hosts
      BY <2>1 DEF Hosts
    <2> QED
      BY <1>0, <2>1, <2>2, AssignmentsInv
  <1> QED
    BY <1>1, <1>2, <1>3, <1>4, <1>5

LEMMA OrgCreateInv ==
    ASSUME OrgInv, NEW o \in Orgs, NEW p \in Orgs \cup {Root}, CreateOrganization(o, p)
    PROVE  OrgInv'
  <1>0. OrgTypeOK /\ RowsExist /\ parent \in [Orgs -> Orgs \cup {Root, Gone}]
    BY DEF OrgInv, OrgTypeOK
  <1>1. /\ parent[o] = Gone /\ p \in Existing \cup {Root} /\ parent' = [parent EXCEPT ![o] = p]
        /\ UNCHANGED <<hostOrg, userOrgs, userHosts, move, crossed, moves>>
    BY DEF CreateOrganization
  <1>2. o \notin Existing /\ Existing' = Existing \cup {o} /\ parent'[o] = p /\ \A x \in Existing : parent'[x] = parent[x]
    BY <1>0, <1>1, OrgConstants DEF Existing
  <1>3. Hosts' = Hosts
    BY <1>1 DEF Hosts
  <1>4. OrgTypeOK'
    BY <1>0, <1>1, <1>2, <1>3 DEF OrgTypeOK
  <1>5. RowsExist'
    <2>1. \A x \in Existing' : parent'[x] \in Existing' \cup {Root}
      BY <1>0, <1>1, <1>2 DEF RowsExist
    <2>2. \A h \in Hosts' : hostOrg'[h] \in Existing'
      BY <1>0, <1>1, <1>2, <1>3 DEF RowsExist
    <2>3. \A m \in Movers : move'[m] # NoMove => move'[m].org \in Existing' /\ move'[m].to \in Existing' \cup {Root}
      BY <1>0, <1>1, <1>2 DEF RowsExist
    <2> QED
      BY <2>1, <2>2, <2>3 DEF RowsExist
  <1>6. MoveStands'
    BY <1>1, <1>2, TreeKept
  <1> QED
    BY <1>4, <1>5, <1>6 DEF OrgInv

LEMMA OrgDeleteInv ==
    ASSUME OrgInv, NEW o \in Orgs, DeleteOrganization(o)
    PROVE  OrgInv'
  <1>0. OrgTypeOK /\ RowsExist /\ parent \in [Orgs -> Orgs \cup {Root, Gone}]
    BY DEF OrgInv, OrgTypeOK
  <1>1. /\ o \in Existing /\ Children({o}) = {} /\ o \notin {hostOrg[h] : h \in HostIds}
        /\ \A m \in Movers : o \notin {move[m].org, move[m].to}
        /\ parent' = [parent EXCEPT ![o] = Gone] /\ userOrgs' = userOrgs \ {o}
        /\ UNCHANGED <<hostOrg, userHosts, move, crossed, moves>>
    BY DEF DeleteOrganization
  <1>2. Existing' = Existing \ {o} /\ parent'[o] = Gone /\ \A x \in Existing \ {o} : parent'[x] = parent[x]
    BY <1>0, <1>1 DEF Existing
  <1>3. Hosts' = Hosts /\ Hosts \subseteq HostIds
    BY <1>1 DEF Hosts
  <1>4. OrgTypeOK'
    BY <1>0, <1>1, <1>2, <1>3 DEF OrgTypeOK
  <1>5. RowsExist'
    <2>1. \A x \in Existing' : parent'[x] \in Existing' \cup {Root}
      <3>1. \A x \in Existing : parent[x] # o
        BY <1>1 DEF Children
      <3> QED
        BY <1>0, <1>2, <3>1 DEF RowsExist
    <2>2. \A h \in Hosts' : hostOrg'[h] \in Existing'
      BY <1>0, <1>1, <1>2, <1>3 DEF RowsExist
    <2>3. \A m \in Movers : move'[m] # NoMove => move'[m].org \in Existing' /\ move'[m].to \in Existing' \cup {Root}
      BY <1>0, <1>1, <1>2 DEF RowsExist
    <2> QED
      BY <2>1, <2>2, <2>3 DEF RowsExist
  <1>6. MoveStands'
    <2>1. \A x \in Existing : x \in Existing' /\ parent'[x] \in Orgs => parent'[x] = parent[x]
      BY <1>2
    <2>2. \A x \in Existing' : x \in Existing
      BY <1>2
    <2> QED
      BY <1>1, <2>1, <2>2, TreeKept
  <1> QED
    BY <1>4, <1>5, <1>6 DEF OrgInv

LEMMA StartsInv ==
    ASSUME OrgInv, NEW m \in Movers, NEW o \in Orgs, NEW p \in Orgs \cup {Root}, MoveStarts(m, o, p)
    PROVE  OrgInv'
  <1>0. /\ OrgTypeOK /\ RowsExist /\ MoveStands
        /\ move \in [Movers -> [org: Orgs \cup {Gone}, to: Orgs \cup {Root, Gone}]] /\ moves \in 0..MaxMoves
    BY DEF OrgInv, OrgTypeOK
  <1> DEFINE mv == [org |-> o, to |-> p]
  <1>1. /\ move[m] = NoMove /\ moves < MaxMoves /\ o \in Existing /\ p \in Existing \cup {Root}
        /\ NoCycleThrough(o, p) /\ move' = [move EXCEPT ![m] = mv] /\ moves' = moves + 1
        /\ crossed' = (crossed \/ \E n \in Movers : move[n] # NoMove)
        /\ UNCHANGED <<parent, hostOrg, userOrgs, userHosts>>
    BY DEF MoveStarts
  <1>2. /\ mv \in [org: Orgs \cup {Gone}, to: Orgs \cup {Root, Gone}] /\ mv.org = o /\ mv.to = p
    OBVIOUS
  <1> HIDE DEF mv
  <1>3. move'[m] = mv /\ \A n \in Movers \ {m} : move'[n] = move[n]
    BY <1>0, <1>1
  <1>4. Existing' = Existing /\ Hosts' = Hosts /\ crossed' \in BOOLEAN
    BY <1>0, <1>1 DEF Existing, Hosts, OrgTypeOK
  <1>5. OrgTypeOK'
    <2>1. moves' \in 0..MaxMoves
      BY <1>0, <1>1, OrgConstants
    <2>2. move' \in [Movers -> [org: Orgs \cup {Gone}, to: Orgs \cup {Root, Gone}]]
      BY <1>0, <1>1, <1>2
    <2> QED
      BY <1>0, <1>1, <1>4, <2>1, <2>2 DEF OrgTypeOK
  <1>6. RowsExist'
    BY <1>0, <1>1, <1>2, <1>3, <1>4 DEF RowsExist
  <1>7. MoveStands'
    <2> SUFFICES ASSUME ~crossed'
                 PROVE  /\ Acyclic'
                        /\ \A k, n \in Movers : move'[k] # NoMove /\ move'[n] # NoMove => k = n
                        /\ \A n \in Movers : move'[n] # NoMove => NoCycleThrough(move[n].org, move[n].to)'
      BY DEF MoveStands
    <2>1. ~crossed /\ \A n \in Movers : move[n] = NoMove
      BY <1>0, <1>1 DEF OrgTypeOK
    <2>2. \A S \in SUBSET Orgs : Orgs # {} => Ancestors(S)' \subseteq Ancestors(S)
      BY <1>1, <1>4, AncestorsKept
    <2>3. Acyclic'
      <3>1. ASSUME NEW x \in Existing' PROVE x \notin Ancestors({x})'
        <4>1. x \in Orgs /\ Orgs # {} /\ x \notin Ancestors({x})
          BY <1>0, <1>4, <2>1 DEF MoveStands, Acyclic, Existing
        <4> QED
          BY <2>2, <4>1
      <3> QED
        BY <3>1 DEF Acyclic
    <2>4. NoCycleThrough(o, p)'
      <3>1. Ancestors({p} \cap Orgs)' \subseteq Ancestors({p} \cap Orgs)
        BY <2>2
      <3> QED
        BY <1>1, <3>1 DEF NoCycleThrough
    <2>5. \A n \in Movers : move'[n] # NoMove => n = m
      BY <1>3, <2>1
    <2>6. ASSUME NEW n \in Movers, move'[n] # NoMove PROVE NoCycleThrough(move[n].org, move[n].to)'
      <3>1. move'[n].org = o /\ move'[n].to = p
        BY <1>2, <1>3, <2>5, <2>6
      <3> QED
        BY <2>4, <3>1 DEF NoCycleThrough
    <2> QED
      BY <2>3, <2>5, <2>6
  <1> QED
    BY <1>5, <1>6, <1>7 DEF OrgInv

LEMMA CommitsInv ==
    ASSUME OrgInv, NEW m \in Movers, MoveCommits(m)
    PROVE  OrgInv'
  <1>0. /\ OrgTypeOK /\ RowsExist /\ parent \in [Orgs -> Orgs \cup {Root, Gone}]
        /\ move \in [Movers -> [org: Orgs \cup {Gone}, to: Orgs \cup {Root, Gone}]]
    BY DEF OrgInv, OrgTypeOK
  <1>1. PICK o, p : o = move[m].org /\ p = move[m].to
    OBVIOUS
  <1>2. /\ parent' = [parent EXCEPT ![o] = p] /\ move' = [move EXCEPT ![m] = NoMove] /\ move[m] # NoMove
        /\ UNCHANGED <<hostOrg, userOrgs, userHosts, crossed, moves>>
        /\ o \in Existing /\ p \in Existing \cup {Root} /\ o \in Orgs
    BY <1>0, <1>1 DEF MoveCommits, RowsExist, Existing
  <1>3. /\ Existing' = Existing /\ Hosts' = Hosts /\ parent'[o] = p
        /\ \A x \in Orgs \ {o} : parent'[x] = parent[x]
    BY <1>0, <1>2, OrgConstants DEF Existing, Hosts
  <1>4. OrgTypeOK'
    <2>1. parent' \in [Orgs -> Orgs \cup {Root, Gone}]
      BY <1>0, <1>2 DEF Existing
    <2>2. move' \in [Movers -> [org: Orgs \cup {Gone}, to: Orgs \cup {Root, Gone}]]
      BY <1>0, <1>2, OrgConstants
    <2> QED
      BY <1>0, <1>2, <1>3, <2>1, <2>2 DEF OrgTypeOK
  <1>5. RowsExist'
    <2>1. \A x \in Existing' : parent'[x] \in Existing' \cup {Root}
      BY <1>0, <1>2, <1>3 DEF RowsExist, Existing
    <2>2. \A n \in Movers : move'[n] # NoMove => n # m /\ move'[n] = move[n]
      BY <1>0, <1>2
    <2> QED
      BY <1>0, <1>2, <1>3, <2>1, <2>2 DEF RowsExist
  <1> QED
    BY <1>4, <1>5, CommitKeepsTree DEF OrgInv

LEMMA OrgInitInv == OrgInit => OrgInv
  <1> SUFFICES ASSUME OrgInit PROVE OrgInv
    OBVIOUS
  <1>1. Existing = {} /\ Hosts = {} /\ \A m \in Movers : move[m] = NoMove
    BY DEF OrgInit, Existing, Hosts
  <1>2. OrgTypeOK
    <2>1. 0 \in 0..MaxMoves
      BY OrgConstants
    <2> QED
      BY <1>1, <2>1, OrgConstants DEF OrgInit, OrgTypeOK
  <1>3. RowsExist /\ MoveStands
    BY <1>1 DEF RowsExist, MoveStands, Acyclic
  <1> QED
    BY <1>2, <1>3 DEF OrgInv

LEMMA OrgSteps == OrgInv /\ [OrgNext]_ovars => OrgInv'
  <1> SUFFICES ASSUME OrgInv, [OrgNext]_ovars PROVE OrgInv'
    OBVIOUS
  <1>1. CASE OrgNext
    <2>1. ASSUME NEW o \in Orgs, DeleteOrganization(o) PROVE OrgInv'
      BY <2>1, OrgDeleteInv
    <2>2. ASSUME NEW o \in Orgs, AddByOrganization(o) PROVE OrgInv'
      BY <2>2, AssignInv
    <2>3. ASSUME NEW o \in Orgs, NEW p \in Orgs \cup {Root}, CreateOrganization(o, p) PROVE OrgInv'
      BY <2>3, OrgCreateInv
    <2>4. ASSUME NEW m \in Movers, NEW o \in Orgs, NEW p \in Orgs \cup {Root}, MoveStarts(m, o, p) PROVE OrgInv'
      BY <2>4, StartsInv
    <2>5. ASSUME NEW m \in Movers, MoveCommits(m) PROVE OrgInv'
      BY <2>5, CommitsInv
    <2> QED
      BY <1>1, <2>1, <2>2, <2>3, <2>4, <2>5, AssignInv DEF OrgNext
  <1>2. CASE UNCHANGED ovars
    <2>1. UNCHANGED <<parent, hostOrg, userOrgs, userHosts, move, crossed, moves>>
      BY <1>2 DEF ovars
    <2>2. Hosts' = Hosts
      BY <2>1 DEF Hosts
    <2>3. hostOrg' \in [HostIds -> Orgs \cup {Gone}] /\ userOrgs' \subseteq Existing /\ userHosts' \subseteq Hosts'
      BY <2>1, <2>2 DEF OrgInv, OrgTypeOK
    <2>4. \A h \in Hosts' : hostOrg'[h] \in Existing
      BY <2>1, <2>2 DEF OrgInv, RowsExist
    <2> QED
      BY <2>1, <2>3, <2>4, AssignmentsInv
  <1> QED
    BY <1>1, <1>2

\* The walk up from one organization finds an assignment exactly where the
\* closure below the assignments has it.
LEMMA UpIsDown ==
    ASSUME OrgInv, NEW o \in Existing
    PROVE  IsAssigned(o) <=> o \in FullOrgs
  <1>1. o \in Orgs /\ Orgs # {} /\ userOrgs \subseteq Existing /\ Existing \in SUBSET Orgs /\ userOrgs \in SUBSET Orgs
    BY DEF OrgInv, OrgTypeOK, Existing
  <1>2. /\ FullOrgs \in SUBSET Orgs /\ userOrgs \subseteq FullOrgs /\ Children(FullOrgs) \subseteq FullOrgs
        /\ \A T \in SUBSET Orgs : userOrgs \subseteq T /\ Children(T) \subseteq T => FullOrgs \subseteq T
    BY <1>1, Queries DEF QueriesRight, BelowRight, FullOrgs
  <1>3. \A S \in SUBSET Orgs : AboveRight(S)
    BY <1>1, Queries DEF QueriesRight
  <1>4. ASSUME o \in FullOrgs PROVE IsAssigned(o)
    <2> DEFINE T == {x \in Existing : (Ancestors({x}) \cup {x}) \cap userOrgs # {}}
    <2>1. userOrgs \subseteq T /\ T \in SUBSET Orgs
      BY <1>1
    <2>2. ASSUME NEW c \in Children(T) PROVE c \in T
      <3>1. c \in Existing /\ c \in Orgs /\ parent[c] \in T /\ parent[c] \in Orgs
        BY <1>1, <2>2 DEF Children
      <3>2. PICK p \in Orgs : p = parent[c] /\ p \in T
        BY <3>1
      <3>3. p \in Ancestors({c})
        BY <1>3, <3>1, <3>2 DEF AboveRight, Parents
      <3>4. Ancestors({p}) \subseteq Ancestors({c})
        <4>1. Ancestors({c}) \in SUBSET Orgs /\ Parents(Ancestors({c})) \subseteq Ancestors({c})
          BY <1>3, <3>1 DEF AboveRight
        <4>2. Parents({p}) \subseteq Ancestors({c})
          BY <3>3, <4>1 DEF Parents
        <4> QED
          BY <1>3, <3>2, <4>1, <4>2 DEF AboveRight
      <3> QED
        BY <3>1, <3>2, <3>3, <3>4
    <2>3. FullOrgs \subseteq T
      BY <1>2, <2>1, <2>2
    <2> QED
      BY <1>4, <2>3 DEF IsAssigned
  <1>5. ASSUME IsAssigned(o) PROVE o \in FullOrgs
    <2>1. PICK u \in userOrgs : u = o \/ u \in Ancestors({o})
      BY <1>5 DEF IsAssigned
    <2> DEFINE T == {x \in Orgs : x \in FullOrgs => o \in FullOrgs}
    <2>2. Parents({o}) \subseteq T
      <3>1. ASSUME NEW x \in Parents({o}), x \in FullOrgs PROVE o \in FullOrgs
        <4>1. x = parent[o]
          BY <3>1 DEF Parents
        <4> QED
          BY <1>2, <3>1, <4>1 DEF Children
      <3> QED
        BY <3>1 DEF Parents
    <2>3. Parents(T) \subseteq T
      <3>1. ASSUME NEW x \in Parents(T), x \in FullOrgs PROVE o \in FullOrgs
        <4>1. PICK y \in T \cap Existing : x = parent[y]
          BY <3>1 DEF Parents
        <4>2. y \in FullOrgs
          BY <1>2, <3>1, <4>1 DEF Children
        <4> QED
          BY <4>1, <4>2
      <3> QED
        BY <3>1 DEF Parents
    <2>4. Ancestors({o}) \subseteq T
      BY <1>1, <1>3, <2>2, <2>3 DEF AboveRight
    <2> QED
      BY <1>2, <2>1, <2>4
  <1> QED
    BY <1>4, <1>5

LEMMA ScopeNow == OrgInv => ScopeHolds
  <1> SUFFICES ASSUME OrgInv PROVE ScopeHolds
    OBVIOUS
  <1>0. /\ OrgTypeOK /\ RowsExist /\ MoveStands /\ userHosts \subseteq Hosts
        /\ \A h \in Hosts : hostOrg[h] \in Existing
    BY DEF OrgInv, OrgTypeOK, RowsExist
  <1>1. SerialMovesAcyclic
    BY <1>0 DEF MoveStands, SerialMovesAcyclic
  <1>2. ASSUME NEW who \in {"super_admin", "org_admin", "operator"}
        PROVE  /\ VisibleHostIDs(who) = {h \in Hosts : CanViewHost(who, h)}
               /\ UNION {ListedHosts(who, o) : o \in Existing} = VisibleHostIDs(who)
    <2>1. CASE who = "super_admin"
      <3>1. VisibleHostIDs(who) = Hosts /\ \A h \in Hosts : CanViewHost(who, h)
        BY <2>1 DEF VisibleHostIDs, CanViewHost
      <3>2. \A o \in Existing : ListedHosts(who, o) = {h \in Hosts : hostOrg[h] = o}
        BY <2>1 DEF ListedHosts, CanManageOrg
      <3> QED
        BY <1>0, <3>1, <3>2
    <2>2. CASE who = "org_admin"
      <3>1. VisibleHostIDs(who) = {h \in Hosts : hostOrg[h] \in FullOrgs}
        BY <2>2 DEF VisibleHostIDs
      <3>2. \A h \in Hosts : CanViewHost(who, h) <=> hostOrg[h] \in FullOrgs
        BY <2>2 DEF CanViewHost, CanManageOrg
      <3>3. \A o \in Existing : ListedHosts(who, o) = {h \in Hosts : hostOrg[h] = o /\ o \in FullOrgs}
        BY <2>2 DEF ListedHosts, CanManageOrg
      <3> QED
        BY <1>0, <3>1, <3>2, <3>3
    <2>3. CASE who = "operator"
      <3>1. VisibleHostIDs(who) = userHosts
        BY <2>3 DEF VisibleHostIDs
      <3>2. \A h \in Hosts : CanViewHost(who, h) <=> h \in userHosts
        BY <2>3 DEF CanViewHost
      <3>3. \A o \in Existing : ListedHosts(who, o) = {h \in userHosts : hostOrg[h] = o}
        BY <2>3, <3>1 DEF ListedHosts
      <3> QED
        BY <1>0, <3>1, <3>2, <3>3
    <2> QED
      BY <2>1, <2>2, <2>3
  <1>3. ASSUME NEW o \in Existing
        PROVE  /\ IsAssigned(o) <=> CanManageOrg("org_admin", o)
               /\ OrgAccess("org_admin", o) = "context" => ListedHosts("org_admin", o) = {}
    <2>1. CanManageOrg("org_admin", o) <=> o \in FullOrgs
      BY DEF CanManageOrg
    <2>2. IsAssigned(o) <=> o \in FullOrgs
      BY UpIsDown
    <2>3. OrgAccess("org_admin", o) = "context" => ~CanManageOrg("org_admin", o)
      BY DEF OrgAccess
    <2>4. ~CanManageOrg("org_admin", o) => ListedHosts("org_admin", o) = {}
      BY DEF ListedHosts
    <2> QED
      BY <2>1, <2>2, <2>3, <2>4
  <1>4. ScopeAgrees
    BY <1>2, <1>3 DEF ScopeAgrees
  <1> QED
    BY <1>0, <1>1, <1>4 DEF ScopeHolds

\* For any number of organizations, hosts and moves, the tree stays a tree as
\* long as moves do not cross, and the recursive queries, the loops over them
\* and the checks of a single host agree (organizations.go, access.go).
THEOREM ScopeIsKept == OrgSpec => []ScopeHolds
  <1> QED
    BY OrgInitInv, OrgSteps, ScopeNow, PTL DEF OrgSpec

=============================================================================
