----------------------------- MODULE SuperAdmins ----------------------------
(***************************************************************************)
(* The rule that one super_admin always remains: role changes and          *)
(* deletions of accounts (store/users.go, httpapi/user_handlers.go) as     *)
(* transactions under READ COMMITTED.                                      *)
(*                                                                         *)
(* guardLastSuperAdmin is SELECT id FROM users WHERE role = 'super_admin'  *)
(* ORDER BY id FOR UPDATE.  It takes its snapshot when it starts, locks    *)
(* the rows of the snapshot one by one in the order of their ids, waits    *)
(* for a row another transaction holds, and looks at the row again when it *)
(* gets it: a row that is no super_admin by then is left out, and one that *)
(* has become a super_admin since the snapshot is not seen at all.         *)
(***************************************************************************)
EXTENDS Naturals, FiniteSets

CONSTANTS
    MaxUid,     \* accounts have the ids 1..MaxUid
    Txs,        \* transactions that lower a role or delete
    NoTx

ASSUME SuperAssumption == MaxUid \in Nat \ {0} /\ NoTx \notin Txs

VARIABLES
    role,       \* users.role; "none" when the id has no row
    holder,     \* the transaction that holds the row's lock
    tx,         \* pc, target, new role, rows still to lock, rows locked
    raced       \* an account was raised to super_admin while a guard was under way

avars == <<role, holder, tx, raced>>

Uids == 1..MaxUid
Roles == {"super_admin", "org_admin"}  \* org_admin stands for the roles below
TxState ==
    [pc: {"idle", "guard", "write"}, target: Uids, to: {"org_admin", "none"},
     todo: SUBSET Uids, got: SUBSET Uids]

SuperTypeOK ==
    /\ role \in [Uids -> Roles \cup {"none"}]
    /\ holder \in [Uids -> Txs \cup {NoTx}]
    /\ tx \in [Txs -> TxState]
    /\ raced \in BOOLEAN

-----------------------------------------------------------------------------
Supers == {u \in Uids : role[u] = "super_admin"}

TxIdle == [pc |-> "idle", target |-> 1, to |-> "none", todo |-> {}, got |-> {}]

\* The first account is made by BootstrapSuperAdmin.
SuperInit ==
    /\ role = [u \in Uids |-> IF u = 1 THEN "super_admin" ELSE "none"]
    /\ holder = [u \in Uids |-> NoTx]
    /\ tx = [t \in Txs |-> TxIdle]
    /\ raced = FALSE

\* BEGIN; the snapshot of the guard
BeginGuard(t, u, to) ==
    /\ tx[t].pc = "idle" /\ role[u] # "none"
    /\ tx' = [tx EXCEPT ![t] = [pc |-> "guard", target |-> u, to |-> to, todo |-> Supers, got |-> {}]]
    /\ UNCHANGED <<role, holder, raced>>

\* ORDER BY id
NextRow(t) == CHOOSE u \in tx[t].todo : \A v \in tx[t].todo : u <= v

\* FOR UPDATE on the next row of the snapshot, as soon as nobody holds it.
LockNext(t) ==
    /\ tx[t].pc = "guard" /\ tx[t].todo # {}
    /\ LET u == NextRow(t) IN
       /\ holder[u] = NoTx
       /\ IF role[u] = "super_admin"
          THEN /\ holder' = [holder EXCEPT ![u] = t]
               /\ tx' = [tx EXCEPT ![t].todo = @ \ {u}, ![t].got = @ \cup {u}]
          ELSE /\ tx' = [tx EXCEPT ![t].todo = @ \ {u}]
               /\ UNCHANGED holder
    /\ UNCHANGED <<role, raced>>

\* (mutant) the count alone decides, one row too late
LastSuperAdminLate(t) == tx[t].got = {}

\* isTarget && count == 1
LastSuperAdmin(t) == tx[t].got = {tx[t].target}

Unlocked(t) == [u \in Uids |-> IF holder[u] = t THEN NoTx ELSE holder[u]]

Rollback(t) ==
    /\ holder' = Unlocked(t)
    /\ tx' = [tx EXCEPT ![t] = TxIdle]
    /\ UNCHANGED <<role, raced>>

\* The end of guardLastSuperAdmin: ErrLastSuperAdmin rolls back.
GuardDecides(t) ==
    /\ tx[t].pc = "guard" /\ tx[t].todo = {}
    /\ IF LastSuperAdmin(t)
       THEN Rollback(t)
       ELSE tx' = [tx EXCEPT ![t].pc = "write"] /\ UNCHANGED <<role, holder, raced>>

\* Update or Delete of the target's row, and commit; without a row it is
\* ErrNotFound and nothing changes.
WriteCommit(t) ==
    /\ tx[t].pc = "write"
    /\ holder[tx[t].target] \in {t, NoTx}
    /\ role' = IF role[tx[t].target] = "none" THEN role
               ELSE [role EXCEPT ![tx[t].target] = tx[t].to]
    /\ holder' = Unlocked(t)
    /\ tx' = [tx EXCEPT ![t] = TxIdle]
    /\ UNCHANGED raced

\* handleUpdateUser with the role super_admin: no guard, one row.
Promote(u) ==
    /\ role[u] = "org_admin" /\ holder[u] = NoTx
    /\ role' = [role EXCEPT ![u] = "super_admin"]
    /\ raced' = (raced \/ \E t \in Txs : tx[t].pc # "idle")
    /\ UNCHANGED <<holder, tx>>

\* handleCreateUser; an e-mail that is taken is refused.  An id is not
\* given again while a transaction still names it.
CreateUser(u, r) ==
    /\ role[u] = "none"
    /\ \A t \in Txs : tx[t].pc # "idle" => u \notin tx[t].todo \cup {tx[t].target}
    /\ role' = [role EXCEPT ![u] = r]
    /\ raced' = (raced \/ (r = "super_admin" /\ \E t \in Txs : tx[t].pc # "idle"))
    /\ UNCHANGED <<holder, tx>>

\* BootstrapSuperAdmin when a replica starts: only when there is none; an
\* e-mail that is taken inserts nothing.
BootstrapSuperAdmin(u) ==
    /\ Supers = {} /\ role[u] = "none"
    /\ role' = [role EXCEPT ![u] = "super_admin"]
    /\ UNCHANGED <<holder, tx, raced>>

\* t waits for a row that v holds.
WaitsFor(t, v) ==
    t # v /\ \/ tx[t].pc = "guard" /\ tx[t].todo # {} /\ holder[NextRow(t)] = v
             \/ tx[t].pc = "write" /\ holder[tx[t].target] = v

\* The database breaks a deadlock of two by failing one of them.
DeadlockAborts(t) ==
    /\ \E v \in Txs : WaitsFor(t, v) /\ WaitsFor(v, t)
    /\ Rollback(t)

SuperStep(t) == LockNext(t) \/ GuardDecides(t) \/ WriteCommit(t) \/ DeadlockAborts(t)

SuperNext ==
    \/ \E t \in Txs : SuperStep(t)
    \/ \E t \in Txs, u \in Uids, to \in {"org_admin", "none"} : BeginGuard(t, u, to)
    \/ \E u \in Uids : Promote(u) \/ BootstrapSuperAdmin(u)
    \/ \E u \in Uids, r \in Roles : CreateUser(u, r)

SuperSpec == SuperInit /\ [][SuperNext]_avars

-----------------------------------------------------------------------------
(* Properties                                                              *)

\* guardLastSuperAdmin: the last super_admin is neither lowered nor deleted.
LastSuperAdminStays == Supers # {}

\* The same as long as no account is raised to super_admin while a guard is
\* under way: however the guarded transactions interleave, one remains.
SuperAdminRemains == ~raced => Supers # {}

\* The rows are locked in the order of their ids, so that concurrent callers
\* do not wait for each other in a circle, with the same exception.
NoDeadlock ==
    ~raced => \A t, v \in Txs : ~(WaitsFor(t, v) /\ WaitsFor(v, t))

\* guardLastSuperAdmin (users.go:131-153): administrators who lower or delete
\* each other at the same time neither remove the last super_admin nor wait
\* for each other in a circle.
GuardHolds == SuperTypeOK /\ SuperAdminRemains /\ NoDeadlock
=============================================================================
