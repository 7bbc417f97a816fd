---------------------------- MODULE Organizations ---------------------------
(***************************************************************************)
(* The organization tree, the hosts in it, and what one user may see and   *)
(* manage (store/organizations.go, store/user_organizations.go,            *)
(* store/user_hosts.go, the hosts and their handlers, access/access.go).   *)
(*                                                                         *)
(* A move of an organization is one UPDATE.  Its trigger                   *)
(* organizations_prevent_cycle walks up from the new parent in the         *)
(* snapshot the statement started with, so a move is two steps: the walk   *)
(* and the commit.                                                         *)
(***************************************************************************)
EXTENDS Naturals, FiniteSets

CONSTANTS Orgs, HostIds, Movers, Root, Gone, MaxMoves

ASSUME OrgAssumption ==
    /\ IsFiniteSet(Orgs) /\ Root \notin Orgs /\ Gone \notin Orgs /\ Root # Gone
    /\ MaxMoves \in Nat

VARIABLES
    parent,     \* parent_organization_id; Root without one, Gone without a row
    hostOrg,    \* hosts.organization_id; Gone without a row
    userOrgs,   \* user_organizations of the user
    userHosts,  \* user_hosts of the user
    move,       \* moves that have passed the trigger: [org, to]
    crossed,    \* two moves were under way at once
    moves       \* moves so far

ovars == <<parent, hostOrg, userOrgs, userHosts, move, crossed, moves>>

NoMove == [org |-> Gone, to |-> Gone]
Existing == {o \in Orgs : parent[o] # Gone}
Hosts == {h \in HostIds : hostOrg[h] # Gone}

OrgTypeOK ==
    /\ parent \in [Orgs -> Orgs \cup {Root, Gone}]
    /\ hostOrg \in [HostIds -> Orgs \cup {Gone}]
    /\ userOrgs \subseteq Existing /\ userHosts \subseteq Hosts
    /\ move \in [Movers -> [org: Orgs \cup {Gone}, to: Orgs \cup {Root, Gone}]]
    /\ crossed \in BOOLEAN /\ moves \in 0..MaxMoves

OrgInit ==
    /\ parent = [o \in Orgs |-> Gone] /\ hostOrg = [h \in HostIds |-> Gone]
    /\ userOrgs = {} /\ userHosts = {}
    /\ move = [m \in Movers |-> NoMove]
    /\ crossed = FALSE /\ moves = 0

-----------------------------------------------------------------------------
(* The recursive queries                                                   *)

Children(S) == {o \in Existing : parent[o] \in S}
Parents(S) == {parent[o] : o \in S \cap Existing} \cap Orgs

\* ListOrganizationIDs, WithDescendants: WITH RECURSIVE ... UNION ends when a
\* round adds nothing, after at most one round per organization.
WithDescendants(S) ==
    LET Round[n \in 0..Cardinality(Orgs)] ==
          IF n = 0 THEN S \cap Existing ELSE Round[n - 1] \cup Children(Round[n - 1])
    IN  Round[Cardinality(Orgs)]

\* Ancestors: the chain above S, without S itself unless it is above itself.
Ancestors(S) ==
    LET Round[n \in 1..Cardinality(Orgs)] ==
          IF n = 1 THEN Parents(S) ELSE Round[n - 1] \cup Parents(Round[n - 1])
    IN  Round[Cardinality(Orgs)]

\* IsAssigned: the user is assigned to o or to something above it.
IsAssigned(o) == (Ancestors({o}) \cup {o}) \cap userOrgs # {}

-----------------------------------------------------------------------------
(* access.Scope                                                            *)

FullOrgs == WithDescendants(userOrgs)
\* ListContextIDs
ContextOrgs == Ancestors(userOrgs) \ FullOrgs

CanManageOrg(role, o) == role = "super_admin" \/ o \in FullOrgs

OrgAccess(role, o) ==
    IF CanManageOrg(role, o) THEN "full" ELSE IF o \in ContextOrgs THEN "context" ELSE "none"

CanViewHost(role, h) ==
    \/ role = "super_admin"
    \/ role = "org_admin" /\ CanManageOrg(role, hostOrg[h])
    \/ role = "operator" /\ h \in userHosts

\* VisibleHostIDs; a super_admin's list is not restricted.
VisibleHostIDs(role) ==
    CASE role = "super_admin" -> Hosts
      [] role = "org_admin" -> {h \in Hosts : hostOrg[h] \in FullOrgs}
      [] role = "operator" -> userHosts
      [] OTHER -> {}

\* handleListOrganizationHosts
ListedHosts(role, o) ==
    IF role = "operator" THEN {h \in VisibleHostIDs(role) : hostOrg[h] = o}
    ELSE {h \in Hosts : hostOrg[h] = o /\ CanManageOrg(role, o)}

-----------------------------------------------------------------------------
(* Operations                                                              *)

\* handleCreateOrganization; a new row cannot close a cycle.
CreateOrganization(o, p) ==
    /\ parent[o] = Gone /\ p \in Existing \cup {Root}
    /\ parent' = [parent EXCEPT ![o] = p]
    /\ UNCHANGED <<hostOrg, userOrgs, userHosts, move, crossed, moves>>

\* (mutant) only the parent itself is looked at
NotOwnParent(o, p) == p # o

\* organizations_prevent_cycle
NoCycleThrough(o, p) == o \notin {p} \cup Ancestors({p} \cap Orgs)

\* handleUpdateOrganization with a parent: the statement starts, the trigger
\* finds no cycle.
MoveStarts(m, o, p) ==
    /\ move[m] = NoMove /\ moves < MaxMoves
    /\ o \in Existing /\ p \in Existing \cup {Root}
    /\ \A n \in Movers : move[n].org # o  \* the row is locked
    /\ NoCycleThrough(o, p)
    /\ move' = [move EXCEPT ![m] = [org |-> o, to |-> p]]
    /\ moves' = moves + 1
    /\ crossed' = (crossed \/ \E n \in Movers : move[n] # NoMove)
    /\ UNCHANGED <<parent, hostOrg, userOrgs, userHosts>>

MoveCommits(m) ==
    /\ move[m] # NoMove
    /\ parent' = [parent EXCEPT ![move[m].org] = move[m].to]
    /\ move' = [move EXCEPT ![m] = NoMove]
    /\ UNCHANGED <<hostOrg, userOrgs, userHosts, crossed, moves>>

\* handleDeleteOrganization: children and hosts restrict, assignments go with
\* it; the rows a move names are locked.
DeleteOrganization(o) ==
    /\ o \in Existing /\ Children({o}) = {} /\ o \notin {hostOrg[h] : h \in HostIds}
    /\ \A m \in Movers : o \notin {move[m].org, move[m].to}
    /\ parent' = [parent EXCEPT ![o] = Gone]
    /\ userOrgs' = userOrgs \ {o}
    /\ UNCHANGED <<hostOrg, userHosts, move, crossed, moves>>

\* handleCreateHost by somebody who manages o
CreateHost(h, o) ==
    /\ hostOrg[h] = Gone /\ o \in Existing
    /\ hostOrg' = [hostOrg EXCEPT ![h] = o]
    /\ UNCHANGED <<parent, userOrgs, userHosts, move, crossed, moves>>

\* handleDeleteHost; the assignments go with the row.
DeleteHost(h) ==
    /\ h \in Hosts
    /\ hostOrg' = [hostOrg EXCEPT ![h] = Gone]
    /\ userHosts' = userHosts \ {h}
    /\ UNCHANGED <<parent, userOrgs, move, crossed, moves>>

\* handleSetUserOrganizations: Set replaces the list, or fails as a whole
\* when one of them does not exist.
SetUserOrganizations(S) ==
    /\ S \subseteq Existing /\ userOrgs' = S
    /\ UNCHANGED <<parent, hostOrg, userHosts, move, crossed, moves>>

\* handleSetUserHosts
SetUserHosts(S) ==
    /\ S \subseteq Hosts /\ userHosts' = S
    /\ UNCHANGED <<parent, hostOrg, userOrgs, move, crossed, moves>>

\* handleAddUserHostsByOrganization: what is assigned stays.
AddByOrganization(o) ==
    /\ userHosts' = userHosts \cup {h \in Hosts : hostOrg[h] = o}
    /\ UNCHANGED <<parent, hostOrg, userOrgs, move, crossed, moves>>

OrgNext ==
    \/ \E o \in Orgs, p \in Orgs \cup {Root} : CreateOrganization(o, p)
    \/ \E m \in Movers, o \in Orgs, p \in Orgs \cup {Root} : MoveStarts(m, o, p)
    \/ \E m \in Movers : MoveCommits(m)
    \/ \E o \in Orgs : DeleteOrganization(o) \/ AddByOrganization(o)
    \/ \E h \in HostIds, o \in Orgs : CreateHost(h, o)
    \/ \E h \in HostIds : DeleteHost(h)
    \/ \E S \in SUBSET Orgs : SetUserOrganizations(S)
    \/ \E S \in SUBSET HostIds : SetUserHosts(S)

OrgSpec == OrgInit /\ [][OrgNext]_ovars

-----------------------------------------------------------------------------
(* Properties                                                              *)

\* The tree has no cycle: Chain and IsAssigned follow parents with UNION ALL
\* and would never end.
Acyclic == \A o \in Existing : o \notin Ancestors({o})

\* The trigger keeps it so as long as moves come one after the other.
SerialMovesAcyclic == ~crossed => Acyclic

\* The ways the code asks what a user sees agree with each other, whatever
\* the tree has gone through: the list of visible hosts with the check of a
\* single host, the hosts listed per organization with both, the closure
\* below the assignments with the walk up from one organization; and an
\* organization seen as context only shows no host.
ScopeAgrees ==
    /\ \A role \in {"super_admin", "org_admin", "operator"} :
         /\ VisibleHostIDs(role) = {h \in Hosts : CanViewHost(role, h)}
         /\ UNION {ListedHosts(role, o) : o \in Existing} = VisibleHostIDs(role)
    /\ \A o \in Existing :
         /\ IsAssigned(o) <=> CanManageOrg("org_admin", o)
         /\ OrgAccess("org_admin", o) = "context" => ListedHosts("org_admin", o) = {}

\* The tree stays a tree, and all ways to ask what a user may see agree, after
\* any sequence of moves, deletions and assignments (organizations.go,
\* access.go).
ScopeHolds == OrgTypeOK /\ SerialMovesAcyclic /\ ScopeAgrees
=============================================================================
