----------------------------- MODULE Recipients -----------------------------
(***************************************************************************)
(* Who is told of an alert of one host: notification routes, contacts and  *)
(* the resolution of recipients (store/notifications.go, contacts.go, their*)
(* handlers, alertengine/dispatch.go deliverable).  Routes have the scope  *)
(* System, an organization or the host and name a user or a contact; they  *)
(* add up.  Users come and go, change role, assignment and address under   *)
(* routes that stay.  One channel; requests that are refused for want of   *)
(* access change nothing and are left out.                                 *)
(***************************************************************************)
EXTENDS Integers, Sequences, FiniteSets, SequencesExt

CONSTANTS
    ROrgs, HostOrg2,  \* organizations; that of the host
    ParentOf,         \* parent of an organization, or NoOrg
    NoOrg,
    RUsers, RContacts,
    System, TheHost,  \* the other scopes of a route
    Addresses,        \* spellings of addresses
    Lower,            \* strings.ToLower
    NoAddress, Absent,
    MaxRoutes         \* bound

ASSUME RecipientsAssumption ==
    /\ HostOrg2 \in ROrgs /\ ParentOf \in [ROrgs -> ROrgs \cup {NoOrg}]
    /\ IsFiniteSet(ROrgs) /\ NoOrg \notin ROrgs /\ RUsers \cap RContacts = {}
    /\ MaxRoutes \in Nat

VARIABLES
    role, assigned, onHost,  \* users.role, user_organizations, user_hosts
    contactOf,  \* contacts.organization_id (System: none), or Absent
    addr,       \* address of a user or contact on the channel
    namedFirst, \* whose name sorts first
    routes,     \* notification_routes
    channel     \* the channel: "on", "off", or "unsupported" by this server

nvars == <<role, assigned, onHost, contactOf, addr, namedFirst, routes, channel>>

Who == RUsers \cup RContacts
RScopes == ROrgs \cup {System, TheHost}
Roles == {"super_admin", "org_admin", "operator"}
LevelRank(l) == CASE l = "info" -> 1 [] l = "warning" -> 2 [] l = "critical" -> 3
RLevels == {"warning", "critical"}

-----------------------------------------------------------------------------
(* The tree, upwards (orgChainCTE) and downwards (user_organizations)      *)

ChainOf(o) ==
    LET chain[n \in 0..Cardinality(ROrgs)] ==
            IF n = 0 THEN {o} ELSE chain[n - 1] \cup ({ParentOf[x] : x \in chain[n - 1]} \ {NoOrg})
    IN  chain[Cardinality(ROrgs)]

Branch2(orgs) ==
    LET below[n \in 0..Cardinality(ROrgs)] ==
            IF n = 0 THEN orgs ELSE below[n - 1] \cup {x \in ROrgs : ParentOf[x] \in below[n - 1]}
    IN  below[Cardinality(ROrgs)]

\* access.Scope.CanViewHost
CanViewHost(u) ==
    CASE role[u] = "super_admin" -> TRUE
      [] role[u] = "org_admin" -> HostOrg2 \in Branch2(assigned[u])
      [] role[u] = "operator" -> onHost[u]
      [] OTHER -> FALSE

-----------------------------------------------------------------------------
(* Candidates and routes *)

\* SystemCandidates, Candidates
Candidates(s) ==
    IF s = System THEN {u \in RUsers : role[u] = "super_admin"} \cup {k \in RContacts : contactOf[k] = System}
    ELSE LET chain == ChainOf(IF s = TheHost THEN HostOrg2 ELSE s)
         IN  {u \in RUsers : \/ role[u] = "super_admin"
                             \/ role[u] = "org_admin" /\ assigned[u] \cap chain # {}
                             \/ s = TheHost /\ role[u] = "operator" /\ onHost[u]}
             \cup {k \in RContacts : contactOf[k] \in chain}

\* handleCreateRoute: routeChannelError, routeRecipientAllowed and the INSERT,
\* unique per scope and recipient.  A recipient who loses access between the
\* check and the INSERT is one who loses it after: the route stays.
CreateRoute(s, w, min) ==
    /\ channel = "on" /\ w \in Candidates(s) /\ Cardinality(routes) < MaxRoutes
    /\ \A r \in routes : ~(r.scope = s /\ r.who = w)
    /\ routes' = routes \cup {[scope |-> s, who |-> w, min |-> min]}
    /\ UNCHANGED <<role, assigned, onHost, contactOf, addr, namedFirst, channel>>

\* handleUpdateRoute; the channel being off does not hinder it.
UpdateRoute(r, min) ==
    /\ r \in routes /\ r.min # min
    /\ routes' = (routes \ {r}) \cup {[r EXCEPT !.min = min]}
    /\ UNCHANGED <<role, assigned, onHost, contactOf, addr, namedFirst, channel>>

DeleteRoute(r) ==
    /\ r \in routes
    /\ routes' = routes \ {r}
    /\ UNCHANGED <<role, assigned, onHost, contactOf, addr, namedFirst, channel>>

-----------------------------------------------------------------------------
(* People *)

Without(w) == {r \in routes : r.who # w}

\* Create and delete contacts; their routes go with them.
CreateContact(k, org, a) ==
    /\ contactOf[k] = Absent /\ a # NoAddress       \* phone or e-mail is required
    /\ contactOf' = [contactOf EXCEPT ![k] = org] /\ addr' = [addr EXCEPT ![k] = a]
    /\ UNCHANGED <<role, assigned, onHost, namedFirst, routes, channel>>

DeleteContact(k) ==
    /\ contactOf[k] # Absent
    /\ contactOf' = [contactOf EXCEPT ![k] = Absent] /\ addr' = [addr EXCEPT ![k] = NoAddress]
    /\ routes' = Without(k)
    /\ UNCHANGED <<role, assigned, onHost, namedFirst, channel>>

\* UpdateContact: a contact may be left with the address of the other
\* channel only; a user always has one.
UpdateContact(k, a) ==
    /\ contactOf[k] # Absent /\ addr[k] # a
    /\ addr' = [addr EXCEPT ![k] = a]
    /\ UNCHANGED <<role, assigned, onHost, contactOf, namedFirst, routes, channel>>

\* Users.Update, UserOrganizations.Set, UserHosts.Set and AddByOrganization:
\* the routes stay, whatever the user may still see.
ChangeUserRole(u, newRole) ==
    /\ role[u] \notin {Absent, newRole}
    /\ role' = [role EXCEPT ![u] = newRole]
    /\ UNCHANGED <<assigned, onHost, contactOf, addr, namedFirst, routes, channel>>

AssignOrganizations(u, orgs) ==
    /\ role[u] # Absent /\ assigned[u] # orgs
    /\ assigned' = [assigned EXCEPT ![u] = orgs]
    /\ UNCHANGED <<role, onHost, contactOf, addr, namedFirst, routes, channel>>

AssignHost(u, host) ==
    /\ role[u] # Absent /\ onHost[u] # host
    /\ onHost' = [onHost EXCEPT ![u] = host]
    /\ UNCHANGED <<role, assigned, contactOf, addr, namedFirst, routes, channel>>

\* Users.Delete: everything that refers to the row goes with it.
RemoveUser(u) ==
    /\ role[u] # Absent
    /\ role' = [role EXCEPT ![u] = Absent]
    /\ assigned' = [assigned EXCEPT ![u] = {}] /\ onHost' = [onHost EXCEPT ![u] = FALSE]
    /\ addr' = [addr EXCEPT ![u] = NoAddress]
    /\ routes' = Without(u)
    /\ UNCHANGED <<contactOf, namedFirst, channel>>

\* The channel is switched on or off.
SwitchChannel ==
    /\ channel # "unsupported"
    /\ channel' = IF channel = "on" THEN "off" ELSE "on"
    /\ UNCHANGED <<role, assigned, onHost, contactOf, addr, namedFirst, routes>>

-----------------------------------------------------------------------------
(* ResolveRecipients *)

\* The CASE of the query: panel users are filtered again when sending.
NoAccess(w) ==
    CASE w \in RContacts -> FALSE
      [] w \in RUsers /\ role[w] = "super_admin" -> FALSE
      [] w \in RUsers /\ role[w] = "org_admin" -> assigned[w] \cap ChainOf(HostOrg2) = {}
      [] w \in RUsers /\ role[w] = "operator" -> ~onHost[w]
      [] OTHER -> TRUE

\* WHERE: the scope, the level, an address.
Matching(level) ==
    {r \in routes : /\ r.scope \in ChainOf(HostOrg2) \cup {System, TheHost}
                    /\ LevelRank(r.min) <= LevelRank(level)
                    /\ addr[r.who] # NoAddress}

\* ORDER BY: system rules first, then by name.
RouteOrder(r, t) ==
    LET key(x) == <<IF x.scope = System THEN 0 ELSE 1, IF x.who = namedFirst THEN 0 ELSE 1>>
    IN  \/ key(r)[1] < key(t)[1]
        \/ key(r)[1] = key(t)[1] /\ key(r)[2] < key(t)[2]

\* The orders in which rules may come: those of one name come as they were
\* created, which may be in any order.
Orders(set) ==
    {seq \in [1..Cardinality(set) -> set] :
        /\ \A r \in set : \E i \in DOMAIN seq : seq[i] = r
        /\ \A i, j \in DOMAIN seq : i < j => ~RouteOrder(seq[j], seq[i])}

RowOf(r) == [address |-> addr[r.who], off |-> channel = "off", noAccess |-> NoAccess(r.who), source |-> r.scope, also |-> <<>>]

Listing(seq, x) == IF \E i \in DOMAIN seq : seq[i] = x THEN seq ELSE Append(seq, x)

\* (mutant) the place of the first wins, with access or not
MergedFirst(first, r) ==
    IF first.source # r.source THEN [first EXCEPT !.also = Listing(@, r.source)] ELSE first

\* Two rows of one address: one with access takes the place of one without.
Merged(first, r) ==
    IF first.noAccess /\ ~r.noAccess THEN [r EXCEPT !.also = Listing(first.also, first.source)]
    ELSE IF first.source # r.source THEN [first EXCEPT !.also = Listing(@, r.source)] ELSE first

\* (mutant) spelled differently, a different address
SameAddressExact(a, b) == a = b
SameAddress(a, b) == Lower[a] = Lower[b]

\* One row more: an entry of its own, or merged with that of its address.
Joined(out, r) ==
    LET at == {i \in DOMAIN out : SameAddress(out[i].address, r.address)}
    IN  IF at = {} THEN Append(out, r) ELSE [out EXCEPT ![CHOOSE i \in at : TRUE] = Merged(@, r)]

Deduplicated(rows) ==
    LET out[n \in 0..Len(rows)] == IF n = 0 THEN <<>> ELSE Joined(out[n - 1], rows[n])
    IN  out[Len(rows)]

\* What the query may give: one list for every order.
ResolveRecipients(level) ==
    {Deduplicated([i \in 1..Cardinality(Matching(level)) |-> RowOf(seq[i])]) : seq \in Orders(Matching(level))}

\* deliverable, for the engine and for the preview: to whom of the list.
Deliverable(all) == {i \in DOMAIN all : ~all[i].noAccess /\ ~all[i].off /\ channel # "unsupported"}

-----------------------------------------------------------------------------
(* Specification *)

RecipientsInit ==
    /\ role \in [RUsers -> Roles]
    /\ assigned = [u \in RUsers |-> {}] /\ onHost = [u \in RUsers |-> FALSE]
    /\ contactOf = [k \in RContacts |-> Absent]
    /\ addr \in {f \in [Who -> Addresses \cup {NoAddress}] :
                    (\A k \in RContacts : f[k] = NoAddress) /\ \A u \in RUsers : f[u] # NoAddress}
    /\ namedFirst \in Who
    /\ routes = {}
    /\ channel \in {"on", "unsupported"}

RecipientsNext ==
    \/ \E s \in RScopes, w \in Who, min \in RLevels : CreateRoute(s, w, min)
    \/ \E r \in routes : (\E min \in RLevels : UpdateRoute(r, min)) \/ DeleteRoute(r)
    \/ \E k \in RContacts : \/ \E org \in ROrgs \cup {System}, a \in Addresses : CreateContact(k, org, a)
                            \/ DeleteContact(k)
                            \/ \E a \in Addresses \cup {NoAddress} : UpdateContact(k, a)
    \/ \E u \in RUsers : \/ \E newRole \in Roles : ChangeUserRole(u, newRole)
                         \/ \E orgs \in SUBSET ROrgs : AssignOrganizations(u, orgs)
                         \/ \E host \in BOOLEAN : AssignHost(u, host)
                         \/ RemoveUser(u)
    \/ SwitchChannel

RecipientsSpec == RecipientsInit /\ [][RecipientsNext]_nvars

RecipientsTypeOK ==
    /\ role \in [RUsers -> Roles \cup {Absent}] /\ assigned \in [RUsers -> SUBSET ROrgs]
    /\ onHost \in [RUsers -> BOOLEAN]
    /\ contactOf \in [RContacts -> ROrgs \cup {System, Absent}] /\ addr \in [Who -> Addresses \cup {NoAddress}]
    /\ routes \subseteq [scope: RScopes, who: Who, min: RLevels] /\ IsFiniteSet(routes)
    /\ channel \in {"on", "off", "unsupported"}

-----------------------------------------------------------------------------
(* Properties *)

\* An alert is sent to exactly the addresses some route gives for a contact
\* or for a user who can see the host now, each once, in whatever order the
\* routes come: a user who lost access gets nothing, and does not keep another
\* who has the address from it.
ReachedExactly ==
    \A level \in RLevels :
        LET lists == ResolveRecipients(level)
            due == {Lower[addr[r.who]] : r \in {x \in Matching(level) : x.who \in RContacts \/ CanViewHost(x.who)}}
        IN  /\ lists # {}
            /\ \A all \in lists :
                LET sent == Deliverable(all)
                IN  /\ {Lower[all[i].address] : i \in sent} = IF channel = "on" THEN due ELSE {}
                    /\ \A i, j \in sent : Lower[all[i].address] = Lower[all[j].address] => i = j

\* The query's rule of who sees the host is that of the panel (CanViewHost),
\* one walking up from the host, the other down from the assignments.
AccessAgrees == \A u \in RUsers : role[u] # Absent => (NoAccess(u) <=> ~CanViewHost(u))

\* "a manager cannot direct alerts to a user who has no access": whoever may
\* be chosen for a scope sees its hosts.
CandidatesSee ==
    \A s \in RScopes : \A u \in Candidates(s) \cap RUsers :
        (s \in {System, TheHost} \/ s \in ChainOf(HostOrg2)) => CanViewHost(u)

\* The preview names every route an address comes from.
SourcesNamed ==
    \A level \in RLevels : \A all \in ResolveRecipients(level) :
        \A i \in DOMAIN all :
            {all[i].source} \cup ToSet(all[i].also)
                = {r.scope : r \in {x \in Matching(level) : SameAddress(addr[x.who], all[i].address)}}

\* "the other sources (without repetition)" (Recipient.Also): the source of a
\* recipient is not listed again among the others.
AlsoDistinct ==
    \A level \in RLevels : \A all \in ResolveRecipients(level) :
        \A i \in DOMAIN all : all[i].source \notin ToSet(all[i].also)

\* Exactly those are told who are routed and may see the host, each once, and
\* the panel offers and explains the same (notifications.go, dispatch.go).
RecipientsExact ==
    RecipientsTypeOK /\ ReachedExactly /\ AccessAgrees /\ CandidatesSee /\ SourcesNamed
=============================================================================
