# A TLA+ model of HealthBeat

HealthBeat watches servers: an agent on each host measures, a central server
stores the reports, decides which alerts are open and tells people by e-mail.
This directory models the system where goroutines, replicas, requests, a
database and the clock meet, and the decisions it computes; checks the models
with TLC on small instances; and proves the most important facts with TLAPS for
all instances. Paths below are relative to `src/`; `internal/` stands for
`server/internal/`.

Contents: 1 the system, 2 the modules, 3 the runs, 4 disagreements between code
and documentation, 5 proofs, 6 what is left out, 7 the plan, 8 how to run it.

## 1. The system

One Go server (any number of replicas may share one PostgreSQL database), one Go
agent per host, a web panel. Nothing in the server serialises the work on one
host: each report is evaluated by the goroutine of its HTTP request (push) or of
its poll (pull), every replica runs every background job, and a handler that
needs several statements mostly runs them one by one.

| component | state | operations | what makes it hard | module |
|---|---|---|---|---|
| notification outbox (`internal/outbox`, `store/outbox.go`) | `notification_outbox` | Enqueue, Supersede, Expire, Claim, MarkSent, MarkRetry, MarkFailed, Purge; the worker loop | leases that run out, crashes between send and record, several workers on one row | `Outbox` |
| alert lifecycle (`internal/alertengine`, `store/alerts.go`) | `alerts` (status, level, `notify_pending`) | open, changeLevel, resolveAndNotify, acknowledge, deferral, FlushDeferred | decisions taken from a row read earlier; openings that race; maintenance in between | `AlertLifecycle` |
| duration condition (`alertengine/engine.go`, `status.go`) | `alert_pending` | sustained, clearPending, the sweep for subjects that disappeared | a start that outlives its condition, failed deletes, overtaken evaluations | `AlertDuration` |
| host presence (`internal/offlinemonitor`, `store/hosts.go`) | `host_status`, the `host_offline` alert | MarkOnline, ListStale, MarkOffline, RaiseOffline | the monitor works on a list that reports overtake | `HostPresence` |
| evaluation rules (`alertengine`) | rules and thresholds, the last rows | which alerts a report opens, changes, closes | reports without data, subjects that leave, rules switched off | `AlertRules` |
| thresholds, status rules (`store/thresholds.go`, `status_rules.go`) | defaults per scope, overrides per host | POST, PATCH, PUT, DELETE, resolution | validation against a row read earlier, inheritance, two ways to resolve | `Thresholds` |
| recipients (`store/notifications.go`, `contacts.go`) | routes, contacts, the users behind them | ResolveRecipients, candidates, preview | access that changes under a route that stays | `Recipients` |
| maintenance (`internal/maintenance`, `store/maintenance.go`) | windows, overrides | create, update, end, skip, delete; is a host in maintenance? | calendar arithmetic, the clock change, read-then-write requests | `MaintenanceCalendar`, `MaintenanceWindows` |
| pull scheduler (`internal/pullscheduler`) | `lastPolled`, `inFlight` | tick, list, poll, shutdown | a poll slower than its interval, rows that change | `PullScheduler` |
| report ingest (`internal/ingest`, `internal/model`) | metrics, `system_state`, inventory in two tables | decode, clean, Record | one section invalid; two reports of one host at once | `IngestSections`, `HostState` |
| sessions (`store/refresh_tokens.go`, `httpapi/auth_handlers.go`) | refresh token families | login, rotate with grace, logout, change or reset the password | reuse detection and revocation against rotation and login | `Sessions` |
| password reset (`httpapi/password_reset_handlers.go`) | links and queued mails | forgot, reset, supersede | two requests for one account | `PasswordReset` |
| accounts (`store/users.go`) | roles | lower, delete, promote, bootstrap | two administrators at once | `SuperAdmins` |
| organizations, access (`store/organizations.go`, `internal/access`) | tree, assignments | move, delete, assign; who sees what | moves that cross; many ways to ask | `Organizations` |
| permissions (`internal/rbac`, `httpapi/middleware.go`) | cache with TTL, roles in tokens | Permissions, Invalidate, authenticate | a load that straddles an invalidation | `Authorization` |
| rate limiting (`internal/ratelimit`) | token buckets | Allow, Check, sweep, SetRate | lazy refill, sweep, check before charge | `RateLimit` |
| settings, channels (`internal/settings`) | rows, copies in memory, subscribers | apply, update, test, verify | lost answers, a test that a change overtakes, a changed key | `Settings` |
| migrations (`internal/migrate`) | schema, history, advisory lock | up, status, baseline, start | cut connections, binaries of several versions | `Migrations` |
| agent push (`agent/internal/pusher`, `report`) | degraded mode (Compat), last list | build, push, fall back, probe | lost and late reports, older servers | `AgentReports` |
| agent collection, pull server (`agent/internal/collector`, `pullserver`) | last value, learned interval | collect, report, answer | a collection slower than the interval | `AgentCollect` |
| retention, jobs, TLS reload, secret box, logging, configuration, versions, agent packages, HTTP routing, collectors, web panel | | | single statements, files, cryptography, I/O | none (section 6) |

Interactions: a report (`ingest.Service.Record`) updates `host_status` and calls
`Engine.EvaluateReport`, which changes `alerts` and writes `notification_outbox`
rows in the same transaction; the outbox worker delivers them; the offline
monitor calls `Engine.RaiseOffline`; the engine asks maintenance and recipients
before its transaction; password handlers write and supersede outbox rows and
revoke sessions; a change of settings is told to limiters, mailer and logger.
`PROJECT.json` lists the hazards of this code, with the line where each bites
and the property that covers it.

What makes each component correct:

- outbox: a row marked sent reached its recipient; every row settles; a row is
  in one worker's hands while its lease lasts; attempts are bounded; the body
  constraint never fires;
- alerts: one active alert per key; a resolution is final and told once; nobody
  hears of the end of something they never heard of; deferred news goes out;
- duration, rules: no alert before its time, one when it is due, none left
  behind, and a report that says nothing changes nothing;
- presence: a silent host is alerted, a host that reports is not;
- configuration: what is stored is consistent whatever requests interleave, and
  every way to ask about it gives the same answer;
- accounts: what was revoked or withdrawn ends; the last super_admin stays;
- fleet: what the server knows of a host becomes true again after a fault, once
  whole reports arrive one after another.

## 2. The modules

| module | models |
|---|---|
| `NotificationDelivery` | what the queue promises its writers (abstract) |
| `Outbox` | the queue and its workers; `Promise` says that it implements `NotificationDelivery` |
| `OutboxLeases` | extends `Outbox` by a history: the rows whose lease ran out in a worker's hands |
| `AlertLifecycle`, `AlertDuration` | the alerts of one key; the `alert_pending` record of one key |
| `HostPresence` | status and `host_offline` alert of one host |
| `Migrations`, `Settings`, `Sessions`, `PasswordReset`, `SuperAdmins`, `RateLimit`, `Organizations`, `Authorization` | the server's own state and its accounts; `MCServer` puts them together |
| `PullScheduler`, `AgentReports`, `AgentCollect`, `HostState`, `IngestSections` | from the agent to the stored report; `MCFleet` |
| `MaintenanceCalendar`, `MaintenanceWindows` (extends it), `AlertRules`, `Thresholds`, `Recipients` | what is configured and what follows; `MCConfig` |
| `MCOutbox`, `MCAlertLifecycle`, `MCHostPresence`, `MCAlertRules` | instances for TLC |
| `MCAlertLiveness` | `AlertLifecycle`, `AlertDuration` and `HostPresence` for the liveness properties |
| `OutboxProofs`, `AlertLifecycleProofs`, `DurationProofs`, `FleetProofs`, `AccountProofs`, `ServerProofs`, `ConfigProofs`, `ThresholdProofs` | theorems (section 5) |

Definitions marked `(mutant)` stand just before the definition they change: each
is a plausible bug of that definition, under which the named property of the run
fails (`PROJECT.json`, `mutants`). They are not part of any specification.

Conventions. A SQL statement outside a transaction is an action; a transaction
is one action unless another process can act on what it has read without a lock.
A handler that reads, decides and writes is a request that stands between its
statements (`rq`, `preq`, `creq`, `areq`, `wreq`, `patch`, `put`, `tx`), and any
other request may run there. A crash, a panic, a failed statement or a lost
answer is an action bounded by a constant; memory is lost, tables are kept. Time
is relative (a distance or an age), so that it is finite. A few variables
are history the code does not have; they are named in each module and only
properties read them: `delivered`, `overrun`, `held`, `straddled`, `overlap`,
`raced`, `crossed`, `torn`, `doubt`, `tested`, `clean`, `called` and the like.

### Outbox

`row` is the table. Of a row the model keeps its kind, recipient, which nullable
columns are set (`cols`), `attempts`, and the distances `wait` to
`next_attempt_at` and `ttl` to `expires_at`. `pc`, `batch`, `item`, `tries` are a
worker's place and memory; `left` is what remains of `deliveryTimeout`.
`delivered` counts what recipients really received.

| action | code |
|---|---|
| `Enqueue`, `Supersede` | `Outbox.Enqueue`, `Outbox.Supersede`, called by the alert engine and the password handlers |
| `DetachAlert` | `ON DELETE SET NULL` of `alert_id` |
| `BeginPass`, `Claim`, `PassFails` | `Worker.DeliverDue`: Expire, then Claim until nothing is due |
| `StartDelivery`, `SendOK`, `SendFails` | `Worker.deliver` up to the answer of the notifier; a send that fails may have arrived |
| `MarkSent`, `MarkRetry`, `MarkFailed` | the statement that records the outcome |
| `OutcomeLost` | the Mark statement fails, or the notifier panics: logged, the row keeps its lease |
| `Purge` | `Worker.purge` |
| `Crash` | the process stops; it is started again with empty memory |
| `Tick` | time; statements take none, a delivery at most `DeliveryTimeout` |

The lease of all rows of a batch is counted from its Claim and is not renewed.
Nothing in the model ties `Lease` to `BatchSize` and `DeliveryTimeout`, as nothing
in the code does: a row may become due again while a worker has it, in its batch
or on the way, and `overrun` (`OutboxLeases`) remembers that it did.

### AlertLifecycle

`status`, `level`, `marked` (`notify_pending`) are the table; `mail[a]` is the
sequence of notifications queued for alert `a`; `maint` says whether the host is
in maintenance. An evaluator takes `Load` (loadState; a reading that changes
nothing ends here), `PrepareChange` (maintenance windows and recipients, before
the transaction), then one of `CommitResolve`, `CommitLevel`, `CommitOpen` or
`CommitConflict`; the last one continues with `ConflictRead` and `FixLevel`, the
two statements with which `open` treats an alert somebody else opened. `Notify`
is the second half of every transaction, `change`: mark, drop or queue. Marks and
outbox rows are written at a savepoint, so `Notify` may fail while the change
itself is committed. A flusher takes `FlushList`, `FlushPrepare`, `FlushRead`,
`FlushWrite`. `Routed` is the set of levels for which recipients exist.

### AlertDuration

`cond` is the truth, `since` the age of the pending record, `held` the age of the
unbroken run of readings above the threshold. `DLoad`, `Evaluate`, `Mark`,
`Sustained`, `Clear`, `Open`, `Resolve` are the statements of one evaluation in
the order of the code, which differs for a reading below the threshold (clear,
then resolve) and a subject that has gone (resolve, then clear). `statusRule`,
chosen once, tells `reconcile` (clears a left-over record while the alert is
active) from `apply` (does not). `overlap` remembers that two evaluations ran at
once or a statement failed.

### HostPresence

`state` and `silence` are `host_status`, `alert` is the number of the active
`host_offline` alert. A report takes `Receive`, `MarkOnline`, `LoadAlert`,
`ResolveOffline`; a monitor takes `ListStale`, `MarkOffline`, `CheckActive`,
`RaiseOffline`. Between any two of them anything else may happen.

### Migrations

`dbSchema` is the sequence of scripts whose changes are in the schema, `dbHistory`
the history table, `advisory` the lock. A process takes `Command`, `Lock`, `Plan`
(Up, RequireUpToDate, Status) or `PlanBaseline`, `EnsureHistoryTable`, then for
each script `RunScript` and `CommitScript` (one transaction: script and row), or
`Mark` (the rows of a baseline), and `Release`. `StatementFails` and `Cut` may
come at any point. A binary is a function from versions to contents, so that
branches that left out or edited a script are binaries of their own.

### Settings

`setRow`/`setMem`/`told` are the row, `Service.cur` and what subscribers heard
last; `chRow`/`chMem`/`mailer` the same for a channel. `Apply` takes the mutex and
validates the merged result, `WriteRow`, `Store` and `Tell` follow.
`UpdateChannel`, `SaveChannel`, `Remember` likewise; `TestChannel`, `TestSent` and
`MarkVerified` hold no mutex. `WriteFails` covers a write that failed and one
whose answer was lost; `RestartServer` may bring another encryption key.

### Sessions

`tok` is `refresh_tokens`, with the password version a session was opened with.
Login and the requests that change a password are split at each statement
(`LoginVerify`, `CreateToken`; `ChangeVerify`, `SetOwnPassword`,
`RevokeSessions`), rotation at the commit of Consume (`ConsumeRotate`, `Reread`,
`CreateToken`). `ConsumeReuse` is the replay that revokes the family; `GraceOver`
ends the time in which an exchanged token may be exchanged again.

### PasswordReset

`row` is `password_reset_tokens`, `mail` the queued mail of each link. `Forgot`,
`IssueDelete` and `IssueCommit` (a transaction of two statements under READ
COMMITTED), `SupersedeMails`, `QueueLink`; `Complete`, `Announce`. Delivery,
expiry and purge of the queue are actions of the surroundings.

### SuperAdmins

`role` are the accounts, `holder` the row locks, `tx` the transactions.
`BeginGuard` takes the snapshot of `SELECT ... FOR UPDATE`, `LockNext` locks one
row of it at a time and looks at it again, `GuardDecides`, `WriteCommit` or
`Rollback`; `DeadlockAborts` is PostgreSQL's answer to a circle.

### RateLimit

`bucket` is the map of buckets, refilled when looked at; `level` is what a bucket
would hold if it were refilled at every tick. `Gate` is Check before the work,
`Charge` is Allow after a failure, `Succeed` charges nothing. `SetRate` changes
or turns off the limiter, the sweep is part of `Touch`.

### Organizations

A move is `MoveStarts` (the trigger walks the tree of its snapshot) and
`MoveCommits`. `WithDescendants`, `Ancestors`, `IsAssigned`, `FullOrgs`,
`ContextOrgs`, `CanViewHost`, `VisibleHostIDs`, `ListedHosts` are the questions
the code asks, each translated from its own query or loop.

### Authorization

A request takes `Authenticate`, `LookUp`, and on a miss `ReadTable` (or
`ReadTableFails`) and `StoreKeys`, then `Respond`. `EditGrants` changes the table
by hand, `Invalidate` empties the cache, `ChangeRole` and `IssueClaims` separate
the user's role from that of the token. `sinceGranted` and `sinceHeld` measure how
long ago a right was last held.

### PullScheduler

`sched` is the Run goroutine: `List` or `ListFails`, `Consider` for one host at a
time, `Forget`; each started poll is a goroutine of its own (`Answered`,
`PollEnds`, `PollPanics`). `EditRow` changes the rows while the list is walked.
`Cancel`, `Drain`, `RunReturns` are the shutdown.

### AgentReports

One service of the machine (`unit`), what the agent sent last (`last`), what the
server shows (`view`), `compat` the degraded mode. `Build` makes a partial or a
full list; the report is then stored (`FullStored`, with or without the list),
lost (`SendFails`), refused (`FullRefused`, followed by `CoreStored` or
`CoreRefused`) or stored late (`LateStored`). `Replace` exchanges the server.

### AgentCollect

`Background.Run` as `Wake`, `Collected`, `CollectFails`; `Request` teaches a pull
agent its interval, `Answer` is the report that reads the value.

### HostState

`Record` as `Insert`, `ReadState`, `UpdateStatus`, `UpdateInventory`, `Evaluate`;
each of the first four may fail, and two reports may be anywhere in it at once.
`UpdateStatus` and `UpdateInventory` are the two statements of MarkOnline, which
are in no transaction. `crossed` are the reports with an inventory that are
between them together with another; `torn` says that reports have crossed there,
or one failed at the second statement, and that no report with an inventory has
passed both since that did neither.

### IngestSections

Pure functions: `CleanText`, `CleanList`, `CleanServices`, `CleanDisks`, `Clean` (a
part by its shape), `Ingest` (a report). A behaviour chooses an input and computes.
A section of protocol 4 that does not decode is dropped (`Decode`); `host_info` and
`physical_disks` are decoded together with the core, so that one of a wrong type
has the report refused (`Parsed`).
Properties compare with definitions that are not written like the code: the
longest prefix that fits, the first valid entry of each name, the section alone.

### MaintenanceCalendar, MaintenanceWindows

`NextStartDate` (daily, weekly, monthly by day or by weekday), `WallInstant` and
`Validate` over days and instants that are integers; the reference `StartsOn` says
of a single day whether the rule names it. A behaviour is a window, a zone and a
walk over the days. `MaintenanceWindows` adds the rows with their overrides and
the requests: `CreateWindow`, `LoadUpdate`, `LoadDeleteOrEnd`,
`LoadEndOccurrence`, `LoadSkipNext`, each followed by `Commit`; `Pass` is the clock,
`ChangeZone` the setting. `ActiveAt` and `Status` are what alert engine and panel
ask; the reference is the set of instants the windows cover.

### AlertRules

One report after another (`Report`), rules that change in between
(`ChangeRules`), and a clock (`TimePasses`). The evaluation functions keep the names
and the early returns of the code. Groups of checks share no state, so a
behaviour is about one of them. An evaluation may fail to read or to write some
of its changes. The reference is `Says`: what one report says of one subject, read
off the rules without lists or reconciliation; `called` is what the newest report
that said something of it called for.

### Thresholds

`defs`, `own` and `ruleRows` are the tables. `PatchRead` validates against the row
it read, `PatchWrite` updates under the table's CHECK; a PUT is a transaction of
`ApplyOne` per key, in their order, with row locks (`locks`), then `PutCommit` or `PutAbort`.
`DefaultsFor`, `ResolveBase`, `ForSubject`, `ResolveStatusRules` are the queries of
the engine, `Shown` and `ListForOrganizations` those of the panel.

### Recipients

`Matching`, `NoAccess`, `Deduplicated` and `Deliverable` are ResolveRecipients and
what is sent of it; `Candidates` what an administrator may choose. Users, contacts,
routes and the channel change one request at a time: each of these requests
writes with one statement. The query sorts its rows by system rule or not, name and time
of creation; `ResolveRecipients` has a list for every order this allows (`Orders`), each
merged row by row (`Deduplicated`, `Joined`), so that a property says of all of them
what it says of the one the code gets.

## 3. The runs

Passing runs:

| run | instance | shows |
|---|---|---|
| `outbox_promise` | 2 workers, 1 row, lease no longer than a delivery, 3 attempts, 2 faults, fairness | `SharedOnlyWhenOverrun` (a row is with two workers only after its lease ran out), `AttemptsPaid` (what goes beyond the limit), and when two workers deliver the same row: `BodyChk`, `SentWasDelivered`, `CopiesWithinAttempts` (every copy was counted as an attempt first), `RowsSettle`, and `Promise` |
| `alert_races` | 2 evaluators, 1 flusher, 4 reports, 1 window, 1 fault | `OneActive`, `ResolvedIsFinal`, `ResolvedToldOnce`, `NewsBeforeResolution` |
| `alert_liveness` | `MCAlertLiveness` with fairness: 1 evaluator, 1 flusher, 3 reports, 2 windows, 2 faults, a level nobody receives; or both kinds of alert, 2 evaluators, duration 3, 2 faults; or 2 reports in progress, 2 monitors, 2 outages, 2 faults | `DeferredTold`; `SustainedOpens`, `RecoveryClears`, `NoEarlyOpening` (while nothing overlaps or fails); `FirstOutageAlerted`, `RecoveryCleans` |
| `server` | `MCServer`, 2 processes or requests on each component | `SchemaTrusted`, `SettingsHold`, `SessionsEnd`, `LinksHold`, `GuardHolds`, `BudgetKept`, `ScopeHolds`, `WithdrawnRightsEnd` |
| `fleet` | `MCFleet`, 2 hosts, 2 reports | `PollsExact`, `ReportsHeal`, `SourcesKnown`, `RecordWhole`, `SectionsClean` |
| `config` | `MCConfig`, 2 requests | `CalendarRight`, `WindowsRight`, `StopsAreFinal`, `AlertsExact`, `SilenceKeeps`, `ThresholdsHold`, `RecipientsExact` |

Each property of `server`, `fleet` and `config` is the conjunction of the named parts that
make one component correct; the parts are stated and explained one by one at the
end of the component's module.

| property | parts |
|---|---|
| `SchemaTrusted` | `HistoryTrue`, `ScriptsInOrder`, `ReadyOnOwnSchema` |
| `SettingsHold` | `CopiesFollow`, `RowKeepsRules`, `OnIsReady`, `VerifiedWasTested` |
| `SessionsEnd` | `StaleSessionsEnd`, `RevokedFamilyDead` |
| `LinksHold` | `SerialResetsAgree`, `LinkSpentOnce` |
| `GuardHolds` | `SuperAdminRemains`, `NoDeadlock` |
| `BudgetKept` | `SweepInvisible`, `FreeFailuresBounded`, `WithinBudget` |
| `ScopeHolds` | `SerialMovesAcyclic`, `ScopeAgrees` |
| `WithdrawnRightsEnd` | `WithdrawnKeyEnds`, `WithdrawnRoleEnds` |
| `PollsExact` | `OnePollPerHost`, `PollGapBounded`, `QuietAfterReturn` |
| `ReportsHeal` | `ListHeals`, `TroubleShown`, `RestartsReal`, `DegradedEnds`, `CoreNotLost` |
| `SourcesKnown` | `HealthyStaysKnown` |
| `RecordWhole` | `KillNoticed`, `InventoryWhole` |
| `SectionsClean` | `TextFits`, `ListFirstValid`, `SectionAlone`, `FullListNotEmpty` |
| `CalendarRight` | `NextDateRight`, `WallInstantRight` |
| `WindowsRight` | `UntilRight`, `StatusRight` |
| `StopsAreFinal` | `EndedIsFinal`, `StoppedStaysStopped` |
| `AlertsExact` | `FollowsReports`, `MissingIsReal` |
| `SilenceKeeps` | `OOMStays`, `EmptyListKeeps` |
| `ThresholdsHold` | `LevelsOrdered`, `PanelAgrees`, `NearestWins`, `ListExplains`, `PutsWhole`, `NoPutDeadlock` |
| `RecipientsExact` | `ReachedExactly`, `AccessAgrees`, `CandidatesSee`, `SourcesNamed` |

Each also contains the type invariant of its module, where it is an invariant.

`MCServer`, `MCFleet`, `MCConfig` and `MCAlertLiveness` compose components that share no state in
these models: the initial state chooses the one in focus (`focus`), every step is
one of its steps, the others stand still. The reachable states are the union, not
the product, of those of the components; what one component does to another is
an action of the surroundings in the other's module (delivery in `PasswordReset`,
a moved organization in `Thresholds`, a changed assignment in `Recipients`).
`MCConfig` looks at thresholds three times: one default edited by two requests,
two PUTs at once, one write at a time over every scope. A constant `Focus` with
one element runs one component.

Runs that end in a violation (section 4): `outbox_overlap`, `alert_ack_lost`,
`alert_level_untold`, `alert_resolution_untold`, `presence_race`,
`readonly_missed`.

Why the bounds are enough. Every race in the code is between two holders of one
thing: two workers, evaluators, requests, transactions or reports; two of each
show them all. In `outbox_promise` a lease of one tick and a single row stand for a
row late in a slow batch: it becomes due again while a worker has it, which is
what the code's 2 minutes for 20 deliveries of 45 seconds come to. The other half,
a row the worker has not come to yet, takes two rows and is the instance of
`outbox_overlap` (lease 3, two deliveries of 2 each: longer than one, shorter than
the batch). `MaxAttempts = 3` has a first attempt, a retry and a last one, which a
second worker may share. Alerts go through
at most four reports: open, raise, lower or resolve, and open again under a
second id. A duration of 3 ticks leaves room for the condition to be interrupted.
Two outages are the smallest number that lets a stale list of the first damage
the second. Further:

- migrations: 4 binaries (the release before, two that left the other's script
  out, the union; one of them edited a script), 3 commands, 2 cuts: a cut, a
  second copy, and an operator's baseline;
- settings: 4 requests and 2 lost answers or restarts: change, test, change again
  under another key;
- sessions: 2 tokens, 2 requests: a family with a rotation, or two families; two
  password changes while nothing fails, or one with a failed statement
  (`MCSessInit`); password reset: 3 links, since two requests and a later one are
  needed to see which is the last; requests overlap or one of their statements
  fails, not both, since each alone is an exception of `SerialResetsAgree`;
- super_admins: 3 accounts: two that lower each other and one that is promoted;
- rate limit: capacity of two requests, refills of half and a whole one or none,
  6 ticks, three sweeps; organizations: a tree of 3 and two moves, which may cross;
- permissions: TTL and token of 1 tick, two requests, two roles: the bounds of the
  property are sums of these;
- pull: intervals of 1 and 2 ticks and polls of up to 2, so that a poll may be
  slower than its interval; agent reports: full lists and probes every 2 cycles;
- calendar: weeks of 3 days, months of 7, 6 and 8, days of 2 instants, all rules
  that fit, starting on day 0 or 4 and going on or ending on day 9, 25 days: a month is longer than a week and no multiple of it, the
  months differ, as in the real calendar, and the walk passes every month's end
  and the change of the clocks in both directions;
- windows: a daily one of two days, a weekly one that is longer than its distance
  to midnight, a single one; 3 requests, 8 instants;
- rules: two mounts, two reports in a row where the code counts to three, one change
  of the rules, from any (a selection is left empty where everything is selected)
  to any;
- thresholds: two organizations, two levels, a host row and a subject row; one
  default beside two PUTs at once;
- recipients: a user, a contact, two routes, two spellings of one address: two rows
  that merge, either of them first, with access or without (`RecipientsStand` is
  about any number of rows);
- recorded reports: once there was a gap in the counter no further kills happen,
  since `KillNoticed` says nothing of them; two reports are enough to cross, and
  the slot of each is used again for the next one, so that inventories are
  followed through any number of crossings, failures and whole reports;
- texts of 5 characters against a limit of 3 bytes, lists of 3 against a limit of 2.

Symmetry is used in safety runs only, over sets whose elements the modules only
compare. In `MCServer` all sets of requests, and in `MCConfig` the requests and the
mounts, have the same two names, so that one permutation serves them all.

Where deadlock is not checked the instance ends for want of reports, requests or
outages; the outbox instances never stop.

Fairness and why the code justifies it:

- worker steps and `Tick` (`Outbox`): `Worker.Run` is woken by a ticker every
  `PollInterval`, `jobs` restarts it after a panic, a send ends at its timeout;
- `FlusherStep`: `RunDeferred` ticks every 30 seconds while the server runs;
- `Step` and `DTick` (`AlertDuration`): agents keep reporting, and a statement
  returns or fails;
- `IngestStep`, `MonitorStep`, `HTick` (`HostPresence`): a living agent reports
  each interval, the monitor looks every 10 seconds.

Nothing is assumed of writers, users, maintenance windows, the watched things or
faults; faults are bounded, so each liveness property reads "once faults stop".
`MCAlertLiveness` states the same fairness for the steps of the one in focus.
Elsewhere, what must happen in time is stated as a bound instead, and is an
invariant: `PollGapBounded`, `ListHeals`, `DegradedEnds`, `HealthyStaysKnown`,
`WithdrawnKeyEnds`, `WithdrawnRoleEnds`.

## 4. Where code and documentation disagree

| run | property | what happens |
|---|---|---|
| `outbox_overlap` | `Exclusive` | the lease is counted from the Claim of a whole batch; it is longer than one delivery (as its comment asks) and shorter than a batch (2 minutes against 20 sends of up to 45 s), so a second replica claims and sends a row the first has not come to. The comment on Claim and MIMARI.md say that replicas do not take the same row |
| `alert_ack_lost` | `AckLostOnlyOnRise` | whether a change of level takes the acknowledgement away is decided from the row read at the start. Of two evaluations one raises the level and leaves an acknowledgement given since then standing; the other reopens the alert although the level does not rise. MIMARI.md: it is taken away when the level rises |
| `alert_level_untold` | `CurrentLevelTold` | the loser of a race to open writes its level over the winner's by a bare UPDATE; nobody is told of that level |
| `alert_resolution_untold` | `ResolutionTold` | an alert that was told, then changed level during maintenance, carries the mark that `change` reads as "never told": its resolution before the next flush is dropped |
| `presence_race` | `OutageAlerted` | a stale list makes the monitor mark a reporting host offline; the report resolves the fresh alert, the status stays offline, and if the agent dies now the host is never listed again |
| `readonly_missed` | `ReadOnlyNoticed` | whether a mount has become read-only is looked up in the row before, whatever it lists; a failed collection leaves an empty one, and the mount, which stays read-only, is never alerted. status.go: a report without data changes nothing |

Each of the following is a definition of its module that the model violates. It
says what a comment or a document says; the property the passing run checks is
the same statement with the exception the code needs, so that everything else it
says is checked.

| definition | module | what happens | checked instead |
|---|---|---|---|
| `PasswordChangeEndsSessions` | `Sessions` | a login or a rotation that verified before the change inserts its token after the revocation | `StaleSessionsEnd`, `RevokedFamilyDead` |
| `OneValidLink` | `PasswordReset` | two requests that delete and insert at once do not see each other's link | `SerialResetsAgree` |
| `LastSuperAdminStays` | `SuperAdmins` | an account that is promoted after the snapshot of the guard that is about to delete it is not among the rows the guard looks at; if the others are deleted meanwhile, the last one goes | `SuperAdminRemains` |
| `Acyclic` | `Organizations` | two moves that cross each pass the trigger, which walks the tree of its own snapshot | `SerialMovesAcyclic` |
| `VerifiedIsTested` | `Settings` | a change overtakes the test of the settings before it, or its answer is lost | `VerifiedWasTested` |
| `LegacyNeverTakenForEmpty` | `Migrations` | a baseline that is cut between creating the history table and filling it leaves an empty history; the next `up` runs the first script on the tables that exist | `HistoryTrue` |
| `InventoryHarmless` | `IngestSections` | "a broken inventory must not have the whole intake of metrics refused" (host_info.go:95-98, model.go:210-211): `host_info` and `physical_disks` are cleaned leniently, but decoded with the core (ingestWire takes only the sections of protocol 4 raw), so one of a wrong type is a 400 for the report | `SectionAlone`, with the inventory among what refuses a report |
| `AlsoDistinct` | `Recipients` | a source that reaches one address twice is listed twice | `SourcesNamed` |
| `HealthyNeverStale` | `AgentCollect` | a pull agent sleeps by the interval it knew, and counts staleness by the shorter one it has learned since | `HealthyStaysKnown` |

Met while modelling and covered by the properties as they are stated: an attempt
whose outcome was lost is not compared with `MaxAttempts` (hence "+ faults" in
`AttemptsPaid`), and neither is one a second worker shares whose lease ran out on
the last attempt (hence the number of workers in it); a row that is superseded or expires while a worker has it
is sent all the same and becomes "sent" (hence `Sent` from "failed" in
`NotificationDelivery`); a flush may clear a mark set between its read and its
write; a failed DELETE of `alert_pending` under a threshold alert leaves a record
that shortens the next wait, and so do two evaluations at once (hence `overlap`
in `NoEarlyOpening`); a crash between MarkOffline and RaiseOffline loses the
alert (hence `hfaults = 0` in `FirstOutageAlerted`); the two statements of
MarkOnline are in no transaction, so reports that cross there, and a failure of the
second, leave runtime and hardware of two reports together until the next whole
one (hence `torn` in `InventoryWhole`); with one of the two RAID rules switched off
and the other on, an open alert of the first closes only with a report that lists
arrays, while status.go:13-14 says that a rule that is off closes its alerts (hence
the first case of `SaysOfRAID`).

## 5. Proofs

Eight modules hold theorems, each EXTENDS the modules it is about:

| module | about | theorems |
|---|---|---|
| `OutboxProofs` | `Outbox`, `OutboxLeases` | `TypeCorrect`, `BodiesConstrained`, `SentIsTrue`, `ClaimsRespectLeases`, `AttemptsBounded`, `CopiesAreCounted`, `PromiseKept` |
| `AlertLifecycleProofs` | `AlertLifecycle` | `TypeCorrect`, `AtMostOneActive`, `ResolutionIsFinal`, `ResolutionAnnouncedOnce`, `ResolutionIsNoNews` |
| `DurationProofs` | `AlertDuration` | `NothingOpensEarly` |
| `FleetProofs` | `PullScheduler`, `AgentReports`, `AgentCollect`, `HostState`, `IngestSections` | `PullHostsPolled`, `ListsHeal`, `HealthySourcesKnown`, `RecordsWhole`, `SectionsStand` |
| `AccountProofs` | `Sessions`, `PasswordReset`, `SuperAdmins`, `Authorization`, `Organizations` | `SessionsAreEnded`, `LinksAgree`, `OneRemains`, `RightsEnd`, `ScopeIsKept` |
| `ServerProofs` | `Settings`, `RateLimit`, `Migrations`, `HostPresence` | `SettingsFollow`, `ChannelsFollow`, `BudgetIsKept`, `SchemaIsTrusted`, `FirstOutageStands` |
| `ConfigProofs` | `MaintenanceCalendar`, `MaintenanceWindows`, `AlertRules` | `CalendarStands`, `WindowsStand`, `StopsStand`, `AlertsAreExact`, `SilenceIsKept` |
| `ThresholdProofs` | `Thresholds`, `Recipients` | `ThresholdsStand`, `RecipientsStand` |

The theorems are about the components' own specifications (`Spec`, `SessSpec`,
`WindowsSpec`, ...). An MC module that puts several components together takes
the steps of one and leaves the others still, so that an invariant of the
component is one of the composition. Every invariant named below as inductive
was checked by TLC as an invariant on the instance of the component, before it
was proved or, for `ThresholdsInv`, beside the proof (with acyclicity in the
place of `Rooted`, which speaks of all numbers).

What the theorems assume. Each holds under the ASSUMEs of the constants, which
TLC evaluates in the runs; two have a hypothesis of their own, stated in the
theorem: `CopiesAreCounted` has finitely many workers and `AttemptsBounded` at
least one besides. None assumes anything of the length of a lease or of the number
of evaluators. Some ASSUMEs were found while proving:

- `MigrationsAssumption` asks that every binary has script 1 and that a schema
  made by hand has no gap against the binaries. A by-hand schema without
  000001, or with a later script and not an earlier one, makes the baseline
  record scripts that were never run, and `SchemaTrusted` is false of it: the
  operator who runs "baseline" vouches for this, no code checks it.
- `OrgAssumption` and `RateAssumption` ask for finitely many organizations and
  rates: with infinitely many the recursive query has no last round and there is
  no fastest rate.
- `RulesAssumption` asks that `Unset` and `Keep` are told apart from the levels
  and readings and from each other, which in the code they are by their Go types. Of
  `ThresholdsAssumption` the same is true of `Free`, `Same` and `NoLevels`; it asks
  that a key stands once in the order in which keys are applied (they are the
  keys of sorted maps).
- `CalendarAssumption` asks for months of at least a week and for zones that are at
  most two days from the database's: `wallInstant` asks for the offset two days to
  either side.
- `WindowsAssumption` asks that the clocks never go back to the day before. The
  proof of `WindowsStand` failed without it, and TLC then showed the case: `Occurrences`
  looks for days up to the date at the end of the interval, and if the clocks
  go back past midnight just then, that date is the earlier one, and an occurrence of
  the later day that has begun is left out, until the date has caught up. No zone
  whose rules are in force does so (those that change at midnight go from 24:00 to
  23:00 and never show the new date before); zones that changed a minute after
  midnight did. `LastDay` stands for the end of the search in `Next` (10,000 steps)
  and is asked to lie beyond every instant the model reaches.
- `RecipientsAssumption` asks for finitely many organizations.

### Outbox

- `TypeCorrect`: one step per action, from lemmas on what each UPDATE does to a
  row.
- `SentIsTrue`: without any condition on leases. `SentInv` adds that a worker
  about to record "sent" has a row whose message arrived; copies never decrease
  (`CopiesStay`), and only MarkSent sets `sent_at` (`RowSteps`).
- `BodiesConstrained`: every statement that finishes a row also removes its
  sealed body, and no other statement touches the body (`RowSteps`).
- `ClaimsRespectLeases`: for any lease, batch and delivery time, those of the code
  among them. `SharedOnlyWhenOverrun` is not inductive: what keeps a second worker
  away is that the row is not due, so `LeaseInv` adds that a row in somebody's hands
  waits unless its lease has run out there. Only a Claim puts a row into further
  hands; it takes rows that are due and hides them in the same statement
  (`ClaimsDueRows`), and when a row that is held becomes due `overrun` remembers it.
- `AttemptsBounded`: nothing is assumed of leases here either. `AttemptsInv` bounds
  the attempts of an open row by `MaxAttempts`, the faults and the workers that have
  it on a last attempt (`LastTriers`). A Claim that counts an attempt at the limit
  adds its worker to them (`ClaimTriers`); a worker leaves them by a fault or by
  closing the row (`TrierSteps`), and a closed row is not claimed again, so that its
  attempts stay below the same sum with all workers.
- `CopiesAreCounted`: no recipient gets a copy no attempt paid for.
  The attempts a row has are at least its copies and the workers that may still
  send it: a cardinality that each claim and each send changes by one.
- `PromiseKept`: every step of the queue is one of `NotificationDelivery` or a
  stutter, `Delivery` being the instance under the refinement mapping of
  `Outbox`. This is the safety part of the run property `Promise`; its
  fairness stays with TLC.

### AlertLifecycle, AlertDuration

For any number of evaluators, flushers, alerts, reports, windows and faults:

- `TypeCorrect`: the invariant is `TypeOK /\ Shape`, since a commit is well-typed
  only because whoever commits holds the row it read.
- `NextFacts` (lemma): each step changes statuses and mail in one of a few ways.
  `AtMostOneActive`, `ResolutionIsFinal` and `ResolutionAnnouncedOnce` follow
  without another look at the actions.
- `ResolutionIsNoNews`: while nothing fails and every level is routed, nobody is
  told of an end who was not told of the beginning. `NewsInv` adds
  that, as long as nothing has failed, an active alert is announced or marked as
  deferred (`Announced`), and that preparing never finds nobody to tell
  (`Planned`).
- `NothingOpensEarly`: `DurationInv` says, while evaluations follow one another
  and nothing failed, that a record - in the table or in an evaluator's hand - is
  no older than the unbroken run of readings, and that an evaluation of another
  reading has removed it or is about to (`AboveStands`, `OtherStands`).

### The way from the agent

- `PullHostsPolled`: `PullInv` says that the hosts in flight are exactly those
  with a poll, why each host waits (a poll runs, or the next round is due), and
  bounds the time since its last poll, fault by fault (`GapInv`).
- `ListsHeal`: what a partial list leaves out the server has stored, or the full
  list comes in time (`ListBehind`, `ListSent`), and the probe after a refused
  section too (`ProbeNear`).
- `HealthySourcesKnown`: a value is no older than one sleep and one collection.
- `RecordsWhole`: a report that stores the kill counter tells all kills above
  the state it read (`CountersTold`). A report with an inventory that is
  between the two statements and has not crossed another is alone there and the
  runtime is its own, so that its second statement brings the tables together
  again; they are apart only as long as `torn` says so (`TablesTogether`).
- `SectionsStand`: for texts, lists and limits of any length. The bytes of a text
  have a first byte before every second one (`Runes`), so a cut that goes back to
  the start of a rune goes back by one at most and keeps something (`CutFits`). Of
  a list, `KeptSoFar` relates what is kept after i entries to the places of the first
  valid entries among them: the first `ListMax` of these, and, while the list is not
  full, the names seen are exactly theirs. Every entry keeps it (`KeptGoesOn`), so
  it holds at the end (`ListKept`). A section depends on nothing but its own part of
  the report (`IngestIs`).

### Accounts

- `SessionsAreEnded`: `SessInv` relates the requests between their statements to
  the rows they have read: one that inserts a token with an old password was
  overtaken, or a revocation is still to come (`StaleOf`), and likewise for a
  revoked family (`RevokedOf`).
- `LinksAgree`: a link that changed the password is used or lapsed (`SpentOf`), a
  link about to be stored is nobody else's (`IssuedOf`).
- `OneRemains`: `Locks` says that rows are held by who got them, and are taken in
  the order of their ids, from which there is no circle; `Snapshots` that a
  decided transaction holds the rows that make its decision right.
- `RightsEnd`: every grant still honoured is bounded by the ages of the cache
  entry, the token and the request (`GrantsRemembered`).
- `ScopeIsKept`: `MoveStands` says that what the trigger saw of the only move
  under way is still so, hence the tree stays one. The recursive queries are
  then shown equal to the loops: their rounds exist (`RoundsExist`), are what one
  round makes of the round before (`RoundsIf`), and end within as many rounds as
  there are organizations (`RoundsEnd`, by counting).

### The server's own state

- `SettingsFollow`, `ChannelsFollow`: `SettingsInv` says that whoever changes
  something holds the mutex (`OneChange`) and that copies are behind the rows
  only while a change is on its way to them or an answer was lost
  (`CopiesBehind`).
- `BudgetIsKept`: what a key has spent and may still spend is bounded by the
  bucket and the time at the fastest rate (`PaidFor`), whatever the sweep
  forgets (`SweepInvisible`).
- `SchemaIsTrusted`: `SchemaInv` says that one runner has the lock, that its plan
  is the rest of its binary's scripts (`PlanStands`), and that the history tells
  the scripts in order (`ScriptsInOrder`, `HistoryTrue`).
- `FirstOutageStands`: what `FirstOutageAlerted` rests on at every moment
  (`FirstOutageKept`). Until the silence exceeds `Grace` no monitor has seen the
  host; afterwards no report is in progress, so none has read the alert in order
  to resolve it, and whoever has marked the host offline is on the way to raising
  the alert (`OutageUnfolds`). The second conjunct holds since a report in
  progress is over within an interval (the guard of `Tick`). That the alert is
  raised in the end takes fairness and stays with TLC.

### Configuration

- `CalendarStands`: the invariant is the type of the behaviour, and all the work is
  about the pure functions. A search that steps forward ends at the first hit
  (`SearchIs`); the months follow one another without a gap (`MonthsFollow`, `MonthOfIs`), the
  n-th or last such weekday of a month is the one the rule names (`NthWeekday`,
  `LastWeekday`), and weeks counted from the Monday of the first day are those the
  rule counts (`MondayIs`, `WeekIs`, `WeekSearchIs`). With these `NextIs` says for every
  rule that the day returned is named and that none between is. The
  instants are arithmetic on one change of the clocks (`WallInstantIsRight`).
- `WindowsStand`: `WindowsInv` says that rows and requests hold valid windows and
  overrides that are stops. The rest is about `Occurrences`, `Next` and `ActiveAt`. The
  days walked are the days named (`StartDaysAre`, from `NextIs`), each gives the
  interval that `Covered` gives it (`PieceIs`, `LengthIs`), and a day before those
  looked at has an occurrence that is over, as no window is longer than `span`
  and later days begin later (`LeftBehind`, `DaysFollow`). Occurrences joined in the order
  of their starts (`InOrderIs`) reach exactly the first instant at which nothing is
  covered (`JoinIs`), within the horizon (`AnswerIs`).
- `StopsStand`: an action property. `WindowsInv` adds that an override a request
  is about to write is a skip or an instant that has passed: writing it over
  another stop leaves the occurrence stopped. That an ended window keeps its
  dates is the statement's own check (`WritesKeep`).
- `AlertsAreExact`: `ReconcileLeads` says what one reconciliation does to the
  alerts of its type; each group of checks has a lemma from it (`DisksFollow`,
  `MissingFollows`, `ReadOnlyFollows`, `TimeFollows`, `RAIDFollows`, ...): the alert of
  every subject becomes what `Says` says of it, or stays where it says nothing. With
  `called` that is `FollowsReports`. `RulesInv` adds that a mount the last j listing
  reports leave out was absent for j (`AbsenceCounted`: the rows read back and the
  count agree), and that only disk and RAID alerts are ever a mere warning.
- `SilenceIsKept`: an action property, from the same lemmas.
- `ThresholdsStand`: `ThresholdsInv` says that a PATCH holds levels that are valid
  one by one and a row that is there or gone (`PatchState`, `RowsKnown`), so that
  the CHECK of the UPDATE is enough; that a transaction has written and locked
  what comes before the keys it has left (`PutsSound`, `LocksHeld`), hence of
  several the one whose next key comes last waits for none (`NoCircle`); and that
  every way up the tree ends (`Rooted`), which moves keep (`MoveKeepsRoots`). The
  recursive query is the way up with its depths (`ChainIs`), nothing occurs on it
  twice (`NoReturn`) and it is shorter than the number of organizations
  (`WayIsShort`): so the general default ranks last and the nearest one first.
- `RecipientsStand`: the invariant is the type of the tables. The query for those
  with access goes down the tree, the one for the host's rows goes up: they agree
  (`DownIsUp`), both in fewer rounds than there are organizations (`ChainWithin`,
  `WayShortened`, by counting). What n rows merge to is one entry for each address among
  them, without access exactly if none of its rows has it, and with the sources of
  all of them (`Tells`); a row of a known address keeps that and so does one of a new address
  (`JoinedTells`), hence it holds of the whole list in any order (`DeduplicatedTells`), and
  an order exists (`OrdersExist`). Who is reached is then a matter of the matching rows.

### What stays with TLC

- Every liveness property and the fairness part of `Promise`: fairness and ENABLED
  are out of the prover's reach. Both properties of the run on `HostPresence` are
  of this kind; the theorem about it is of their safety part.
- Every safety property a passing run checks is stated by a theorem. What the
  refutations of section 4 show is shown by TLC alone.

Induction over data. The induction theorems of the library take an operator as
parameter, which the provers cannot instantiate. Where a result about a
recursive function was needed (days, occurrences, merged rows, bytes, ranks), it was
had from the well-foundedness of the numbers instead: a least number at which the
claim fails contradicts itself (`LeastOf`, `GreatestOf`), the claim being
membership in a set (`CountUp`, `StepByStep`). That such a function exists is the
same argument once more (`StepsExist`, `RoundsExist`, `PathExists`, `JoinExists`). The
modules proved about therefore write folds over their data as recursive functions
with a name for each step (`Joined`, `AddEntry`).

## 6. What is not modelled

- Texts, subjects, measured values and error messages; the order among overdue
  rows; rows with several recipients (no writer produces them).
- Retention and the purge of logs: each batch deletes old rows with one
  idempotent statement. Background jobs: a loop that restarts after a panic; the
  models take "the job runs again" from it as fairness.
- HTTP routing, JSON, pagination and the panel: they decode, validate the shape
  of a request and display. Handlers with several statements are modelled with
  their component.
- TLS reload and secret box: file changes and cryptography. Where a changed key
  matters, it is an action (`Settings`).
- Logging, configuration files, client addresses, version comparison, agent
  packages, collectors under /proc, Docker and systemd: parsing and file I/O
  without a protocol. `AgentCollect` has the goroutine around slow collectors.
- Of the accounts: e-mail, names, profile and their uniqueness, password hashing
  and token signatures. Of hosts: inventory fields beyond present, absent or new.
- Sections of a report and checks of the engine that have the same shape are
  modelled once: the ranges of single fields are data.
- Service conditions with a start the agent reports are in `AlertRules`, without
  the concurrency of `AlertDuration`: an `AlertRules` evaluation is one action.
- Effects of one component on another beyond those named in section 3; the queue
  and the alert engine are composed only through `mail` (section 7).

## 7. Plan

Done: outbox, alert lifecycle, duration, presence, because they decide whether
people are told of what happened; then the server's accounts and own state, the
way from the agent to the stored report, and configuration.

Proved since: every safety property that a passing run checks (section 5).

Next module: `AlertNotifications`, AlertLifecycle composed with Outbox, so that
"told" means received.

## 8. Running it

    tlc -config MCOutboxPromise.cfg MCOutbox   # one run; see PROJECT.json
    tlc -config MCServer.cfg MCServer          # or with one element in Focus
    tlapm OutboxProofs.tla                     # one module of proofs
    tlapm --summary AccountProofs.tla          # its obligations and what lacks a proof
