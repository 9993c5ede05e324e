# A verification of temperate's access control

This directory models the part of the repository that decides who may do what:
the role graph and the permissions that follow from it, login sessions, the
notification of pages whose session has ended, the administrator's initial
password, two-factor authentication, service accounts and the system settings.
The specifications are in TLA+, checked by TLC on small instances and, for
safety, proved by TLAPS for every value of the constants. Paths below are
relative to `src/`.

## The system

A Kratos service: a gRPC and HTTP API (`internal/service`), use cases
(`internal/biz`), and repositories over a relational database (`internal/data`,
through the generated `ent` client). Several instances may run against one
database, and reads may be sent to another one (`read_sources`).

| component | state | operations | interacts with |
|---|---|---|---|
| role graph (`data/auth.go`) | `auth_roles`, `auth_role_parents` | create, delete, set inheritances | read replica; permission collection reads it |
| sessions (`biz/session.go`, `data/session.go`) | `auth_user_sessions` | create at login, check on every call, logout, kick, idle job, retention job | login handlers, `authMiddleware`, the hub |
| session hub (`biz/hub.go`, `server/ws.go`) | one channel per session in a locked map; one goroutine per socket | register, unregister, notify | sessions: whoever ends one notifies |
| bootstrap and passwords (`biz/auth.go`) | admin's hash, `initial_password_used`, the password in memory | bootstrap, login, show, change | several instances, one database |
| two-factor (`biz/totp.go`) | secret, enabled flag | setup, enable, disable, reset, two-step login | login |
| users and authorization (`biz/auth.go`, `data/auth.go`, `server/auth.go`) | users, their roles, permissions | assign, update, delete, authorize | role graph |
| service accounts (`biz/service_account.go`) | accounts, token hashes, expiry | create, update, regenerate, authorize | permissions |
| settings (`data/session.go`) | key/value rows | get, update | retention job |
| audit log | append-only rows | append, list, purge | every handler |
| LDAP, SSO | directory, provider records | login, upsert, CRUD | users |
| servers, registry, configuration, start-up | none of their own that matters here | | |

What is hard about it: nothing is locked between a read and the write that
relies on it, in any component; errors of secondary statements are dropped
(`_ = ...`); statements of handlers, of cron jobs and of other instances
interleave; the hub is told of an end after the fact and sockets register after
a check. `PROJECT.json` lists each such place under `hazards` with its line and
the properties that cover it.

What makes each component correct: no cycle of inheritance, and edges between
existing roles only; a session ends once and for good, never while it is in
use, and eventually when it is not, and how it ended is settled; a page hears of
the end of its session and of no other; one initial password that works, and
that is shown no more once it is spent; nobody gets in without a code while
two-factor is on, and it is never on with a secret nobody holds; a request is granted what the reachable roles give and nothing
else, although they change while they are walked, and the administrator keeps
the Admin role; a replaced service token is refused, and an account is what was
last asked for; settings are never half of one update and half of another.
The code keeps some of these only in part; the properties then say what it takes
for them to fail, and the sections below which these are.

## What is modelled

### RoleGraph

`roles` and `parents` are the two tables on the primary, `replica` what a read
replica holds. `CreateRole` and `DeleteRole` are one action each: what their
reads see changes nothing about their write, since ids are not reused and the
protection of a role never changes. `SetRoleInheritances` is as many steps as it
sends queries:

| code | model |
|---|---|
| handler starts (`service.go:368`) | `SetRoleInheritances(w, r, P)` |
| loop of `validateRoleInheritance` turns to a parent | `NextParent` |
| one call of `roleReaches`, one query on `ReadEnt` | `Visit`, `Expanded` |
| `UpdateOneID ... ClearParents ... AddParentIDs` (a transaction) | `Commit` |
| error or verdict | `Abandon` |
| replication | `Replicate` (external) |

The stack of the recursion is a set, because the order of an unordered query's
rows is not the code's to choose. `clean` and `raced` are history: a request is
clean while no edge has been added behind its walk and what it reads misses
none; `raced` records that an update was made by one that was not.

### Sessions and SessionLifecycle

`rows` is the table, keyed by token: `signToken` puts nothing but the user and
the second into a token and `token_hash` is unique, so a token has at most one
row. A request (`request`) is a login (`Login`, then `CreateSession`) or an
authenticated call: `Arrive`, then the query of `CheckSession` in its three
outcomes (`FindNothing`, `FindTerminated`, `FindActive`), the statement it leads
to (`ExpireIdle` or `UpdateLastAccess`) and the handler (`Logout` or `Reply`).
The time a statement writes is taken when it is issued (`stamp`) and may reach
the table later. `KickSession` and `ExpireInactiveSessions` are two statements
each; the purge is one. `DBFaults` lets any statement fail, and then the code
goes on where it drops the error. `endedAt` of a row (when it ended), `dead` of a
call (its session had ended when it arrived) and `blind` (its own query failed
although there was a record) are history.

Sessions outlive nothing: users with sessions cannot be deleted
(`migrate/schema.go:184`, no action on delete), so deletion of users plays no
part.

`SessionLifecycle` is what the table promises of one token: none, live, ended,
purged, in this order. `KeepsLifecycle` is the refinement, with `LifeMap` as
the mapping. It does not tell a kicked session from an expired one; that is
`EndsSettle`: a kick and an expiry may overwrite each other only within
`HandlerTime` of the end, by what was under way then.

### SessionHub and SessionNotice

`chs` is the map, `buffer` the one-place channel each `Register` makes (so a
channel is the socket that made it), `socket` the program counter of each
handler in `ws.go`, `notifier` that of each goroutine that ends a session and
notifies. The lookup and the send of `notify` are two steps, because the lock is
released in between. `active` reduces the session rows to what the handler
checks. The hub is that of one instance: sessions are shared by all, hubs are
not.

| code | model |
|---|---|
| `KickSession`, `scheduleCleanup`, the idle branch of `CheckSession`, and the statement that ends the session | `Begin`, `EndSession` (`by` says which of the three) |
| that statement reports an error, with its effect or without: a kick and the job give up, `CheckSession` drops the error and notifies (`biz/session.go:151`) | `EndFails`, `IgnoresError` |
| an end this hub is not told of: `LogoutSession`, or any end at another instance | `EndUntold` |
| `notify` | `Lookup`, `Send` |

`late`, `shared`, `quiet` (an end nobody told this hub of) and `unexpired` (a
page was told by a check whose statement had failed) are history.

`SessionNotice` is what the hub promises of one page: it is let in while its
session lives, watches it, is told at most once, after the end or after a check
that found it idle and could not record so (`Lapse`), and then does nothing but
leave. `KeepsNotice` is the refinement; `PageMap` reads the
stage of a page off the state of its handler and of its channel, so an event
that was lost, taken back, sent to another session's page or delivered twice
would be a step the promise does not allow.

### AdminBootstrap

`row` is the admin's row on the primary, with a hash reduced to the password it
was made from; `replica` is the row as `ReadEnt` shows it; `memory` is
`uc.initialAdminPassword` of each instance; `node` is how far each instance is.

| code | model |
|---|---|
| `BootstrapAdmin` generates and hashes (`biz/auth.go:220`) | `Start` |
| query for the admin (`data/auth.go:61`) and what follows from it | `StartReads` |
| insert, or update of the hash | `StartCreates`, `StartOverwrites` |
| `findUserByID`, then log and keep (`biz/auth.go:233`) | `StartRereads` |
| the process stops, or an error in `NewUseCase` makes `main` panic | `Crash` |
| `Login`: query and comparison, the condition of line 271, line 273, the update, line 277 | `LoginReads`, `LoginIsPlain` or `LoginIsFirst`, `LoginTakes`, `LoginMarks`, `LoginClears` |
| any early return or error of `Login` | `LoginFails` |
| `InitialPassword` | `ShowReads`, `ShowAnswers` |
| `ChangePassword` | `ChangeReads`, `ChangeWrites` |

The string in memory is read and emptied without a lock. An access sees the old
string or the empty one, or tears it and the handler faults: the two steps
`LoginIsFirst` and `LoginTakes` and the action `LoginFails` cover the three
outcomes. Who logs in knows the password: it was logged (`announced`) or is the
administrator's own (`Chosen`). `stale`, `writer`, `spent` (the instances at which a login has
returned the initial password and marked it) and `began` (where a request began
relative to that) are history. The
two-factor branch and a disabled account end a login before it touches the
initial password, which is `LoginFails` here.

### Authorization

The tables are `rows` (users, roles, permissions) and `link` (the join tables,
and what the pattern of a permission covers). Each request that changes them is
one transaction and one action: a role or permission that is deleted takes its
links with it (`migrate/schema.go:189`), one that is named and not there fails.
`SetRoleInheritances` keeps of its validation only that a role is not its own
parent; the rest is RoleGraph's, and cycles are therefore possible here.

| code | model |
|---|---|
| `Authorize` finds the user (`biz/auth.go:314`) | `Arrive` |
| `QueryRoles` of `EffectivePermissions` | `QueryRoles` |
| `collectRolePermissions`: the visited map | `Skip`, `Loads` |
| its query for the role; those for the permissions and the parents, which `ent` sends one by one | `LoadRole`, `LoadPermissions`, `LoadParents` |
| `hasPermission` | `HasPermission` |
| answer; any error | `Reply`; `Fails`, and `LoadRole` for a role that has gone |

`Granted(G, u, o)` is the definition the walk is held against: in the links `G`
no set of roles that is closed under inheritance and holds the user's can do
without one that gives the operation. `seen` is history: the links since the
request arrived. `stripped` is history too.

### ServiceAccounts

A hash is its token, `rows` the table, `replica` what `ReadEnt` shows. A request
is one of creation, regeneration, update or a call; each statement is a step, and
`Fail` may end a request after any of them.

| code | model |
|---|---|
| insert (`data/service_account.go:28`), read | `CreateServiceAccount`, `AfterInsert` |
| second write of the hash, with the date (`:97`), read | `UpdateServiceAccountToken`, `AfterToken` |
| roles: query of the present ones (`:75`), write (`:83`), read | `ReadExisting`, `Commit`, `AfterCommit` |
| `RegenerateServiceAccountToken` | `RegenerateServiceAccountToken`, `AfterToken` |
| `UpdateServiceAccount` | `UpdateServiceAccount`, then as for the roles |
| `AuthorizeServiceAccount` | `AuthorizeServiceAccount`, `FindByToken`, `Answer` |

A role to add that is there is a duplicate key (`Addable`), so of two updates
that add the same role the second fails; two that add different ones leave both.
`asked` is history: the flag and the roles as last asked for, as long as no write
was decided on a row that had changed since. So is `dead`: when a call arrived,
its token had been handed out and was neither in the table nor in what `ReadEnt`
shows. A regeneration between the insert and the second write of a creation is
undone by that write; the model has it, and neither property speaks of it.

### Settings and TwoFactor

`Settings` is the table of settings under `GetSettings` and
`UpdateSystemSettings`; it has no behaviour of its own and is composed with
`TwoFactor`, whose login reads it. A `call` first reads (`GetSettings`, or
`GetDefaults` when the query fails), fills in the missing defaults through the
loop of `upsertSettings` (`Lookup`, `Store`, `StatementFails`, key after key in
the order of a map), and, if it is an update, goes through the loop again with
its own values.

`TwoFactor` has the user's row, `shown` as `ReadEnt` shows it, and `request`:

| code | model |
|---|---|
| `Setup2FA` | `Setup2FA` (what it reads decides nothing) |
| `Enable2FA`: read and comparison; write | `Enable2FA`; `EnableTOTP` |
| `Disable2FA`, `AdminDisableUser2FA`: read; write | `Disable2FA`; `DisableTOTP` |
| `Login`: user, settings, line 254 | `LoginArrives`, `LoginSettings`, `LoginDecides` |
| `authMiddleware` lets a call through with the token the login gave: an access token, or a pre-auth token, which it does not tell from one (`server/auth.go:135`) | `LetThrough`, `HasToken` |
| `VerifyTOTPLogin` | `VerifyTOTPLogin` |
| anything else that ends a request | `Ends` |

`crossed` marks a row that was enabled by an `EnableTOTP` whose secret had been
replaced or cleared in between; `confirmed`, `on`, `same`, `served` and, in
`Settings`, `doubt` and `asked` are history.

## What is checked

Every run is exhaustive. Deadlock is not checked in any of them: a state in
which no client does anything more is a normal one.

| run | question | result |
|---|---|---|
| `rolegraph_replica` | two concurrent updates, creation and deletion, reads on a lagging replica: is a cycle possible without a stale validation? do edges name roles? does every walk end? | holds |
| `rolegraph_race` | "Role inheritance cannot contain cycles", two writers on one database | violated |
| `sessions_lifecycle` | do ends stick and settle, are sessions in use kept, is the lifecycle kept, for all interleavings? does an overdue session end? | holds |
| `sessions_faults` | do ends stick for two tokens of a user when any statement may fail? | holds |
| `sessions_purge` | "A kicked session immediately returns 401" | violated |
| `hub_pages` | when may a page be told of a session still active, how may it miss an end, is an entry leaked, when statements fail and other instances end sessions too? do notifiers never wait, do signalled sockets close, is the promise of `SessionNotice` kept? | holds |
| `hub_missed` | "receives the event type when the session is terminated" | violated |
| `bootstrap_starts` | does the password that is shown work, where can it be returned again once spent, and what can lock the administrator out? | holds |
| `bootstrap_lockout` | a password replaces an unused one only and is logged, so somebody knows the one in force | violated |
| `authorization_walk` | on which links may a request be allowed or refused, is one change seen whole or not at all, who can take the Admin role from the administrator, and does the walk end? | holds |
| `service_accounts` | does a token that was handed out have its date, is one that has gone refused, does the last update hold? | holds |
| `two_factor` | how can calls be let through without a code, when can two-factor be on with a secret nobody holds, when are the settings not those of one update? | holds |

The four violations are described under `findings` in `PROJECT.json`:

- two concurrent inheritance updates close a cycle (two updates in turn do so
  behind a lagging replica: give `RoleGraph_race.cfg` one writer and
  `ReadReplica = TRUE`);
- a purged record makes its token valid again, kicked or not;
- a socket that registers after its session was ended is never told;
- an instance that starts while the first login goes on at another replaces the
  password between the login's comparison and its update (or after it), finds
  the row used, and neither logs nor keeps the password that is now in force.

More departures from what the repository says are in the model and have no run
of their own:

- `CreateRole` validates as role 0, so a role may be created with its own coming
  id among its parents. The walks keep a visited set, so such a loop does them no
  harm, and the properties of the graph speak of cycles through two roles or
  more.
- Two logins of a user within a second get the same token (`biz/auth.go:472`);
  the second record is refused and the error dropped, so not "every successful
  login creates a `UserSession` record" (`README.md:513`).
- "The admin user must keep the Admin role" (`docs/auth-permission-design.md:14`)
  is `AdminKeepsRole`, and `UpdateUser` breaks it in one step.
  `OnlyUpdateUserStrips` shows that nothing else does, in any order.
- A failing query of the settings counts as their defaults: two-factor is off for
  that login (`NoCodeExplained` excepts it), and the cleanup deletes with
  the default periods.
- A login that is asked for a code holds a pre-auth token meanwhile, and
  `authMiddleware` takes it for an access token until it expires: it has the same
  key, method and `user_id`, nothing looks at `totp_pending` but
  `VerifyTOTPLogin`, and `CheckSession` admits a token without a record. This is
  the other exception of `NoCodeExplained`.
- "After that login, the password is marked used and is never returned again"
  (`docs/auth-permission-design.md:42`) holds unless reads go to a replica: until
  it shows the mark, another instance that still has the plaintext returns it
  (`ReturnedAgainOnlyBehind`).
- `CheckSession` drops the error of `ExpireSession` and notifies
  (`biz/session.go:151`), so the page of a session that is still active may be
  told that it expired. `NoSpuriousSignal` shows that this is the only such case.
- A hub belongs to a process. A page at one instance is not told of a kick or an
  expiry at another, nor of a logout, nor if the statement took effect and
  reported an error.

The passing properties say how far the code can still be relied on.
`CyclesNeedStaleRead` shows that the walk itself is right and that the race is
its only weakness. `MissedSignalsExplained` shows that a page of this instance
misses an end only by registering late, by sharing its session with another
page, or because nobody told its hub, in one of the cases above.
`TerminationSticks` shows that nothing but the purge revives a token, and that a
failing statement lets in only the call whose own query it is. `EndsSettle` shows
that the race of a kick and an expiry is over after `HandlerTime`.
`LockOutNeedsStaleWrite` shows that crashes, restarts, failed statements and a
lagging replica cannot lock the administrator out by themselves: it takes a
write decided on a row that has changed since, and with one instance there is
none (`OneInstanceNeverLocksOut`). `AllowedOnLinksSeen` and
`RefusedForLackOfLinks` bound what an answer put together from several queries
can be, and `AnswersOneState` shows that it takes two changes during one walk for
it to be that of no state. `LastUpdateHolds` and `SettingsAreOfLastUpdate` show
that writes lose each other only if they overlap, and `EnabledIsConfirmed` and
`RefusedIfChanged` the same of a setup that overtakes an enabling. These four
except what an overlap leaves (`Unclear`, `doubt`, `crossed`): they say that the
code is right without one, not what it does with one.

### Bounds

- Role graph: two roles and two writers. Two writers are enough for one to
  invalidate the other's walk; there is no symmetry and no constraint, so walks
  of cyclic graphs are in it, and so is a role deleted under a request. Longer
  chains of inheritance are beyond an exhaustive run with two writers; for them
  the theorems stand, which hold for any set of roles.
- Sessions: one user and one login second suffice for everything between the
  statements of one session; two clients, one administrator and one job put up
  to four statements in flight at once. `sessions_faults` has two clients, tokens
  of two seconds and timeouts of one unit, so that three instants are enough for
  an end, a purge and a call that overlaps both. `MaxTime` lets every session be idle, swept and purged;
  `MaxLogins` bounds logins. A session that becomes overdue does so before the
  clock stops.
- Hub: one session, two sockets that share it and two notifiers, a kick racing a
  sweep or another kick, so that the one place of a channel can be full. That
  sessions do not disturb each other is proved for any number.
- Bootstrap: two instances and four starts let each of them crash and start
  again while the other serves; two requests are a login racing another login, a
  question or a change. The number of generated passwords bounds the starts.
- Authorization: one request at a time and two changes, from every state of the
  tables that the links of `MCAuthorization` allow: a change before and one
  behind the walk, or two during it. Requests do not see each other, so a second
  one would add nothing. Cycles of roles are among the initial states.
- Service accounts: one account, two tokens, one of which expires, two roles, two
  requests. The account may be created once and deleted; the second token is the
  one that replaces the first, or that of the creation with the first never used.
- Two-factor and settings: one user, two keys (`totp_enabled`, which has no
  default row, and one that has), two calls, two secrets, five starts of
  requests: two settings calls or logins overlap at every statement, and a setup,
  an enabling and a reset fit around them.

### Fairness

A goroutine that has started goes on: Go's scheduler runs it and the database
answers. So `Walk` (in `RoleGraph` and in `Authorization`), `Handle` and `Work`
are weakly fair, and the idle job is,
because cron starts it every five minutes. Nothing is assumed of clients (who
may never call, never disconnect), of administrators, or of replication.

### Timing assumption

`HandlerTime` is the longest a handler or job stays in flight, and it is at most
the retention period (`TimingAssumption`): a request takes seconds and the
period is days. Without it, a login suspended for longer than the retention
period could insert its record after a twin's record was purged, and
`KeepsLifecycle` would say so. `NoEarlyExpiry` allows twice `HandlerTime` for a
use whose touch is still on its way.

## What is proved

All proofs are by TLAPS, for every value of the constants that satisfies the
named assumptions (`ProtectedAssumption`, `ReplicaAssumption`,
`TimingAssumption`, `BoundsAssumption`, `FaultsAssumption`, `NoneAssumption`,
`DistinctAssumption`, `AdminAssumption`, `DisjointAssumption`,
`TokenAssumption`, `SettingsAssumption`, `TwoFactorAssumption`).

- `RoleGraphProofs`: `RoleGraphInvariant`, and from it
  `CyclesNeedStaleReadAlways`, `EdgesNameRolesAlways`, `RoleGraphTypeCorrect`.
  `CyclesNeedStaleRead` is not inductive: nothing in it says why a finished walk
  is worth anything. `IInv` adds `CleanWalks`: the visited roles of a clean walk
  have all their parents visited or waiting, and the changed role is not among
  them. When nothing waits, the visited roles contain all their ancestors, and
  `NewParentsCloseNoCycle` turns that into acyclicity after the update. It is
  stated on sets (every non-empty set of roles has a member without another
  parent in it), so that no induction on paths is needed. `WalksEnd` is the
  safety half of `ValidationEnds`, for finitely many roles: `StepsLeft` is a
  number of three digits (wanted parents, roles not visited, roles stacked) that
  every step of a validation lowers and nothing else touches, whatever parents
  the roles are given meanwhile. What it leaves to TLC is that an unfinished
  walk has a step to take and fairness takes it.
- `SessionsProofs`: `SessionsInvariant`, `SessionsTypeCorrect`,
  `TerminationSticksAlways`, `SessionsImplementLifecycle`, `EndsSettleAlways` and
  `NoEarlyExpiryAlways`. The invariant adds that a row is no older than
  its token's second and that a purged one is older than the retention period
  (`RowsByAge`), that nothing is in flight for longer than `HandlerTime`
  (`Punctual`), and that a login in flight was signed at its start: so a login
  can never open a purged record again. The statements are treated at once by
  `NoInsert`, what all but the insert leave of a row. For `EndsSettleAlways` the steps that can
  rewrite an end are a kick's and the job's second statement (`StepKinds`), and
  what they found active in their first had not ended before it; with `Punctual`
  that bounds the time since the end. `NoEarlyExpiryAlways`
  assumes `StatementsAreFast` (no failing statement, and two statements last no
  longer than the idle timeout). Its invariant `EInv` relates the latest use of
  a session to its row: the row lags behind by at most `HandlerTime`, unless a
  touch that was due is in flight (`Fresh`, `Touching`), so a session in use is
  overdue for nobody (`NotOverdue`), and what is about to be expired was idle
  (`Marked`).
- `SessionHubProofs`: `SessionHubInvariant`, `EntriesAreHeldAlways`,
  `NoSpuriousSignalEver`, `MissedSignalsAreExplained`, `HubKeepsNotice`. The
  invariant adds that
  notifiers and channels speak of sessions that have ended or that a check could
  not end, that the entry of an unshared
  session is its open socket's, and that the signal of an end nobody missed is
  in the channel or on its way. For `HubKeepsNotice` every step of the hub is
  mapped to a step of `SessionNotice` or to a stutter; beside `IInv` it needs
  `NInv`: no event waits in, or is under way to, the channel of a socket that
  has yet to register.
- `AdminBootstrapProofs`: `Invariance`, `LockOutsNeedStaleWrites`,
  `LastStartsShowThePassword`, `InitialPasswordReturnsOnlyBehind`. The invariant adds that
  an instance without a plaintext knows the password is spent
  (`MemoryWasAnnounced`), what a start knows of the row between its statements
  (`StartsKnowTheRow`), that a login compared a password somebody knows
  (`RequestsSawTheRow`), and that the flag is never taken back (`UsedForGood`).
  `OneInstanceNeverLocksOut` assumes `Instance = {i}` and adds to the invariant
  that nobody else writes between the statements of a start
  (`StartOwnsTheRow`): `NeverLockedOut`, which two instances violate, then
  holds.

- `AuthorizationProofs`: `AuthorizationInvariant`,
  `AllowedOnLinksSeenAlways`, `RefusedForLackOfLinksAlways`,
  `OnlyUpdateUserStripsAdmin`. The invariant (`WalksKnow`) says of a walk on the
  way what the two properties say of its end: every closed set along the links
  that were there at some time holds the roles it knows, and along those that
  were there all the time it misses nothing that is not still waiting. A change
  only widens the first set of links and narrows the second, so it disturbs
  neither. Reachability is a statement about closed sets of roles, so no
  induction on paths is needed.
- `AuthorizationAnswersProofs`: `WalksAgreeWithOneAlways` and, from it and the
  invariant above, `AnswersOneStateAlways`. One change of the tables either only
  adds or only removes links, and then the two states before and after it are the
  very bounds of `AllowedOnLinksSeen` and `RefusedForLackOfLinks`; or it replaces
  the links of one row to the rows of one table (`ReplacedOne`). In that case the
  walk agrees with the state before (`AgreesWith`) until one of its queries asks
  for those links, and with the state after from then on, because that query
  sees all of them or none, and because the operations of a permission are
  overwritten when they are loaded again (`LoadPermissions`). `WalksAgreeWithOne`
  says so of every step on the way and is inductive together with `IInv`.
  `WalksEnd` is the safety half of `AuthorizationEnds`, as for the role graph,
  with a number of two digits: the roles that may still be loaded, and what is
  left to do for the present one.
- `ServiceAccountsProofs`: `ServiceAccountsInvariant`,
  `HandedTokensKeepTheirDateAlways`, `ReplacedIsRefusedAlways`,
  `LastUpdateHoldsAlways`. The invariant adds that a token has one request that
  may still write it or hand it out and none afterwards (`TokensHaveOneOwner`).
  So no write brings a token back that was handed out and has gone. A creation's
  second write may still undo a regeneration; its own token is handed out after
  that.
- `TwoFactorProofs`: `TwoFactorInvariant`, `SettingsAreOfLastUpdateAlways`,
  `EnabledIsConfirmedAlways`, `NoCodeExplainedAlways`,
  `RefusedIfChangedAlways`. The invariant adds what an update knows of the keys
  nobody else may write (`doubt`) and what a login has read of the user and the
  settings (`LoginKnows`).

Model-checked only: the liveness properties (`ValidationEnds`,
`OverdueSessionsEnd`, `NotifiersFinish`, `SignalledSocketsClose`,
`AuthorizationEnds`), because fairness and ENABLED are outside what the prover
handles; every other property of a passing run is a theorem. There is no
recursion over data in these modules, so nothing is left out for that reason.

## Not modelled

Message formats, validation of input syntax, listing and paging, audit details,
password hashing, signature checks (a token is accepted if some login issued
it), the WebSocket ping and deadline (they only make `Disconnect` happen),
observability, registries, configuration sources, generated code. LDAP and SSO
are external directories and plain storage. The audit log is appended to with
its errors dropped and decides nothing. Modules only group permissions. The
database is taken at its word: one statement, or one transaction of `ent`, is
atomic. Most lines of the repository are generated (`ent`, protobuf); what they
do is modelled at the calls.

## What could follow

1. Sessions composed with the hub: from a kick to the page, one specification
   for both, and the purge under the settings it reads.
2. The watcher of `internal/configsource/etcd.go`, and the small pure functions
   (page normalisation, changed fields of an audit entry) against reference
   definitions.
