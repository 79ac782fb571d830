# TLA+ models of turjmp

turjmp is a bastion host: users of a web UI, or of native SSH, RDP and database
clients, reach target machines ("assets") through proxies that check their
permissions, fetch the target's credentials from an API server, record what
happens and keep a row per session.  This directory holds the TLA+ models of
its concurrent core, the TLC configurations that check them, and proofs of the
properties that matter most.

    tlc -config SSH.cfg MCSSHProxy           # a run: module and cfg are in PROJECT.json
    tlapm ConnectionTokenProofs.tla          # the proofs of a component

Contents: [1 the system](#1-the-system) · [2 modules](#2-modules) ·
[3 runs](#3-runs) · [4 proofs](#4-proofs) · [5 deviations found](#5-where-code-and-documentation-disagree) ·
[6 abstractions](#6-abstractions-and-bounds) · [7 not modelled](#7-not-modelled) · [8 plan](#8-plan)

## 1 The system

One binary (`cmd/turjmp/main.go`) runs one or several roles: the API server and
its database, the SSH proxy, the database proxy and the RDP proxy.  Proxies talk
to the API over HTTP and never touch the database.

| Component | State | Operations | Correct if | Model |
|---|---|---|---|---|
| Connection tokens (`service/tokens.go`) | table `connection_tokens`: expiry, `used_at`, reusable | `Issue`, `VerifyWithOptions` | a one-time token serves one connection; no token serves one that is denied; a token that served nobody stays good | `ConnectionToken` |
| Session records (`service/sessions.go`, `rdp_native.go`) | table `sessions`, audit log, `sessionLimitMu` | `Create`, `Update`, `ForceFinish`, `StartSession`, `FinishSession`, `FinishActiveSessions` | finished stays finished; the native limit holds; each end is logged, once | `SessionStore` |
| SSH proxy and web terminal (`proxy/ssh`) | goroutines per connection, limiter, recording file | `WebTerminal.ServeHTTP`, `handleSession`, `directTCPIPHandler`, `sftpSubsystemHandler`, `watchSessionFinish` | slots balance; sessions get finished; forced sessions are cut; recordings are complete | `SSHProxy` |
| SSH command filter (`proxy/ssh/filter.go`) | rules, a line and an output buffer per shell | `loadCommandRules`, `filteringReader.Read` | exactly the lines that pass reach the target | `CommandFilter` |
| SFTP policy, token extraction | none | pure functions of paths and names | — | no |
| RDP proxy, native engine, C plugin | sockets, child process, plugin's session list | tunnel, start, finish, supervise, stop | sessions end in the API as they end on the wire; no process is left | `RDPProxy` |
| RDP routes and proxy credentials (`service/rdp_native.go`, `rdp_proxy_credentials.go`) | table of derived credentials | resolve, set, disable | nobody gets a target while a condition is false | `NativeLogin` |
| Database proxies, database terminal (`proxy/db`) | per connection: session, watch, cancel registry, pending queries; a child process per terminal | accept, command loop, relay, cancel, terminal | what is taken is given back; statements are audited with their own result; answers are in step | `DBProxy`, `PostgresAudit`, `MySQLWire` |
| Login, refresh tokens, MFA, users (`service/auth.go`, `users.go`) | users, refresh tokens | login, refresh, logout, MFA, update, delete | a revoked login stays revoked; MFA cannot be skipped | `AuthTokens` |
| Asset permissions, assets, accounts (`service/assets.go`, `repository/store.go`) | their tables and four join tables | create, update, delete, `HasAssetPermission` | a permission is what was asked; grants grow by edits only | `AssetGrants` |
| Roles and policies (casbin) | roles, rules in a table and in memory | create, rename, delete, set permissions, start | memory and table agree; a change is done or undone | `RolePolicies` |
| Settings (`service/settings.go`) | table of settings, masked secrets | list, update, bootstrap | a value changes as somebody asked | `Settings` |
| SSH host keys (`service/host_keys.go`) | table | ensure, list | one key per algorithm | `HostKeys` |
| Process roles (`cmd/turjmp/main.go`) | servers | start, stop in order | nobody needs what was stopped before | in `RDPProxy` |
| Schema and bootstrap | migrations, seed data | migrate, seed | a start cut off anywhere is completed by the next | in `RolePolicies`, `Settings` |
| HTTP middleware, session stream; recording storage; configuration, crypto, health, logging, SDK links; web UI | | | | no (section 7) |

**How they interact.**  The web UI calls `Issue` and hands the token to a
terminal's WebSocket or a native client's user name.  The proxy verifies it
(`POST /proxy/tokens/verify`), gets address and secret, dials the target, creates
a session row, bridges and records, and finishes the row with the recording's
path.  Administrators deactivate or delete users, assets and accounts, change
permissions, and force-finish rows; the SSH and database proxies notice the last
by polling the row every two seconds.  A database terminal has no protocol of its
own: it starts `usql` and has it connect to the database proxy like any client.
Native RDP has no token: the plugin sends the user's name (a route: user, asset,
account) and proxy password to be resolved, asks for a start, which counts the
active rows under a mutex, and for a finish; when the proxy stops, it asks the API
to finish what is left.  With `--all` everything is one process, and the API is
shut down first.

**What is hard.**  Few services use a transaction across their statements, and the
pool has 25 connections, so requests interleave between any two SQL statements,
also with administrators; sessions, users, assets, accounts, permissions and
settings are written back as whole rows read before.  A handler of the SSH proxy
is up to five goroutines with deferred cleanup in many early exits, two contexts
(one cancelled with the client, one never), and several closers of the same
connection.  Requests between proxy and API may fail, or succeed with a lost
answer.  casbin's memory and its table are changed one after the other, and the
undoing of a failed rename is itself a chain of calls that may fail.  Two
goroutines stop the RDP proxy, neither waiting for the other.  `PROJECT.json`,
"hazards", lists 40 of these at the line where they bite, each with the property
that would notice it going wrong; where that property names the hazard as its
exception, a note says so.


## 2 Modules

| Module | Models | Uses |
|---|---|---|
| `OneTimeToken` | the promise of a token service, abstractly: minted, redeemed once, withdrawn for good | |
| `ConnectionToken` | `TokenService`, statement by statement | refines `OneTimeToken` |
| `AssetGrants` | assets, accounts, permissions with their links, and who may use what | decides `ConnectionToken`'s `connect` |
| `AuthTokens` | logins, refresh tokens, MFA, user rows | refines `OneTimeToken` |
| `NativeLogin` | resolving a native RDP login, proxy passwords | |
| `HostKeys`, `Settings` | two small tables that several processes fill at their start | |
| `RolePolicies` | roles, casbin's two copies of the rules, the first start | |
| `SessionStore` | session rows, the native limit, the audit lines | |
| `SSHProxy` | the four handlers of the SSH proxy | its `row` is a row of `SessionStore` |
| `RDPProxy` | RDP proxy, engine, plugin, and the stop of the process | its `row` is a row of `SessionStore` |
| `DBProxy` | the database proxies and the database terminal | its `row` is a row of `SessionStore` |
| `PostgresAudit` | the audit of a PostgreSQL connection: both copying directions, queue and maps | inside `DBProxy`'s relay |
| `MySQLWire` | the packets between the MySQL proxy and its client | inside `DBProxy`'s command loop |
| `CommandFilter` | the filter between a shell's keystrokes and its target | inside `SSHProxy`'s shell |
| `ConnectionGrants` | the two modules that decide about connections, side by side | `ConnectionToken`, an instance of `AssetGrants` |
| `ApiServer` | the parts of the API server that share no state, side by side | `AuthTokens`, instances of `NativeLogin`, `HostKeys`, `Settings` |
| `DBStreams` | what the database proxies write, side by side | `PostgresAudit`, an instance of `MySQLWire` |
| `SSHStreams` | what the SSH proxy hands to a shell's target | an instance of `CommandFilter` |
| `...Proofs` | theorems: `ConnectionTokenProofs` (of `ConnectionGrants`), `ApiServerProofs`, `RolePoliciesProofs`, `SessionStoreProofs`, `SSHProxyProofs` (of `SSHProxy` and `SSHStreams`), `RDPProxyProofs`, `DBProxyProofs`, `PostgresAuditProofs` (of `DBStreams`) | TLAPS |
| `MC...` | sets, groups and symmetries for TLC; `MCConnectionToken`, `MCAuthTokens` and `MCStreams` run the instances side by side | |

Definitions named `Mutant...` in a module are not part of the specification: each
is a plausible error in the definition after it, kept to show that a property
notices it (`PROJECT.json`, "mutants").

Common conventions.  A *worker* is a goroutine of the API server, and `pc` names
its next SQL statement; each statement whose answer or effect matters is an action,
whose guard is the code's early return.  A proxy's handler has a `pc` too, and a
request of it to the API is one step: what its statements may interleave with is
the subject of the module of that service.  Variables commented `history` do not
exist in the code and influence no action: they remember what a property is about.

### ConnectionToken

`Issue` reads the asset, the account and the permission, and inserts;
`VerifyWithOptions` loads the row, reads user, asset, account and permission,
resolves the target (port, decryptions: may fail) and, for a one-time token that
is to be consumed, runs the conditional `UPDATE ... WHERE used_at IS NULL ...
RETURNING`.  `SetActive`, `Delete` (with what `ON DELETE CASCADE` takes along) and
`ChangePermission` are the administrators; `Tick` is the clock.

`held` is a history: which conditions were true at some moment of the request.
It makes the honest form of the authorisation property sayable: the seven checks
are not atomic, so "all conditions hold when the secret is returned" is false, and
what the code does give is that each held at some moment *during* the request
(`NoGrantWhileDenied`).  The condition `protocol` is that an expected protocol,
if given, equals the token's after both were canonicalised.

The load tests `now > expires_at` and the consuming update `expires_at > now`:
on the boundary a verification passes the first and fails the second.
`SpentIffServed` has the strict bound; the mutant with `>=` breaks it.

### AssetGrants

The tables behind `HasAssetPermission`: assets hang below nodes, accounts below
assets, and a permission has links to users, groups, assets, nodes and accounts,
days between which it is good, and actions.  `CreatePermission` and
`UpdatePermission` insert or replace the row and all five kinds of links in one
transaction, which a missing entity rolls back; `UpdateAsset` and `UpdateAccount`
read the row, revise it and write all of it with a later statement, so that two
overlap; deletions cascade.  `Granted(user, account)` is the query, joins and all:
no accounts named means every account, no actions means "connect".
`GrantsGrowByEdit` relates it to what was done: grants may grow by an edit of the
permission, a new account, a move of the asset, or the clock, and in one way
nobody asked for: when the last account a permission names is deleted.

### AuthTokens

`Login` finds the user, reads the MFA setting and, if the login may have roles,
stores a refresh token; `Refresh` revokes the presented token with a conditional
update before it reads the user and stores the next one; `Logout` and a
deactivation revoke all of a user's tokens; `SetupMFA`, `VerifyMFA` and
`Users.Update` read the row, change a field and write the whole row.  A statement
may fail, which ends the request where it is; a crash is that for every worker.  One
failure ends nothing: `settingBool` turns a reading of `security.mfa_required` that
failed into `false`, so `ReadMFASetting` then goes on to full roles.  `full` are the
workers that will sign roles, and `unread` those of them that could not read the
setting: the exception of `RolesNeedMFA`.

`family` numbers logins and is inherited by rotation, so "this login has ended"
can be said of a chain of tokens.  `ended` are the logins ended by a logout or a
deactivation, and `spared` those of them that had a request past its checks at
that moment: the code has a window there, and `EndedIsOver` says that nothing else
survives.  `stale` are the workers whose row was written by another since they
read it: `OnlyOvertakenUndo` says that a column changes only by a request about it
or by one of those.  `lost` are users whose deactivation stored the flag but whose
revocation failed.  The refinement maps a row of `refresh_tokens` to a token of
`OneTimeToken`: storing mints it, rotation redeems it, revoking and deleting
withdraw it.

### NativeLogin, HostKeys, Settings

`NativeLogin` reads user, asset, account, credential and permission with five
statements, and `held` is the same history as in `ConnectionToken`.  Users set and
disable proxy passwords, administrators change everything a route leads to.

`HostKeys` has the requests of API clients and of starting SSH proxies: look a key
up, generate, insert, next algorithm, list.  PostgreSQL takes an id from the
sequence before the row can be seen, so rows may become visible out of order;
`mine` is the id a worker took.  A proxy keeps what it was `offered` until it
restarts.

`Settings` has updates of one key and the defaults every starting API process
stores, each a look and a later write of the whole row.  A value is a default,
what somebody typed, sealed or not, or the mask; `ValueKept` says what a stored
one may change to.

### RolePolicies

Every request is the chain of casbin calls the handler makes, every call at least
two steps: the adapter's statement, then the enforcer's memory; `SavePolicy`
deletes and rewrites the table in one transaction.  A rename reads the old
policies, renames the row, then the rules; when one of these fails,
`restoreRolePolicies` removes, adds back, saves and renames the row back, and each
of these may fail too.  `Start` is `BootstrapDefaults`: roles, administrator, its
role, policies, statement by statement, with a `Restart` between any two.

The administrator is whoever is called `admin`, for that is what `ensureAdmin` looks
for; `held` are the roles of that user.  `SetUserRoles` replaces them, in one
transaction; `RenameAdmin` and `NameAdmin` take the name away and give it to another
user (the first user cannot be deleted, but can be renamed).  `withdrawn` remembers
that a request took the super role, from the user or by renaming or deleting the
role; `AdminIsSuper` says that nothing else does.

### SessionStore

`ProxyUpdateSession` and `ForceFinishSession` share `SessionService.Update`: read
the row, compute `Finishing`, write `is_finished`, `date_end` and `recording_path`
back.  `sess` is the row between the two, `stale` the workers whose row was written
meanwhile.  `StartSession` takes `sessionLimitMu`, counts and inserts (two actions:
PostgreSQL counts in the snapshot taken when the statement starts), and writes its
audit line.  `FinishSession` reads the row, refuses what is not native RDP,
finishes with `UPDATE ... WHERE is_finished = false`, and writes its audit line
only if that hit.  `FinishActiveSessions` runs it over a list, stopping at the
first error.  `StatementFails` is an SQL error (the handler returns), `AuditFails`
one in the audit log (ignored by the code), `Crash` stops the API server between
any two statements; all record in `dropped` what was never executed.

### SSHProxy and CommandFilter

A connection belongs to one of four handlers, and `pc` names the next call of the
handler: `acquire` slot, `dial`, `create` session, `record`, `open` the stream,
`bridge`, then the deferred calls, last one first: `drain`, `cleanup` (close the
recording), `finish` (tell the API), `close` the target, `release` the slot.
Beside the handler run the goroutines that copy (`Output`/`CopyOutput`,
`TunnelCloses`, `InputEnds`) and the watch (`WatchCloses`).  What distinguishes
the four handlers is what the code distinguishes:

* sftp takes no slot; a tunnel and sftp carry on if no session could be created;
* the web terminal gives up without a recording, the shell goes on without;
* the web terminal waits for its copying goroutines, the shell does not;
* the tunnel returns as soon as it has started its goroutines;
* an SSH connection's context is cancelled when the client leaves, a hijacked
  HTTP request's is not; only the shell sends its last request with that context.

Requests to the API may fail, with or without effect (`CreateSession`).  A second
limiter serves the web terminal: each constructor makes a dialer of its own.

`CommandFilter` is the reader a shell's input goes through: `Arrive` takes bytes in
pieces cut anywhere, a fold over the bytes, and judges each line that ends in one of them by the rules
compiled from the API's answer (a rule with an empty pattern or one that does not
compile is dropped); `Hand` gives what passed to the copying goroutine, through a
buffer smaller than a line.

### RDPProxy

`at` has the two goroutines that stop the proxy: `Server.Start`, which launches the
engine, serves, and leaves when the context ends or the engine or the listener
fails; and main, which leaves on a signal or an error, stops the API first if that
runs in the same process (`together`), and then calls `Server.Stop`.  Both run
`stopNativeEngine`: take the handle, tell the API to finish the active native
sessions, terminate, wait or kill.  When main has returned, no goroutine of the
process moves any more (`~Exited` in the guards), while the engine, a child
process, goes on if nobody killed it.

A web connection is `connect` and `sessionTunnel`: slot, token, session, recording
directory and guacd, open, `Close` behind a `sync.Once`.  A native one is what the
plugin asks for: a start that may be answered or not, and a finish that is marked
before it is posted and posted once.

### DBProxy, PostgresAudit, MySQLWire

`DBProxy` has the life of a connection: slot, token, session, dial, the watch for a
forced end, the registry entry a CancelRequest is forwarded by, and the deferred
calls.  A MySQL command is asked, run by the database, replied and audited, in that
order, and each can fail; a blank query is answered as a success and not run.  Before
the first command the handler itself runs the `USE` of the login (`UseDatabase`).
`missed`, pairs of a client and a kind of statement, and `lied` compare the lines with
what happened.
`TermStep` is `ServeHTTP` of the database terminal with the `usql` process it runs,
which connects as one of the clients (`UsqlOf`), with the same token.

`PostgresAudit` is one connection after its set-up.  `copyFrontendToTarget` shows
each message of the client to `observeFrontend` and forwards it: the `Forward...`
actions, which keep the texts of statements and portals (`prepared`, `portals`) and
queue an event for a Query or an Execute (`pending`).  `copyTargetToFrontend` gives
an answer to the client (`Deliver`) and only then to the audit (`Observe`), so the
client may send its next message between the two.  `FinishNext` takes the head of
the queue with a completion or an error, `FlushPending` everything with
ReadyForQuery; `log` are the lines written to the session's audit log.  `Hangup`
ends the relay at any moment.  `finishNext` releases the lock before it posts the
line; only the goroutine that runs it writes lines, so the two are one step.

The client is any program that speaks the protocol, in turns or pipelining.  The
server is not part of the repository: the `Serve...` actions are what PostgreSQL
does as far as the audit can tell, with names in use, portals dropped at the end of
a transaction and everything skipped from an error to the next Sync.

`outcome` and `executed` are histories of what really happened, against which the
log is compared.  Two more say which comparisons are fair: `regular` is false while
answers and events cannot match one to one (a Query without or with several
statements, an Execute without a completion, a completed Execute without an event,
an event begun before the last ReadyForQuery was seen), and true again once the connection was quiet, so that
`AuditIsTrue` also says that the audit recovers; `diverged` is true once the server
refused to replace or close a statement that it has.

`MySQLWire` has the packets with their eight-bit numbers and the client's reading
of them, which is the protocol's and so external: OK, error, or the count of
columns, definitions, EOF, rows, EOF.  The number wraps in a long result, the
column count takes three bytes from 251 on, and the deadline of the connection is
renewed before a command is read and not before its answer is written.  What the
code gets wrong is remembered in `spoiled` and `silent`, with the cause in the
comment of `AnswersInStep`; everything else is understood.


## 3 Runs

Every property has a mutant of the code that breaks it under the same
configuration.  Some runs check several components that share nothing: `MC` modules
hold instances of them, and a variable `part` chooses, in the initial state, the one
that runs while the others stay in theirs.  This loses no behaviour of any of them.
A `CONSTRAINT` lists the *regimes* of a run: combinations of the bounds of which each
alone is small enough.  TLC does not go on from a state outside all of them, so the
safety properties hold of every behaviour until it leaves the regimes, and the
liveness properties of the behaviours that stay in one.  Where two workers or
connections are alike, a constraint may also say which of them is first: what is left
out is a behaviour of the run with their names exchanged.

| Run (cfg) | Checks | Instance | Distinct states |
|---|---|---|---|
| `token` (`Token`) | `ConnectionToken`: `SpentIffServed`, `NoGrantWhileDenied`, `ImplementsPromise`; `AssetGrants`: `LinkedAsAsked`, `GrantsGrowByEdit`, `RevertNeedsOverlap` | two workers for one token, with 2 administrator steps, or 1 and 3 instants (`Race`); or one worker and every request, over 2 assets and the protocol's spellings, with 1 step or a second token (`OneByOne`); or 2 administrators, 2 assets, 3 accounts, a permission, 3 requests | 352 586 |
| `auth` (`Auth`) | `AuthTokens`: `EndedIsOver`, `MFAHolds`, `OnlyOvertakenUndo`, `ImplementsOneTime`; `NativeLogin`: `NoTargetWhileDenied`; `HostKeys`: `OneFingerprint`; `Settings`: `ValueKept` | 2 workers, 1 user, with 1 login, 2 refresh tokens and 1 MFA secret, or with a second secret or a password change and no login; 2 proxy passwords and 3 changes; 2 algorithms, 2 proxies, 4 requests; 2 settings, 4 requests | 564 369 |
| `roles` (`Roles`) | `RolePolicies`: `QuietIsSettled`, `AdminIsSuper`, `DoneOrUndone`, `StartsAndEnds` | 2 workers, 2 names, 2 permissions, 4 role rows, 2 requests: one after the other with 2 failures or restarts, at once with none, or at once with 1 for a few policies; the administrator's name and roles change beside single requests, with up to 1 failure; fair | 227 688 |
| `sessions` (`Sessions`) | `SessionStore`: `NativeLimit`, `CompletedOnce`, `EventsAreLogged`, `FinishedForGood`, `LossNeedsOverlap`, `CleanupDrains` | 2 workers: 1 session, a clock and 1 failure or crash; 2 sessions of either kind; 3 native ones under a limit of 2; or 2 native ones and 1 failure or crash; fair | 191 340 |
| `ssh` (`SSH`) | `SSHProxy`: `SlotsBalanced`, `EndedIsFinished`, `WebRecordingComplete`, `EndsReachTarget` | 2 web terminals, 2 shells, a shell and a tunnel, or a web terminal and sftp; 1 slot, 1 failure; fair | 53 093 |
| `rdp` (`RDP`) | `RDPProxy`: `Settled`, `OrphanNeedsRace`, `ComesDown` | 2 web connections for 1 slot, or 1 beside a native one; any request may be lost; the API inside or outside; fair | 182 245 |
| `db` (`DB`) | `DBProxy`: `NothingLeft`, `FinishedUnlessFailed`, `AuditIsHonest`, `EndsReachTarget` | 2 clients and a terminal for one token and slot, for either database; a client and a CancelRequest; 2 terminals; 1 failure where no more than 2 have come; the `USE` of a login where no more than 1 has; fair | 147 262 |
| `pg_audit` (`PgAudit`) | `PostgresAudit`: `AuditedInOrder`, `QuietIsSettled`, `AuditIsTrue`, `ExecutedIsRecorded`; `MySQLWire`: `AnswersInStep`; `CommandFilter`: `FilteredAsWhole` | 3 messages of 13 kinds, 2 under way, 2 statement names, 2 portals, 1 line lost or a hang-up, or 4 messages without either; 2 commands, 0, 1 or 251 columns, 4 rows; 7 rules, 5 bytes of 6 kinds, a buffer of 2 | 1 095 851 |
| `recording_loss`, `ssh_limit`, `ssh_shell_finish`, `pg_prompt` | one property each | those of the passing runs or smaller | violations, section 5 |

What each shows is in `PROJECT.json`, "about"; each property is stated in words where
it is defined.  Each passes in a minute or a minute and a half on two processors.  The type invariants are theorems, but for those of `MySQLWire` and
`CommandFilter`, which TLC checked while the modules were written.

**Why the bounds are enough.**  A race for a token, a row, the limit or a slot
needs two contenders; a third repeats one of them.  One token per race suffices
because rows of different tokens share nothing but their user, asset and account;
`OneByOne` has two, so that a mix-up would show.  The clock needs an instant
before, on and after the expiry.  Two administrator steps allow a withdrawal and
a restoration inside one request; neither needs the clock, and what the clock does to a
request does not depend on a second step.  One login with two refresh tokens is a rotation
overtaken by anything; two secrets are an MFA set-up overtaken by another, and a
password change one that may be overtaken by it; a login reads the row they leave
whichever it was.  Three
changes can set, disable and set again a proxy password during a login.  A rename
needs two names; with two more role rows a name can be deleted and made
anew, by a request and by a restart.  One failure anywhere, or one crash, covers each
exit of each handler; a second one would only hit a handler that is returning
anyway, or the other worker.  Only the undoing of a rename begins with a failure
and may fail itself, so `roles` has two.  Three sessions are there for the limit, so all
of them are native.  For PostgreSQL, four messages (three where a line is lost or the relay ends) are enough to prepare, bind,
replace or close, and execute, or to have a query out of step, a quiet moment, and
two queries in step; two under way on the wire and any number of answers let the
queue hold all of their events.  A MySQL result of 251 columns and 4 rows has more
than 256 packets.  Five bytes hold two lines with a rule's word in one of them, cut
at every place.  Unused connections stay idle for ever, so the groups of `ssh` and
`db` are instances of their own.  Where proofs exist (section 4) the bounds do not
matter.

**Symmetry** is used for workers and tokens in `token` and workers in `auth`, runs
without liveness properties; the action and refinement properties there treat all
workers and tokens alike.

**Fairness.**  `SessionStore`, `RolePolicies`: weak fairness per worker of the
statements of a request it has begun, and of a start that has begun: goroutines are
scheduled and the database answers; no request ever has to be sent.  A holder of
the mutex always goes on, so weak fairness is enough for `LockLimit`.  `SSHProxy`,
`DBProxy`: weak fairness of a handler's own next call, of its copying goroutines and
of the poll of its watch (a ticker).  `RDPProxy`: of both stoppers and of a web
connection's own steps; each waits with a timeout.  Users, targets, engines, signals
and administrators never have to do anything: a session without traffic may last
forever, and the liveness properties are about what follows once somebody did
something.  `PostgresAudit`, `AuthTokens` and the modules checked beside them and
beside `ConnectionToken` have safety properties only and need no fairness.

**Deadlock** is checked in `sessions` and `ssh` (`SSHProxy` has a stuttering disjunct
for the state in which all connections are idle or done, so that any other stop is
reported) and in three of the violation runs.  In the others the system really
stops: its bounded requests are used up, its process has exited, or the connection
has ended.


## 4 Proofs

Checked by TLAPS for all values of the constants; assumptions are the named
`ASSUME`s of the modules (sets of entities disjoint, accounts have an asset,
`NoRow` is not a row, bounds are numbers, limits and buffers are positive, inputs are of the
type their request has, the algorithms of host keys are numbered, a result set has
fewer columns than two bytes can count; MySQL allows 4096).  A run that checks the
property in the last column checks an instance of the same definition; the
modules that stand side by side share no variables, so a theorem about one is a
theorem about its `Spec`.

| Theorem | Module | Establishes |
|---|---|---|
| `TypeCorrect` | all eight | `[]TypeOK` of the first component named |
| `SingleGrant` | `ConnectionTokenProofs` | `[]AtMostOneGrant` |
| `SpentExactlyWhenServed` |  | `[]SpentIffServed` |
| `DenialIsFinal` |  | `[]NoGrantWhileDenied` |
| `Implementation` |  | `ImplementsPromise`: refinement of `OneTimeToken` |
| `GrantsTypeCorrect` |  | `[]TypeOK` of `AssetGrants` |
| `PermissionsAreWhole` |  | `[]LinkedAsAsked` |
| `GrantsWidenByEdit` |  | `GrantsGrowByEdit`, an action property |
| `RevertsAreOvertaken` |  | `RevertNeedsOverlap`, an action property |
| `EndedForGood` | `ApiServerProofs` | `[]EndedIsOver` |
| `MFAIsHeld` |  | `[]MFAHolds` |
| `OvertakenOnly` |  | `OnlyOvertakenUndo`, an action property |
| `Implementation` |  | `ImplementsOneTime`: refinement of `OneTimeToken` |
| `NativeTypeCorrect`, `HostTypeCorrect`, `SettingsTypeCorrect` |  | `[]TypeOK` of `NativeLogin`, `HostKeys`, `Settings` |
| `LoginWasAllowed` |  | `[]NoTargetWhileDenied` |
| `OneKeyIsShown` |  | `[]OneFingerprint` |
| `SettingsAreKept` |  | `ValueKept`, an action property |
| `AdministratorHasRole` | `RolePoliciesProofs` | `[]AdminIsSuper` |
| `RequestsEndWhole` |  | `DoneOrUndone`, an action property |
| `QuietSettles` |  | `[]QuietIsSettled` |
| `StartIsComplete` |  | `StartsComplete`, part of `StartsAndEnds` |
| `NoCircles` |  | `RequestsAdvance`, an action property, part of `StartsAndEnds` |
| `LimitRespected` | `SessionStoreProofs` | `[]NativeLimit` |
| `CompletionLoggedOnce` |  | `[]CompletedOnce` |
| `EndMatchesFlag` |  | `[]EndIffFinished` |
| `NeverRevived` |  | `FinishedForGood`, an action property |
| `LossIsOverlap` |  | `LossNeedsOverlap`, an action property |
| `NoSilentSession` |  | `[]EventsAreLogged` |
| `ListIsWorkedOff` |  | `ListIsKept`, an action property, part of `CleanupDrains` |
| `SlotsReturned` | `SSHProxyProofs` | `[]SlotsBalanced` |
| `TerminalsBounded` |  | `[]TerminalsLimited` |
| `SessionsEnd` |  | `[]EndedIsFinished` |
| `RecordingComplete` |  | `[]WebRecordingComplete` |
| `EndNoticed` |  | `[]EndIsNoticed`, part of `EndsReachTarget` |
| `LinesAreFiltered` |  | `[]FilteredAsWhole` of `CommandFilter` |
| `SettledAtTheEnd` | `RDPProxyProofs` | `[]Settled` |
| `OrphansNeedTheRace` |  | `[]OrphanNeedsRace` |
| `AllGivenBack` | `DBProxyProofs` | `[]NothingLeft` |
| `SessionsEnd` |  | `[]FinishedUnlessFailed` |
| `AuditHonest` |  | `[]AuditIsHonest` |
| `EndNoticed` |  | `[]EndIsNoticed`, part of `EndsReachTarget` |
| `AuditedOnceInOrder` | `PostgresAuditProofs` | `[]AuditedInOrder` |
| `Settled` |  | `[]QuietIsSettled` |
| `AuditedTruly` |  | `[]AuditIsTrue` |
| `ExecutedRecorded` |  | `[]ExecutedIsRecorded` |
| `ClientUnderstands` |  | `[]AnswersInStep` of `MySQLWire` |

**Connection tokens.**  `AtMostOneGrant` is not inductive: a state in which a spent
token's row says unused satisfies it and the next step breaks it.  `IInv` adds
`Ledger` (row, mint and grants of a token agree: `used_at` set iff granted, before
expiry) and `WorkerOK` (what a worker holds at each statement; `tok[w].reusable`
agrees with how the token was minted, so the branch that skips the update is taken
for reusable tokens only).  `NoGrantWhileDenied` needs `HeldOK`: a worker at the
k-th statement has seen the first k conditions hold.  The refinement maps a
token's row and mint to the abstract state; the insert is `Mint`, the conditional
update `Redeem`, a cascading delete `Withdraw`, and a lemma shows the rest
stutters.

**Permissions.**  The inductive `GrantsInv`: rows are typed (`RowsTyped`), a worker
between read and write holds a row of the asset or account its request is about
(`WorkersTyped`), what exists was given its id (`IdsGiven`), and `Linked`: each of the
five kinds of links is what was last asked for, cut down to what still lives.  The
last one needs to know what no step does, whichever it is, and two step facts say so:
deleted users, assets and accounts never return (`NothingReturns`), and only an
update changes an account's row (`AccountsKept`).  `GrantsGrowByEdit` goes through
the joins of `Granted` one by one: with none of the named causes, each of them can
only have lost rows.

**Refresh tokens and users.**  `TypeOK` itself is not inductive, because it does not
say that a worker about to store or write has something to store: `Typed` adds what a
worker holds at each statement (`WorkerOK`), that a worker about to rotate descends
from the login of the token it was given (`RotatesOwn`), and that tokens are stored
in order and descend from logins that have begun (`TokenOK`).

* `EndedForGood`.  Why does revoking *all* of a user's tokens end each login of
  that user?  Because a login belongs to one user: `OneOwner` says it of every two
  things that carry the same `family`, tokens in the table and workers past their
  rotation alike, and follows from a `Trace` of what each carries.  `LeftIsSpared`
  and `InactiveIsSpared` then say that a live token of an ended login, or of an
  inactive user, or a worker about to store one, is among the exceptions that
  `EndedIsOver` names.  Most steps change nothing a trace can see; lemmas named
  `...From` reduce them to that.
* `MFAIsHeld`.  `WorkerMFA`: a worker that will sign roles saw MFA on or not
  required, or is in `unread`, and a row about to be written has MFA on only with a secret that a valid
  code was shown for.  `SecretWasProved` is the table's part of the same.
* `OvertakenOnly`.  `Fresh`: the row a worker will write back equals the stored one
  but for the columns its request means to change, unless the worker is in `stale`.
* `Implementation`.  `Ledger`: a token was exchanged at most once, and not while it
  is live or unissued.  Storing is `Mint`, the conditional update
  `Redeem`; revoking or deleting several rows at once withdraws a set.

**Native logins.**  `Asked`: what a worker was asked fits the handler it runs;
`Checked`: past a statement, what the statement tested is in `held`.

**Host keys.**  `KeysBehind`: a worker has seen a key of every algorithm it is past.
`OnlyKey`: of an algorithm that no two first requests found without a key, one worker
at a time makes one, there is none until then, and users were shown no other.  That
`List` shows the newest of the keys it finds needs a least and a greatest element of
a set of numbers; these come from the well-founded order of the naturals.

**Settings.**  `LookedUp`: the row a worker is about to insert over or to write back is
what it read, unless the worker is in `overtaken`, the set of those whose key was
written meanwhile.

**Roles.**  `Typed` adds to the types what each worker holds at each of its calls, and
what a start has done by its phase.  `AdminOK` excepts exactly the place between the
two statements that make the administrator and give the role.  For what comes later
it needs `KeepsSuper`: the administrator has a row that is called by the super role's
name *and* that every request about it will call so again if it has to undo a rename;
without the second half a request that read another name before the start of all this
could take the role away and `withdrawn` not know.  `AgreeOK`: while
nothing failed beside another request, table and memory differ by no more than the
statement a lone worker is at (`Apart`).  For `DoneOrUndone`, `AloneDoes` follows a
request that nothing ran beside through all its calls: `Doing` says of each call
which rules memory has, which are still to be added, and that together they are the
old ones of all other roles and the new ones of its own; `Undoing` says it of the way
back after one failure.  `NamesOK`: whoever has a rule is a role, or a name of a
request that is under way, failed, was overlapped, or was cut off by a restart.
`RequestsAdvance` needs no invariant but `Typed`: `Stage` numbers the calls of a
request, those of the undoing after all the others, and no call that succeeds or fails
goes back to an earlier one, whichever rules the others leave in memory.

**Sessions.**  `TableOK`: ids are given out consecutively, and a row has an end
iff finished.  `WorkerOK`: a row about to be written back is a finished one with
an end (this is why a stale write never revives a session), targets exist, and
a worker between count and insert holds the mutex.  `CompletionOK`: at most one
worker per session is between the update that hit and its audit line, and no line
exists yet.  For the limit, `LimitInv` adds that a worker whose count was below
the limit still sees it below: only the holder of the mutex inserts native rows,
and rows only leave the set of active ones.  For
`LossNeedsOverlap`, `Fresh`: a row about to be written back keeps the stored end and
recording, unless its worker is in `stale`, which every write of a row sees to.
`EventsAreLogged` needs only that a worker at the statement of a plain update is
about a web session (`WebOnly`): whoever ends a native one has a line to write, and
a worker keeps that duty until it `Settles` it, by the line or by its loss.
`ListIsKept` rests on `ListInv`: what the cleanup lists, or has in hand, is a native
session, so that `FinishSession` never refuses one of them and thereby gives up those
after it.  `GoesOn`: only one worker moves, and its list does not grow; `ListKept`: what
leaves the list is in hand, finished, or recorded as lost.

**SSH.**  Only what the handlers share is a sum: `SlotsInv` says that a limiter's
count is the cardinality of the handlers that hold one of its slots, and that
these are finitely many, so that the argument needs no bound on connections.
Everything else is one connection at a time.  `PlaceOK`: which handler can be at
which call.  `EndOK`: a session is known from its creation on, and if its row is
still active once the finishing update was sent, there is a reason (the request
failed, or a shell's client was gone).  `WebOK`: output still to be copied means
that the recording is open and the handler has not got past the wait for its
goroutines; nothing was lost so far.  `EndIsNoticed` is proved on top of these: a watch
begins with the stream it is about and ends only with a stream, with its connection's
client (whose handler then knows by itself), or at its own end.

**Command filter.**  `FilteredAsWhole` compares a fold over the bytes of each chunk with
lines and verdicts computed from all the bytes at once.  What the fold computes is not
proved by an induction theorem, which would need an operator as its parameter; all
inductions are arguments by the least counterexample (`LeastNatural`, from the
well-founded order of the naturals), for the one predicate at hand.  The fold is the
community modules' `FoldLeft`, a recursive function under its definition: `FoldingExists`
shows that there is such a function and `FoldSteps` what it is at each byte.
`BeginFacts` says where lines begin when a byte is added, `ListsGrow` that a list of a
function's values grows at its end; with these, `OneByteMore` shows that collecting one
byte leaves `Filtered` true of the text with that byte, and `ChunkGood` that a chunk
does.  `Filtered` is the property as a relation between the text typed and what was made
of it.  The lemmas about verdicts (`VerdictsStay`) need that the rules do not change.

**RDP.**  The slots are again a sum, over `Busy`.  `WebOK`: a web connection's session
is written once it has its slot, and active after its closing only if a request was
lost.  `NativeOK`: once main's cleanup is over and the API is another process, an
active native session was started after it (`late`) or lost.  `EngineOK` says of
every place at which `Server.Start` can be who is to stop a running engine: nobody
while it is launched, then whoever takes the handle; main may have it from then on
until it has waited for the engine (`MainHas`).  `OrphanNeedsRace` is what is left of
that when main has returned.

**Databases.**  Three limiters, so a sum for each: `Users(l)` are the connections or
terminals that hold one of its slots.  `ClientOK`: at which points a connection has
a target, a watch, a registry entry and a row, which makes `NothingLeft` a matter of
the points after the deferred calls.  `TermOK` is the same of a terminal and its
process.  `CmdOK`: a statement about to be answered as a success has run, unless it
is a blank query, and one about to be audited as a success was answered too; without
it `AuditIsHonest` would not survive the step that writes the line.  `EndIsNoticed` has an invariant of its own:
`WatchedOK` for the clients, by the points between the creation of the session and the
first deferred call that ends the watch; `UsqlOK` for the terminals, which ties the
process to its connection: none was made before the process ran, and the connection is
gone once it is dead.

**Audit.**  Neither property is inductive, since neither says where messages and
events come from.  `WireOK`: everything under way, in either direction or in hand,
answers a message that was sent, and a ReadyForQuery one not newer than `asked`.
`EventsOK`: events, queued or logged, belong to messages that were sent, so that a
new event is newer than all of them.  When a ReadyForQuery has been seen, either
its number is `sent` and the flush has emptied the queue, or `answered` is still
behind; a new event always moves `sent` ahead of `answered`.  The lemma `Writing`
is about `Write` alone: moving the first events of the queue to the log keeps both
in order, whatever the API fails to write; `finishNext` and `flushPending` are its
two instances.

For `AuditIsTrue` the queue is compared with all that will come to it.  `ReadInOrder`
and `AnsweredInOrder`: messages are read in the order of their numbers, and answers
come in that order, a ReadyForQuery last.  While `regular` (`InStep`), no event was
begun after a ReadyForQuery that is still to be seen, the answers under way match
the head of the queue position by position (`Matched`: the j-th answer, if a
completion, is that of the j-th event, which succeeded; what failed has its error
after completions only; what was skipped has a ReadyForQuery to come), and a Query
that waits at the server has its event.  `Skipped` is about lines written before the
server skips the message.  The proof attempt found what four messages
could not show: an Execute of an unknown portal has no event, so that its completion
takes the next one, and `AuditIsTrue` then fails with seven messages.  `regular`
excepts that now.

For `ExecutedIsRecorded`, `Comes` and `Gives` say what text a statement or portal
will have when the server comes to the k-th message on its way, if it does all that
is before.  `MapsAgree`: for a message that is not sent yet, this is what the
proxy's map says, or nothing.  What an Execute on its way is going to run is then
recorded (`ToExecuteRecorded`), and stays so when lines are written.

**MySQL packets.**  `AnswersInStep` says nothing of the packets under way.  `WireInv`
follows the reader through them: `Reading` is a sequence of readers, the first of
which is the client as it is, each of the others what `Follows` makes of a packet in
step.  `Fits` says that the last of them waits for what the proxy is going to send
next, with the number it is going to use; or that there is a command on its way, or
that the silence is one of those excepted.  A write appends a reader, a read drops
the first.  `CountsRead` is why a result set is understood: the first byte of a count
that is not 0 is neither 0 nor 251, and it reads as it was written.

**Model-checked only.**  Liveness under fairness, and ENABLED, are beyond this prover:
the leads-to parts of `CleanupDrains`, `StartsAndEnds` and `EndsReachTarget` (of `SSHProxy`
and of `DBProxy`), and `ComesDown`.  The theorems above show of the first four what a
step may do and who is there to do it; that it is done in the end, TLC shows on the
instances of section 3.  The type invariants of `MySQLWire` and `CommandFilter` are not
theorems; of what they say the proofs of `AnswersInStep` and `FilteredAsWhole` have what
they need (`WireInv`, `FilterInv`).  The missing part of the filter's, that a notice has
the number of a rule, would need what `SelectSeq` returns, a recursive definition.

## 5 Where code and documentation disagree

Each is a run that TLC must find violated; `PROJECT.json`, "findings", quotes the
line.

* `recording_loss` / `RecordingKept`.  `ForceFinish` reads the row, the proxy's
  update stores the recording path, `ForceFinish` writes the old, empty path
  back.  `LossNeedsOverlap` shows that nothing is lost without such an overlap.
* `ssh_limit` / `TargetsLimited`.  A tunnel's handler returns, and releases its
  slot, when its copying begins: `max_connections` does not bound tunnels.
* `ssh_shell_finish` / `ShellFinished`.  `handleSession` sends the finishing update
  with the client's context; once the user is gone it is cancelled and the row
  stays active.  `EndedIsFinished` shows that the other handlers have no such gap.
* `pg_prompt` / `FlushedHasEnded`.  The client has ReadyForQuery before the audit
  has; a query it sends at once may be flushed as ended before it has run, and its
  own result then finds no event.

Other limits of the code show in what the passing properties leave out, or were
met while reading.  Where a comment or plan of the repository says otherwise, it is
named.

*SSH.*
* `WebRecordingComplete` has no shells: `handleSession` does not wait for the
  goroutines that copy output, so the recording may be closed before the last
  bytes are written.  The web terminal waits.
* `AbandonedEnds` has none either: when a shell's user is gone, by the idle timeout
  or otherwise, nothing closes the remote session; handler, slot and target
  connection live until the target ends the shell.
* The command filter holds everything back until a line ends and drops an unfinished
  line at the end (filter.go:148, 166); rules that cannot be loaded mean no filter;
  exec'd commands and the web terminal are not filtered.
* A token is consumed before a slot is asked for (websocket.go:83), so a user
  refused with too many connections needs a new token; and if no session can be
  created, tunnels and sftp go on without one (server.go:408).

*RDP.*
* `Settled` is about a proxy in a process of its own: with `--all` the API is shut
  down before the RDP proxy's cleanup of native sessions needs it (main.go:178).
* Hijacked WebSockets are not drained at a stop (IMPLEMENTATION_PLAN.md:476), and
  nothing in this proxy notices a forced end (IMPLEMENTATION_PLAN.md:904,
  SessionListView.vue:256).
* The recording of session 1 is looked up as `1*`, which session 12's matches too
  (rdp/server.go:372), and copied while guacd may still write (rdp/server.go:336).
* The plugin's unloading may overlap the end of a session (turjmp_plugin.c:1135); the
  engine's output is read with lines of at most 64 KB (native_engine.go:495).

*Databases.*
* `AuditedUnlessCut` excepts forced ends and stops: the line of a MySQL statement is
  posted with the context that these cancel (mysql_server.go:319), although
  mysql_server.go:266 says that one is written in the end whether or not the
  statement succeeds.
* It also excepts the `USE` of the database a client names at login, which is executed
  on the target and never audited (mysql_server.go:152), although
  IMPLEMENTATION_PLAN.md:623 wants every SQL statement in the audit log and the same
  statement by `COM_INIT_DB` is (mysql_server.go:241).
* A blank query is audited as a success without having been sent to the database
  (mysql_server.go:272), hence its place in `LinesAreTrue`.
* `AnswersInStep` names what a MySQL client does not understand: an error packet
  after part of a result, and the second half of a query of 16 MB or more, carry a
  number it does not expect; a CALL or WITH without a result set is answered with a
  column count of 0, which reads as OK; a failed `COM_INIT_DB` gets no error packet
  (mysql_server.go:243); a statement slower than the idle time is executed and never
  answered (mysql_server.go:219); COM_STMT_CLOSE, which has no answer, gets one.
* The driver's read timeout is the connect timeout, which breaks long statements.
* `regular`, in `AuditIsTrue`: a Query of several statements has one event and
  several completions; the first decides, and a later failure is not audited.  An
  Execute of a portal whose text the proxy does not know has no event, and its
  completion is taken for the one of the next message (postgres_audit.go:124).
* `diverged`, in `ExecutedIsRecorded`: a Parse replaces the kept text even if the
  server refuses it and goes on executing the old statement.
* What is queued when the relay ends is forgotten, even if the server executed it
  (postgres_server.go:382).
* A PostgreSQL CancelRequest needs a slot of its own.  The idle deadline is set by
  what the client sends only, so that a long result without a word from the client
  is cut, in spite of the comment at postgres_server.go:448; and a relay stays if
  the target stalls in both directions.
* A `usql` that dies while the terminal types its \connect line is not waited for.

*Users, roles, assets, settings.*
* `RolesNeedMFA` excepts logins and refreshes that could not read the setting:
  `settingBool` answers `false` then (settings_policy.go:14), and while the database
  fails that one statement they get full roles without MFA, although the setting is
  described as "Require MFA for all users" (bootstrap.go:140).  Nothing else lets
  anybody through.
* `AdminIsSuper` excepts a start that is cut off between the administrator's row and
  the role: the next start finds the user and returns (bootstrap.go:68), although
  bootstrap.go:66 says that it ensures both.  Requests apart, this is the only way for
  the administrator to be without the role.
* `OneFingerprint` excepts first requests that overlap: both find no key and both
  create one (host_keys.go:36), the table has no unique index, both rows stay, and a
  proxy started later may offer the other one, although IMPLEMENTATION_PLAN.md:496
  promises clients an unchanging fingerprint.
* Once the administrator is renamed, the next start creates `admin` with the password
  admin123 anew (bootstrap.go:68); once the super role is renamed, it creates the
  role anew and the administrator keeps the renamed one.  Both are causes in
  `withdrawn`.
* The enforcer is casbin's unsynchronised one (rbac.go:29): below the steps of this
  model, a decision and a change of the memory are a data race.
* `EndedIsOver` leaves the window between a rotation and the storing of the next
  token (auth.go:77); `OnlyOvertakenUndo` the whole-row writes, which include the
  password hash although store.go:80 says they do not.
* `GrantsGrowByEdit` excepts the deletion of the last account a permission names:
  the permission then covers every account of its assets (store.go:615).  Empty
  actions mean "connect".
* A body of `UpdateAsset` without `is_active` deactivates the asset.
* A user can enable again a proxy password that an administrator disabled.
* Deleting a role that users have takes the assignments along, although
  handlers.go:549 says that it fails.
* `ValueKept` excepts writers that were overtaken: a start may put a default over a
  value set meanwhile.  A secret that is saved with its default, the empty string,
  is sealed, and shown as set from then on.  The cache of settings is never read.
* Two tabs that refresh with one token log the user out (client.ts:114):
  `ImplementsOneTime` is why.


## 6 Abstractions and bounds

* **Data.**  Addresses, ports, names, terminal contents and audit texts are left
  out; secrets and passwords are numbers or model values; output is one pending
  chunk per connection.  Protocol names are the real ones, since canonicalisation is
  what `OneByOne` tests; case folding and trimming are taken as done.
* **Permissions** are, in `ConnectionToken` and `NativeLogin`, a relation between
  users and accounts that administrators change; what it computes is `AssetGrants`.
* **Clock.**  One clock for server and database, in steps as long as a test can
  tell apart.  SQLite's `CURRENT_TIMESTAMP` has whole seconds where Go compares
  fractions; the model has the two tests of the expiry at one granularity.
* **Deletion.**  `Delete` of a user or asset always succeeds in `ConnectionToken`;
  the foreign key of `sessions`, which does not cascade, may refuse it in the
  database.  The model has more behaviours than the program.
* **One API process**, as `sessionLimitMu` and casbin's memory assume; `HostKeys` and
  `Settings` allow for several.  A limit configured as 0 or less is 1 in the code,
  hence `Limit # 0`.
* **Left out of SessionStore**: `SessionService.Finish`, which nothing calls.
* **SSH**: one channel per SSH connection.  The server registers only
  `direct-tcpip` in `ChannelHandlers`; whether gliderlabs/ssh then reaches the shell
  and sftp handlers depends on its version.  They are modelled as reached.
* **AuthTokens**: a wrong password or code, and an expired token, are refused without
  a trace and are no step.  Access tokens are not stored and not modelled but for
  the roles signed into them.  The minimal length of passwords is a setting too, and
  one that cannot be read is the configured one (users.go:132); it is left out.
* **RolePolicies**: roles have names; nothing in the code checks that, and to casbin
  an empty name means every role.  `AddPolicy`, `RemoveFilteredPolicy` and
  `SavePolicy` are modelled from their use, down to the order of table and memory,
  and a change of the memory is one step, as if the enforcer had a lock.
* **AssetGrants**: user groups and the tree of nodes are fixed, as no code writes
  them after the bootstrap.
* **RDPProxy**: the first finish of a native session is one post; which of the
  plugin's hooks made it is left out.
* **PostgreSQL**: texts are sequences of statements; a Query without any has an event
  like the others (postgres_audit.go:100) and no completion, whether its string is
  empty or blank.  Messages whose
  answers the audit ignores (Describe, Flush, Copy) are left out, as is the pace of
  the server: no answer is lost between `Serve` and `Deliver`, since a broken
  connection is a `Hangup`.
* **Bounds** are constants named `Max...` in the modules that count: clock, ids given
  out, requests, administrators' steps, failures, messages.  `ConnectionToken` bounds
  requests to issue by its unused token values.

## 7 Not modelled

* **SFTP policy and token extraction**: path checks before single calls of an SFTP
  library, and the splitting of a user name; no state, and their strings are the
  whole content.  So is the audit of exec and sftp commands, one line per call.
* **HTTP middleware and session stream**: the rate limiter and the one-use stream
  tokens are single critical sections under a mutex; the middleware is a chain of
  tests on a request.
* **Recording storage**: files and an object store, pure I/O.
* **Configuration, crypto, health, logging, SDK links**: parsing, a library's
  encryption, formatting; no state of their own.
* **Web user interface**: views and their state.
* **Migrations and the seed of platforms and filters**: run once, alone.  The foreign
  keys and unique indexes are modelled where they are relied on.
* **Parts of modelled components**: the Guacamole protocol, the engine's
  configuration file and the reading of its output; TLS, PostgreSQL's log-in to the
  target and the masking of a terminal's output; the arithmetic of JWT and TOTP.

## 8 Plan

Done: the components of section 1 with a model, and a theorem for every safety property
that the runs check, the safety parts of four of the five liveness properties included.
What would come next:

1. The type invariants of `MySQLWire` and `CommandFilter` as theorems.
2. For `ComesDown`, as for the other liveness properties, who is there to bring the end
   about at each place of the two stoppers, as an invariant.
3. What is modelled by its use only: the token extraction and the path policy of SFTP,
   as operators on sequences with a reference definition.

