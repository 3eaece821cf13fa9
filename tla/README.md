# Locksmith: TLA+ specifications

Locksmith is a credential proxy: agents call tools, models and infrastructure
through it and never see the upstream secrets. These modules model the parts of
the daemon in which several tasks work on the same state and check them with TLC
on small instances. For all of them TLAPS proves the safety properties for every
instance; what stays with TLC alone is at the end of section 5.

Source paths below are relative to the repository's `src/` directory of Rust
code; `PROJECT.json` has the exact lines behind every definition ("map").

## 1. The system and its parts

The daemon is one tokio process over one SQLite file. Agents reach it on a TCP
listener (bearer tokens or mTLS), operators on a Unix socket or an HTTPS
listener. Its parts, and the module for each:

| Part | Source | Modules |
|---|---|---|
| OAuth sessions: table, lock map, refresh task, on-demand refresh, bootstrap, revoke | `oauth/refresh.rs`, `oauth/session.rs`, `oauth/admin.rs`, `proxy.rs` (`resolve_oauth_token`) | `OauthSessions`, abstract `OauthLifecycle`, `OauthInvariants`, `OauthSessions_proofs` |
| Agents and bootstrap tokens: registration, rotation, revocation, admission | `admin/service.rs`, `repo/agent.rs`, `repo/bootstrap.rs`, `auth_v2/agent.rs` | `AgentRegistry`, abstract `AgentEnrolment`, `AgentInvariants`, `AgentRegistry_proofs` |
| Admission: client certificates, agents' and operators' tokens, in each `auth_mode` | `auth.rs`, `mtls/validator.rs`, `mtls/authenticator.rs`, `auth_v2/operator.rs`, `admin/uds.rs`, `agent_listener.rs` | `Admission`, `Admission_proofs` |
| Lists of revoked certificates: blocklist, `mtls revoke`, CRL | `mtls/blocklist.rs`, `mtls/crl.rs`, `cli/commands/mtls.rs` | `CertRevocation` (proofs in `Admission_proofs`) |
| Registrations: seed, migration, operator API, in-memory catalog and secrets | `registrations/`, `secret/mod.rs`, `daemon.rs` | `Registrations`, `Registrations_proofs` |
| Proxy request pipeline: ACL, target, override, injection, response controls, audit rows | `proxy.rs`, `response_controls.rs`, `client_pool.rs`, `codex_body.rs`, `repo/agent_creds.rs` | `ProxyRequest`, `ProxyRequest_proofs` |
| Kamiwaza extensions: discovery, catalog cache, MCP sessions | `kamiwaza.rs` | `Kamiwaza`, `Kamiwaza_proofs` |
| Graceful shutdown: latch, listeners, sweeper, drain window | `shutdown.rs`, `daemon.rs`, `agent_listener.rs`, `admin/https.rs`, `admin/uds.rs` | `Shutdown`, `Shutdown_proofs` |
| Audit: table, JSONL mirror, rotation, retention | `repo/audit.rs`, `audit_sink.rs` | `AuditLog`, `CivilDate`, `AuditLog_proofs` |
| Daemon assembly, admin transports, router, secret backends, configuration | `daemon.rs`, `admin/`, `app.rs`, `secret/`, `config.rs` | partly, in the modules of the parts they drive |
| Sealing, JWT, tokens, Argon2, schema, the other commands, skill document, telemetry | `oauth/sealing.rs`, `token.rs`, `migrations.rs`, `cli/`, ... | not modelled (section 7) |

How the parts meet: the registrations API publishes two maps, the secrets and
the catalog, which the proxy pipeline reads without a lock; the pipeline asks
the OAuth store for a token; a request reaches a handler once the middleware has
admitted it, against the agents table that the registry's handlers change and
the lists that commands and the CA change; every handler records audit rows,
which the sink mirrors; the sweeper and all listeners wait for the shutdown
signal.

The model follows these meetings where they carry state. `OauthSessions` holds
the registration table and its in-memory snapshot next to the sessions.
`Registrations` publishes the two maps store by store. `ProxyRequest` sees them
change between its loads and treats the OAuth store as its answer, whose steps
are in `OauthSessions`. `Admission` composes the listeners with `CertRevocation`
and with the operators' statements on the agents table; what an admitted call
may then do is in `AgentRegistry`.

## 2. How the code became steps

A handler is a future: it can be suspended at each `await`, and dropped there
when its client leaves. So one step is one SQL statement, one lock acquisition,
one exchange with the outside, or one load or store of a shared map. Any other
task may run between two of them. What has no `await` and no shared load inside
is one step (an append to the audit sink, under its mutex, is one).

Three actions recur. `Crash` (or `Restart`) is the end of the process: memory is
lost and the tables stay. `Cancel` is a future dropped at an `await`.
`StatementFails` is an error from SQLite. `MaxFault` bounds how many happen in
one behaviour (in `ProxyRequest` in one request).

Tokens, secrets and names are model values. Where a value's *identity over time*
matters it is a number: refresh tokens and agent secrets are numbered as they
are issued, so that a reused token or a secret with two successors can be seen.
Formatting, encryption and hashing are left out: nothing here depends on them.

Each operator whose comment starts with "Faulty variant" is a plausible mistake
in the definition that follows it. `PROJECT.json` ("mutants") pairs every
checked property with one it detects; no specification uses them.

## 3. The modules

### OauthSessions (and OauthLifecycle, OauthInvariants)

State: `row` is the `oauth_sessions` table by (registration, label); `holder` is
`RefreshLockMap`; `registered` and `catalog` are the registration table and the
snapshot that `refresh_session` looks the provider up in. Each task has a `pc`, a
key (`job`), the row it read (`seen`) and the provider's answer (`resp`). The
provider knows the refresh tokens it rotated away (`spent`). A row carries `gen`,
the number of the token it was bootstrapped with: the identity of the session
behind a key, which the code has not.

- Proxy request (`resolve_oauth_token`): `ProxyStart`, `Lock`, `ProxyGet`
  (re-read under the lock: fresh, degraded, absent, or due), then the refresh.
- Refresh task (`run`): `Tick` takes the batch, `LoadCatalog`,
  `NextItem`, `Lock`, `RefresherGet` (re-read under the lock), the refresh.
- Bootstrap (`op_oauth_bootstrap`): `BootstrapStart`, `Lock`, `Create`, the
  refresh; `Fail` is its rollback.
- Refresh (`refresh_session`): `Send`, `Exchange` or `ExchangeFails`, `Persist`
  (`update_tokens`), `ReadBack`; `Fail` is `mark_degraded` for the other callers.
- `Revoke` is one DELETE without the lock, as in the code.

`OauthLifecycle` is the store's promise without tasks: a session is born, obtains
tokens, may degrade, is removed; a degraded one only waits for its removal, and
no removed incarnation returns. This is the code's life cycle; the documented one
has a second bootstrap instead, which is the run OauthRebootstrap (section 6).
`OauthInvariants` has the inductive invariants.

### AgentRegistry (and AgentEnrolment, AgentInvariants)

State: the `agents` and `bootstrap_tokens` tables, and per handler its request
and what it read. Registration is `Preview`, `Insert`, `Check`, `Select`, `Mark`
(the conditional UPDATE of `consume`), and on refusal `Rollback` and `Diagnose`
(the second look that chooses the audit event). Rotation is `RotateRead` and
`RotateCas`; admission is `Authenticate` and `CheckAcl`, which uses the policy
read earlier. `ModifyAgent` is the operator's PATCH: policy and expiry, each set or
left alone. History variables record what enrolled an agent (`via`), which
secrets reached a client (`held`), which secret authorised which (`lineage`), and
whether a call or a registration was in order at some moment of its life
(`granted`). `AgentEnrolment` is the same registry with one step per operation:
an agent is enrolled, its secret is replaced, it is expelled. `AgentInvariants`
has the inductive invariant.

### Admission and CertRevocation

State of `CertRevocation`: the blocklist file with its mtime in whole seconds, the
commands that are rewriting it, the snapshot a validator has in memory, the CA's
list, the answer to a download and the list in use. A command is `RevokeRead`,
`RevokeOpen` (truncates) and `RevokeWrite`; a reload is `PollStat`, `PollRead` and
`PollStore`; a refresh of the CRL is `FetchCrl` and `ApplyCrl`. Two commands may
overlap, and one may be killed between any two steps. The history variable
`late` says that the file changed where its mtime cannot tell.

State of `Admission`: the listener with its `auth_mode`, the agents' rows
(`cert_identity`, `revoked_at`), and per connection the certificate of its
handshake, the request's next step, its header, its answer and whether the
refusal is on record. `Handshake` takes the certificate once; every request of the
connection uses it. The requests are `PublicRequest`, `AgentCertRequest`,
`AgentBearerRequest` and `SharedBearerRequest` on the agent listener,
`OperatorCertRequest` and `OperatorBearerRequest` on the admin listener; `LookUp`
and `Resolve` are the statements they wait for, `AuditRefusal` is an audit that is
awaited, and `RunTask` one that is spawned. The history variables `certGood` and
`bound` hold what was true of the certificate since the request began.

### Registrations

State: the table, `seed_version`, the two maps the proxy reads. `Start`,
`ApplyEntry`, `SetSeedVersion`, `MigrateTool` and `LoadCatalog` are the startup,
which a crash may interrupt anywhere and which a newer or an older image may
repeat. A handler is `Get`, `Write`, then `refresh_runtime` as `List`, `Merge`
(load the secrets), `StoreCreds` and `Publish`.

### ProxyRequest

State: the catalog entry, its secret and the agent's override, which operators
change; the refreshes under way; the client pool; and one request with its
target, what was sent, the response, the stream and the audit trail.
`proxy_handler` is a chain of actions from `Begin` to `Finish`: `Lookup` (ACL and
target), `Foreign` (served by Kamiwaza), `ApplyOverride`, `ResolveOauth`, `Check`
(force_replace and OAuth refusals), `ReadBody` (the agent's body arrives, within
its limit), `Build` (the codex rewrite; secrets are loaded again; client from the
pool), `SendFails` or `Receive`, `Buffer` (redaction), `RowWritten`/`RowLost`, and the
`Poll` actions of `SizeCappedStream`, whose audit row is written by a task of its
own (`TaskRecord`).

A refresh (`refresh_runtime`) is three steps, `RefreshLoad` (the secrets are
loaded), `RefreshStore` (they are stored, merged with the registration's own) and
`RefreshCatalog`. Nothing excludes a second one meanwhile, so a secret that one of
them stored can be lost to the older copy of the other; the history variable
`lost` says that it was.

The pool keeps one client and the fingerprint it was built for. `BuildClient` is
the set of clients a build can give: timeouts, egress proxy and redirect policy as
asked for, or, where building fails (`frail`), a bare client, which keeps only the
redirect policy. `GetOrBuild` compares fingerprints as `client_pool.rs` does.

Requests write nothing another one reads but the pool, so one request after
another is enough. The operators act only before the request is sent (`Early`):
afterwards the request reads none of what they change.

### Kamiwaza

State: the cached catalog, the queue for its mutex, the stage of each probe, the
open MCP sessions. `Ask`, `Hit`, `Miss`, `Fetch`, the `Probe` actions (at most
`Conc` at a time), `Collect`, then `Resolve`, `ReadBody` (the agent's body, waited
for without a timeout) and the `Call` actions; `CloseTask` is the spawned DELETE
that closes a session. `open` has the sessions whose id a task here knows,
`orphans` the extensions with a session that nobody here will close: an
`initialize` may fail after the extension opened its session (`MayOpen`), the
notification after it may fail (`Leave`), a close may go unheard (`Close`), and a
dropped handler closes nothing (`Abandon`). Extensions start and stop and agents
disconnect at any time. An extension stands for its one tool.

### Shutdown

State: the latch and `Notify` of `ShutdownCoordinator`, where each waiting future
is (`Load`, `Register`, `Recheck`, `Wake` are the points at which the signal may
overtake it), listeners, requests, the sweeper, `daemon::run` and the timers. The
three ways in which listeners stop are the constant `Style`.

### AuditLog and CivilDate

State: the audit table, the files on disk with their lengths, lines and mtimes, the
sink's open file with its byte count and day. `Insert`, then `AppendLine` or
`AppendFails` with rotation by day and size and pruning; `Restart` reopens;
`Sweep` deletes old rows. mtimes are ticks of a clock of their own, so two files
may have the same and be sorted either way. `PruneOldest` has the early returns of
`prune_oldest` (no directory part in the path, `keep_files = 0`) and its errors:
the directory is not read, an entry is skipped, a file is not removed. The history
variable `unpruned` counts the files added since a pruning met no error.
`CivilDate` has the closed formula of `ymd_from_unix_secs` in its steps
(`EraOf`, `YearOf`, `YearStart`, `Civil`, `Ymd`) and beside it the calendar's own rule from a day to the next (`Tomorrow`). The model's year is an
integer; the code's `i32` holds every year up to 2147483647.

## 4. The runs

| Run | Instance | What it shows |
|---|---|---|
| Oauth | one session of a registration that is edited, a proxy request, a bootstrap, the refresh task, one fault | `SafetyInv`; `NoSpentTokenReplay`; `OneExchangePerSession`; `WritesOwnIncarnation`; `RevokedIsNotServed`; the store implements `OauthLifecycle`; liveness `ResolveReturns`, `DueIsAttended` |
| OauthRebootstrap | the same without faults and edits | violated: `RebootstrapRecovers` (section 6) |
| AgentsEnrol | two handlers, two agents and names, a single-use token, expiry, one fault | `SingleUseEnrolsOnce`; `EnrolmentIsWhole`; `EnrolledInGoodFaith`; `ReuseIsReported` |
| AgentsRotate | two handlers on one agent, three secrets, a tool, expiry, one fault | `AgentInv`; `NobodyLockedOut`; `AdmittedWasEntitled`; the registry implements `AgentEnrolment` |
| Admission | a connection, two certificates, agents and identities, ten deployments, three instants, two commands at a time, one fault | `AdmissionIsEarned`; `RefusalsAreOnRecord`; `SnapshotIsExact`; `CrlNeverForgets` |
| Registrations | one name, three seed versions, two handlers, one fault | `SeedInv`; `ProxyFollowsTable`; `OperatorStateStays` |
| RegLostRefresh | the same without faults | violated: `WritesAreVisible` (section 6) |
| Shutdown | two listeners, a request, the sweeper | `ExitInv`; `EarlyExitIsClean`; liveness `ShutdownCompletes` |
| ShutdownMtls | the mTLS listener and a request | violated: `EarlyExitIsClean` (section 6) |
| Audit | two writers, lines of one and three bytes, a cap of two, two kept files, two days, three ticks, a restart, one fault; every day from 1600 to 2400 | `SinkInv`; `DiskIsBounded`; `MirrorFollowsTable`; `DateIsGregorian` |
| Proxy | two registrations, two refreshes at a time, three overrides, three configurations, four bodies, six responses, one fault per request | `ProxyInv`; `ForceReplaceIsHonoured`; `CredentialIsAttributed`; `OneOutcome`; `CapIsExact`; liveness `RequestReturns` |
| Kamiwaza | two requests, two extensions, fan-out one, one disconnection | `DiscoveryInv`; `CatalogIsSound`; liveness `EveryoneIsAnswered`; `SessionsAreClosed` |

The invariants named `...Inv` contain the types, and so does `AdmissionIsEarned`.
Each property is stated in words above its definition.

**Bounds.** They are chosen so that the case a property is about occurs.

- Two of everything that competes: two handlers, two writers, a request and the
  refresh task on one session. Every guarded pair of statements is between two
  tasks; a third repeats the situation of the second.
- Two refresh tokens: the one a session was bootstrapped with, and either the
  rotated one or that of a second incarnation of the same key. One label: sessions
  share no lock and no row, and the proofs of section 5 are for any number. Three
  agent secrets: the first and two that compete to follow it.
- A clock of two instants with expiries at both: fresh, expired, and expiring in
  between. The background margin is larger than the proxy's, as in the code.
- One fault: every property that mentions faults is about what one leaves behind
  (one step of several failing). Faults are enabled at every step.
- Three seed versions: an upgrade, another, and one that startup refuses; images
  may also go back. `config.tools` has a secret of its own for the same name.
- Audit: a line longer than the cap, files at the limit of `keep_files`, files of
  one tick, an overflow index at its limit (`Room` keeps one free), a restart in
  the middle of a day.
- Proxy: each value of a body, response or configuration is one side of a
  condition in the code (sizes at the limit and above it, a non-JSON body, both
  statuses, typed or not, redaction hits or none, a proxy that is set, malformed
  or not set). The constraint `Settled` lets two refreshes overlap in one of the
  configurations, between requests or while a body is read, and follows a request
  past `Early` only with no refresh under way. What it leaves out a request cannot
  notice: after `Early` it reads nothing that a refresh writes. The proofs have no
  such constraint.
- Kamiwaza: fan-out one with two extensions makes a probe wait; the time to live
  is one tick, so a catalog expires within the behaviour.

- Admission: one connection at a time, for requests share only tables and lists,
  which change freely beside it. The deployments are both listeners in every
  `auth_mode`, the agent listener without the admin substrate (with a shared
  token and without), all wired to no list as the daemon does it, and two in
  which a list is wired. One certificate lapses while its connection may be
  open, and one of the agents has expired by then.

Symmetry is used where no liveness is checked (handlers, writers, agents, names,
commands). `MaxTime`, `MaxToken`, `MaxFault`, `MaxSecret`, `MaxEvent`,
`MaxRestart`, `MaxDay`, `MaxChunk`, `MaxRevoke` and `MaxTask` are bounds of the
model and not of the program; `CHECK_DEADLOCK` is on everywhere, so that no
bound makes a system stop.

**Fairness**, and why the code justifies it:

- `OauthSessions`: weak fairness of each task's next step. The executor polls
  what can run, and the token exchange has a 30 s timeout. Strong fairness of
  `Lock`: tokio's `Mutex` queues its waiters. The clock advances. Requests,
  bootstraps, revocations and faults are never assumed.
- `Shutdown`: weak fairness of the waiting futures, the listeners, the sweeper's
  statement, the exit and the clock. Neither a signal nor the end of a request is
  assumed, so `ShutdownCompletes` covers a request that hangs forever.
- `ProxyRequest`: weak fairness of the handler's own steps (`Handle`), of the
  upstream's answer when the client has a timeout (`Timed`; a bare client has
  none), and of the audit task. The agent's steps, its body and its reading of the
  response, have no timeout in the code and no fairness: `RequestReturns` says that
  a request ends unless it waits for its agent for ever, or for an upstream without
  a timeout; and that with an agent that does its part only the latter is left.
- `Kamiwaza`: weak fairness of each request's steps (HTTP timeouts) and of the
  task that closes a session, and none of `ReadBody`: `EveryoneIsAnswered` allows a
  request to wait for its agent's body, without the lock. The mutex is a queue, as
  tokio's is.

## 5. The proofs

TLAPS proves the following for all values of the constants: any number of
registrations, labels, agents, tokens, certificates, connections, requests,
extensions, listeners, files, commands and faults.

| Theorem | Statement |
|---|---|
| **`OauthSessions_proofs`** | |
| `Safety` | `Spec => []SafetyInv` |
| `MutualExclusion` | no two tasks have one session in hand at the same time |
| `OwnIncarnation` | what a task writes goes to the incarnation it read, or nowhere |
| `TokenInvariant`, `NoReplay_Holds` | a refresh token is in one place only; one that was rotated away is presented again only if its exchange was cut short |
| `RevocationHolds` | a request that begins after a revoke is not served from the revoked session |
| `Refinement` | `Spec => ImplementsLifecycle`: each step of the store is a step of `OauthLifecycle` or leaves it unchanged |
| **`AgentRegistry_proofs`** | |
| `Consistency` | `Spec => []AgentInv` |
| `SingleUse_Holds` | a single-use token enrols at most one agent |
| `Whole_Holds` | a refused registration hands out no secret and, unless a fault cut it short, leaves no usable row |
| `GoodFaith_Holds` | a registration succeeds only if its token was acceptable after the row was inserted |
| `Admitted_Holds` | a call is admitted only if it was in order at some moment since it began |
| `Reported_Holds` | the reuse of a token is audited as such |
| `LockOut_Holds` | races of rotations lock nobody out |
| `Refinement` | `Spec => ImplementsEnrolment` |
| **`Admission_proofs`** | |
| `Invariance` | `Spec => []AdmissionInv` |
| `Earned_Holds`, `Recorded_Holds`, `Snapshot_Holds`, `Crl_Holds` | the four properties of the Admission run |
| **`Registrations_proofs`** | |
| `TableInvariant` | `Spec => []TableInv` |
| `SeedIsComplete_Holds` | a recorded seed version is a complete one |
| `ProxyFollowsTable_Holds` | at rest the proxy's maps are the table's, unless the last refresh failed or overlapped |
| `OperatorStateStays_Holds` | restarts, upgrades and other requests leave what the operator did |
| **`ProxyRequest_proofs`** | |
| `RequestInvariant` | `Spec => []RequestInv` |
| `ClientIsCurrent` | the client a request leaves with is one that a build for its target could give, whichever clients the pool has kept |
| `ForceReplace_Holds` | a target with force_replace leaves without a credential only if overlapping refreshes lost the secret |
| `Attribution_Holds` | the credential that leaves is of the kind the audit row names |
| `OneOutcome_Holds` | one outcome on record for each request |
| `CapIsExact_Holds` | a stream delivers everything, or exactly the cap and the marker |
| **`Kamiwaza_proofs`** | |
| `CatalogInvariant`, `Discovery_Holds` | one discovery at a time, within its fan-out |
| `CatalogIsSound_Holds` | the catalog is what a complete discovery found, and is handed out in time |
| `LeftUnderway` | a session is left at an extension only by a failing handshake, an unheard close or an agent that goes away |
| **`Shutdown_proofs`** | |
| `Latched`, `NoUnaskedExit_Holds` | nobody acts on the signal, or leaves, before the latch is set |
| `CleanExit_Holds` | without an mTLS accept loop, an exit before the end of the window is clean |
| **`AuditLog_proofs`** | |
| `AuditInvariant`, `Sink_Holds` | the sink's file and byte count are those on disk, and the cap is kept |
| `DiskIsBounded_Holds` | with a directory part in the path, at most `keep_files` files and those added since the last pruning without an error |
| `Mirror_Holds` | no line in the mirror without its row, and no line lost in silence but on the day of an error or to a tie in mtime |
| `Calendar` | the closed formula is the Gregorian calendar on every day, without a range, and no two days share a date |
| `Date_Holds` | files are named after the date of their day, and no two share a name |

TLC checks each theorem's property in a run. Every inductive invariant was first
checked on the instance of its component's run: `SafetyInv` and `AgentInv` by a
run of section 4, the others (`TokenInv`, `AdmissionInv`, `TableInv`, `RequestInv`,
`CatalogInv`, `ShutdownInv`, `CleanInv`, `AuditInv`) before they were proved.
Each proof has the same order: what each statement or helper does, then a lemma
for each part of the invariant with one step per action, then the theorems.

### OauthSessions

**Assumptions.** `ConstantsAssumption` (the kinds of tasks are disjoint, the
margins, lifetimes and bounds are numbers) and `NoneAssumption` (the absent value
is none of the others), both in `OauthSessions` and evaluated by TLC.

**The argument.** None of the statements is inductive. `UPDATE ... WHERE name
AND session_label` finds its row by key, and `Revoke` followed by a bootstrap
puts another session under that key. `OwnIncarnation` holds because the bootstrap
must take the lock the task holds, so the key can lose its row while a task
works, and cannot gain one. The invariant `SafetyInv` says this in three parts:

- `TypeOK`;
- `LockInv`: a task between `Lock` and the drop of its guard holds the lock of
  its key, and who holds a lock is such a task;
- `GenInv`: incarnations are distinct, old ones are not reused, an unborn
  bootstrap's incarnation is in no row yet, a task with a session in hand finds
  that incarnation, still healthy, or no row; and what a request must ignore is
  gone.

The refinement maps a row to the phase it is in (`Life`) and `gone` to the past
incarnations; the invariant is needed to see that `Persist` never revives a
degraded session.

`NoReplay_Holds` is about the provider's memory too, and needs a second invariant,
`TokenInv`, on top of the first:

- `TokenKnown`: every refresh token in a row, in a task's hand or in an answer has
  been issued, so a token the provider issues next is in none of them;
- `TokenOwned`: no token is in two places, but for a task and the row it works on;
- `TokenFit`: a healthy row's token is in force, or its exchange was interrupted,
  or a task at `persist` or `fail` has that session in hand and is about to write
  down what became of it; and the token a task is about to send is in force.

The third part holds because the lock keeps everybody else away from the row
between the exchange and the write. `TokenFrame` is the common case of a step that
takes nothing into its hand; the steps that do (`BootstrapStart`, `Create`, the
re-reads, `Exchange`, `Persist`) have a lemma each.

### AgentRegistry

**Assumptions.** `ConstantsAssumption` (single-use tokens are tokens, expiries and
bounds are numbers, an agent may have no expiry, the operator is not a token) and
`NoneAssumption` (the absent value is no row, request or cause), in
`AgentRegistry` and evaluated by TLC.

**The argument.** A registration is four statements between which anything may
happen, so no property is inductive. `AgentInv` says what the tables, the history
and the handlers' locals have to do with each other:

- `TypeOK` and `LocalInv`: what a label says of a handler's locals;
- `RowInv`: who has an account has its row, and a registration has the row it
  inserted for itself, whatever others do;
- `TokenInv`: the agent that spent a single-use token is on it, and what was found
  wrong with a token stays wrong until the refusal is reported;
- `SecretInv`: secrets are drawn once, and one that was replaced is nobody's; from
  this follows that a secret has one heir;
- `GrantInv`: what was in order is remembered as long as the request lasts;
- `FaultFreeInv`: without faults an active agent is being registered, or was
  enrolled and somebody knows its secret.

The proof separates the three statements that create obligations (`InsertRow`,
`SpendToken`, `RotateSwap`) from the calm steps, which
leave rows and tokens as they are or only make them worse. The refinement maps an
agent's row to a member once the
registration that inserted it has spent its token (`Member`): the row exists
before and is rolled back if it fails, and the abstract registry does not see it.

### Admission

**Assumptions.** `RevocationAssumption` and `AdmissionAssumption`: each certificate
has a validity and an identity or none, deployments are listeners with the lists
wired to them, and the absent value is none of the others.

**The argument.** `AdmissionInv` adds to the four properties what connects the
steps of a request (`RequestInv`) and those of a reload or a refresh (`ListInv`).
A request at `LookUp` was validated since it began (`certGood`), and the history
keeps that although the certificate lapses or is revoked meanwhile; without a
certificate the mode cannot be `mtls`, because the handshake would have failed. A
reader between the text and the mtime has the text of the file unless the file is
late. The list in use is contained in each list on its way to it, because a CA
never takes back a serial and there is one refresh at a time; with two at a time
the older could win. `ObserveEffect` and `BystanderSound` reduce a step to the
connection that takes it, and `RefuseStep` and `AdmitStep` say once what refusing
and admitting need.

### Registrations

**Assumptions.** `ConstantsAssumption`: the seed catalogs and `config.tools` have
entries or none for each name, and the absent value is no row.

**The argument.** `TableInv` has a clause for each actor. While startup applies the
catalog, every entry has been visited or is still to be (`StartupInv`), so the
version, which is written last, is complete. A request that was alone since it
began has in its hands what the table holds (`AloneInv`): this is why its refresh
publishes the table and why its PUT writes back the flag that is there. Until the
next write the maps are as the last refresh or startup should have left them
(`SettledInv`).

### ProxyRequest

**Assumptions.** `ConstantsAssumption`: entries, overrides, configurations, bodies
and responses have their fields, a version names one entry, and the absent value is
none of the others.

**The argument.** `RequestInv` says what the request has at each label (`PhaseInv`);
that a credential that was there when it was checked is there when it is put in, or
a refresh has lost it (`CredInv`): an override's value and an OAuth token travel in
the target, and `SecretStays` shows that of all steps only a `RefreshStore` whose
copy is older takes a secret away; that the client in use was built for parameters
with the target's fingerprint (`ClientInv`), from which its timeouts, egress and
redirects follow, because the fingerprint has every field that a build looks at
(`FingerprintDecides`); that the rows written and the rows
to be written end in one that says what happened, with only redactions before it
(`AuditInv`); and that what a stream let through and what it has left make up the
response until it is cut, at exactly the cap (`StreamInv`). `OneOutcome` and
`CapIsExact` count rows: the lemmas on cardinalities turn the shape of the trail
into a number.

### Kamiwaza

**Assumptions.** `ConstantsAssumption`: the limits are numbers, and the absent value
is none of the others. The extensions may be infinitely many.

**The argument.** `CatalogInv`: a request is in the mutex's queue exactly while it
waits or discovers, and who discovers is at its head (`QueueInv`), also when others
leave the queue from the middle; the open sessions of probes are those of the one
that probes (`SessionInv`); and the running probes are within the fan-out
(`FanOutInv`), which bounds the sessions, one per running probe. `LeftUnderway`
adds `CallInv`: an open session of a call belongs to a request past its handshake,
at the extension it wants.

### Shutdown

**Assumptions.** `ConstantsAssumption`, and for `CleanExit_Holds` also `NoLoop`: no
listener stops like the mTLS accept loop. With one the property is violated, which
is the run ShutdownMtls.

**The argument.** `LatchedFirst`: everything that follows the signal follows the
latch, at whatever point the signal overtook a waiting future. `Attended`: an open
request has a listener that still waits for it, and one that was cut off had a
listener whose own time was up.

### AuditLog

**Assumptions.** `ConstantsAssumption`: lines are not empty, the limits are numbers,
the absent value is none of the others. `KeepFiles` may be 0 and the path may have
no directory part; `DiskIsBounded` says nothing of those two configurations, in
which the code prunes nothing. The code tries 10 000 overflow indexes and then goes
on with a file it has; the model stops before (`Room`).

**The argument.** `AuditInv` follows the sink's record through the steps of `append`
(`SinkOK`: the open file's length is the byte count, the cap is kept, no more files
than may be). By the pigeonhole principle a rotation finds a name that is free
(`Free`), so the byte count starts at zero. Pruning takes files written longest ago:
the file just opened has the newest mtime, so it goes only when `KeepFiles` others
have the same (`Spared`), and then its lines are lost with it (`Counted`). A pruning
that fails removes some files or none, so `unpruned` bounds what it leaves. An append
without an error writes its line into the open file (`Writes`), which is what
`Mirror_Holds` needs.

The calendar needs no induction: a day is the `doy`-th of the `yoe`-th year, counted
from March, of an era (`Place`), and every day has a place (`DayHasPlace`). With the
year split into its century, its four years and the year in them, `YearFound` shows
that the formula's divisions give back `yoe`; the leap days taken off leave between
0 and 364 days over whole years, which is the reason for each of its terms. The next
day is the next of the year, or 1 March of the next year or era (`NextYear`), and
month by month its date is the calendar's next (`TomorrowWithin`, `TomorrowAtEnd`).
On the way the ranges in the comments of `ymd_from_unix_secs` are proved: `doe` in
0..146096 and `doy` in 0..365 (`YearFound`), `mp` in 0..11 (`MonthFound`), and `yoe`
in 0..399 by `DayHasPlace`.

### Only model-checked

- Liveness, which is outside the prover's reach: `ResolveReturns`, `DueIsAttended`,
  `ShutdownCompletes`, `RequestReturns`, `EveryoneIsAnswered`, and the first half of
  `SessionsAreClosed` (its second half is `LeftUnderway`).
- The three violations of section 6: TLC's counterexamples are the result.

## 6. Where the code and its texts disagree

Three disagreements are runs that end in a counterexample.

- **RegLostRefresh.** `refresh_runtime` lists the table and publishes the list
  without a lock (`registrations/api.rs:206`). Two requests may list in one order
  and publish in the other; the catalog then stays behind the table until the
  next write. The comment (198-199) says the hot path "sees the new state
  immediately". `ProxyFollowsTable` shows what does hold.
- **ShutdownMtls.** The mTLS accept loop spawns its connections and returns
  without them (`agent_listener.rs:86`), so the drain is over at once and requests
  in flight are cut off. `shutdown.rs:4-6` promises to wait for them.

- **OauthRebootstrap.** A bootstrap of a degraded session is answered 409
  (`oauth/admin.rs:130-141`) before its refresh token is tried: the operator must
  revoke first. `docs/user/concepts/oauth-flow.md:295-297` says that the operator
  runs bootstrap again and "on success, `degraded` clears and both ciphertext
  columns are replaced", and `oauth/refresh.rs:26-28` that this is how to recover.
  `ImplementsLifecycle` shows what does hold: only removal ends the degraded phase.

Others were met while modelling. The modules have the code's behaviour, and no
run ends in them:

- `force_replace` "makes an unresolved credential fail closed"
  (`registrations/auth_spec.rs:15`), and the tests say of it that it "should not
  contact upstream" (`tests/proxy_test.rs:222`). When two refreshes overlap, the one
  that loaded the secrets first may store last and drop the other's; a request
  that was checked in between leaves without a credential. TLC finds this as a
  trace of twelve steps when `lost` is left out of `ForceReplaceIsHonoured`, which
  says that nothing else does it.
- Every audit row is deleted after one `retention_days` (`repo/audit.rs:162-173`,
  `daemon.rs:396-430`), whatever its class; `docs/v2/SPEC.md:78`, 816-835 and 3976
  promise longer windows for operator and security events. The model has one window,
  as the code.
- "keep_files prunes the oldest rotated files so disk usage stays bounded"
  (`audit_sink.rs`): not if the path has no directory part, which `JsonlSink::new`
  accepts, or with `keep_files = 0`, nor while files cannot be removed.
- A request whose agent stops sending its body waits for ever (`proxy.rs:595`,
  `kamiwaza.rs:854`), and so does one whose client could not be built as asked for
  and whose upstream is silent (`client_pool.rs:215-226`).
- A crash after `create` leaves a row without an access token, which the refresh
  task never lists (`oauth/session.rs:387`; compare 45-48). The proxy refreshes
  it on demand.
- A registration is two statements, not "atomic" (`admin/service.rs:340-354`;
  257-258): a crash between them leaves an active agent whose secret nobody has.
- The UPDATE of `consume` checks `used_at` only (`repo/bootstrap.rs:217`;
  171-173), so a token revoked between its two statements still enrols.
- PUT writes the `disabled` flag it read earlier (`registrations/api.rs:303-336`),
  so a disable in between is undone (`OperatorStateStays` allows exactly this).
- At a restart the secrets that `config.tools` names win over those the table
  names (`daemon.rs:607`, `or_insert`), so a secret changed by PUT reverts until
  the next refresh, although the row is "the source of truth"
  (`registrations/legacy_bootstrap.rs:13-15`); `ProxyFollowsTable` says which
  secret is kept when. After an update, a variable that is not set keeps the previous
  secret (`registrations/api.rs:217`).
- A disabled registration falls back to `config.tools` (`proxy.rs:579`).
- An override whose variable is not set is announced as "forwarding without
  injection", and the registration's default is injected.
- The sweeper's `select!` is not biased (`daemon.rs:420`), a listener that fails
  to start goes unnoticed (`daemon.rs:375`), `JsonlSink::new` does not prune
  (`audit_sink.rs:79`), and the sink stays closed after an I/O error until the
  next rotation (`audit_sink.rs:112`), where 91-93 says "the next successful tick of
  the writer will recover".
- A failed "initialized" notification, and an `initialize` that fails after the
  extension answered, leave an MCP session open (`kamiwaza.rs:536`, 424-448,
  526-530); a failed probe is cached as an extension without tools;
  calls that Kamiwaza serves leave no audit row.
- The daemon wires no list to its validators (`daemon.rs:177`, `311`):
  `with_blocklist` and `with_crl` have no caller, and `spawn_refresher`
  (`mtls/crl.rs:9`) does not exist. `cli/commands/mtls.rs:8-9`,
  `config.rs:216-217` and `docs/v2/runbooks/m6-mtls-revocation.md:41-42` say that
  it reloads them.
- `Blocklist` "reloads when it changes" (`mtls/blocklist.rs:5`), but not for a
  change in the second it has read already, or between its reading of the text
  and of the mtime, until the next change (`late` in `SnapshotIsExact`).
- Two `mtls revoke` that overlap lose one of the serials, and the file is empty
  between truncation and write (`cli/commands/mtls.rs:70`).
- Under `mtls` a bearer header is ignored, not "rejected" (`config.rs:194`, also
  150-151).
- A certificate is admitted as an agent whose `expires_at` has passed, and a token
  is not (`mtls/authenticator.rs:66`, `auth_v2/agent.rs:132`); an identity may be
  bound to several rows, of which any is taken.
- An operator's certificate that does not validate leaves no audit row
  (`admin/uds.rs:283`), nor does any refusal without the admin substrate.
- The validator passes no intermediates (`mtls/validator.rs:149`): a chain that
  has one passes the handshake and is refused at each request.
- PATCH takes `null` as "leave alone", so `--allowlist -`, "explicitly clear"
  (`cli/commands/agent.rs:345`), changes nothing.
- A request may go out with a target loaded before and a secret loaded after an
  update. Nothing promises otherwise.

## 7. What is not modelled, and why

- Sealing, JWT claims, token generation, Argon2: single computations without
  state; the modules have their results as values.
- TLS, the parsing of certificates and the building of chains: the libraries'.
  A certificate is its serial, its validity and its identity.
- The count of failed refreshes and the age of the CRL: nothing is decided by
  them.
- Configuration, schema, skill document, telemetry: read once, or text.
- The command line, except `mtls revoke`: one admin request per command, which is
  the request's action, or text.
- Header copying, URL joining, regular expressions, JSON and event-stream
  parsing: each is the set of outcomes the code distinguishes.
- `invalidate_catalog_cache` has no caller in the daemon.
- Listings and status requests: they change nothing.

## 8. What could come next

The modules were built in the order OauthSessions, AgentRegistry, Registrations,
Shutdown, AuditLog, ProxyRequest, Kamiwaza, CertRevocation and Admission.

1. A composition of `Registrations` with the pipeline's loads, to say which pairs
   of target and secret a request can see.
