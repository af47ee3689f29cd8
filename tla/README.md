# TLA+ specifications of the deploy server

This directory models the parts of the deploy server whose correctness depends
on the order in which independent processes touch shared state: HTTP handlers
that issue one SQL statement after the other, the auth broker, the worker, the
edge agents, the scripts of a booting machine, and processes that start together.
TLC checks the models on small instances; TLAPS proves every safety property the
runs check, for every number of jobs, codes, tokens, rows and concurrent requests. Definitions keep the
names of the functions they model; `PROJECT.json` gives the source lines of each.

## 1. Inventory

| Component | State | Operations | Talks to |
|---|---|---|---|
| api: jobs (`store.go`, `render.go`, `operator.go`) | `deployment_jobs`, `one_shot_tokens`, `deployment_events` | TransitionJob, AdvanceJob, phone-home, cancel, render by token | Postgres, event bus |
| api: PXE menu (`menu.go`) | synthetic `auth_codes`, jobs, tokens | build menu, mint a boot token | store |
| auth-broker (`broker.go`, `db.go`) | `auth_codes`, `redeem_attempts` | issue a code, redeem a code | Postgres, overlay network |
| worker (`main.go`) | none of its own | reap tokens and attempts, lock expired codes, notify about finished jobs, reap wake requests | Postgres, webhooks |
| api: event stream (`eventbus.go`, `pgbus.go`, `streamJobEvents`) | subscriber buffers | publish, subscribe, LISTEN/NOTIFY fan-out, SSE with backfill | Postgres, browsers |
| api: capture (`capture.go`) | blobs, image versions | upload, complete | object store |
| api: vendor driver packs (`vendorpacks.go`) | `vendor_fetch_jobs` | queue, claim, heartbeat, complete, fail | vendor sites, object store |
| api: wake-on-LAN (`wake.go`), edge agent poller (`wol.go`) | `wake_requests` | schedule, claim, send | edge agents |
| edge-agent: blob cache (`cache.go`) | files on disk | serve, fill, evict | api |
| api: catalogue (images, profiles, templates, driver packs, machines, sites) | one table each | CRUD with foreign keys | Postgres |
| api: bulk deployments (`bulk.go`) | none of its own | issue codes and wake machines, one after the other | broker |
| api: users, roles, API tokens (`users.go`, `apitokens.go`, `auth.go`, `resolver.go`) | `users`, `user_roles`, `api_tokens` | sign in, grant, revoke, authenticate | OIDC |
| api: boot files (`render.go`, `winpe.go`, `restore.go`, `capture.go`) | none | answer a token from many rows | store, mirrors |
| api: driver matching (`match.go`, `winpe.go`) | `driver_pack_versions`, hardware of a machine | plan, drivers.zip | store |
| api: start-up (`main.go`, `MigrateUp`) | `schema_migrations` | serve, migrate, seed-admin | Postgres, OIDC |
| http-boot, tftp, bootstrap stick, WinPE and Linux scripts | none or a disk | boot chain | api, broker |
| deployctl, SDKs, Terraform provider, UI, collections, metrics | none | API clients | api |

What is hard in it: handlers are goroutines on several replicas and nearly every
one is a sequence of autocommitted statements, so a check made by one statement
is stale when the next one runs; the broker mixes database rows with a remote
API; the worker acts on the same rows on a timer; tokens, codes and requests
expire at any moment; clients retry, hang up and report twice.

What makes each component correct:

- jobs: a job never skips work, a finished job stays finished once the handlers that
  checked it earlier are through, and it has no usable boot token;
- broker: a code yields at most one deployment, from its network, before it is
  locked, and is not burned by a failure of the overlay network;
- event stream: all browsers see one order, and a loss has a known cause;
- image mirror: only verified blobs, one download at a time per object, room is
  made before a file is written, nobody waits but for a transfer;
- vendor fetches: only verified packs are registered, every fetch ends and keeps its
  outcome;
- wake queue and webhooks: at most one delivery per request;
- bulk deployments: the caller gets every code that was issued;
- catalogue: a deployment keeps its machine, profile and image;
- boot files: a target is served what its deployment asks for;
- capture: a completed capture has a version that can be restored;
- driver packs: drivers.zip is what the plan announced;
- roles: only administrators change them, an administrator remains, a token never
  has more than its owner;
- start-up: what answers its health check has its schema and its protections.

## 2. Plan

In order, each step with its run and with proofs of its safety properties.

1. `JobLifecycle` - the job state machine with its boot tokens, every handler a
   request slot with a program counter.
2. `SingleUseCode` (abstract) and `Redemption` (the broker), with the refinement
   proved.
3. `EventStream` - bus, Postgres fan-out, SSE subscribers.
4. `EdgeCache` - the mirror's directory and in-flight map, without the temporary
   files a crash leaves.
5. `VendorFetch` - queue, heartbeat, runner.
6. `Deliveries` - wake requests, webhook notifications, bulk codes: claim first,
   act later, at most once.
7. `Access` - sign-in, roles, the last administrator, API tokens and their scopes,
   the permissions a request read when it started.
8. `Catalogue` - machines, profiles, images, templates, sites: deletes that count
   references in one statement and delete in the next - and `BootRender`, which
   extends it with the requests of booting targets.
9. `ImageIngest` and `DriverPacks` - blobs, versions, captures; matching, plan and
   drivers.zip - composed in `Ingest`.
10. `Startup` - migrations and the fail-closed configuration.
11. Open: hazards without a property (`PROJECT.json` says why), and the rest of the
    catalogue.

## 3. Modules

A handler is a record in a function from request slots: `pc` is the next
statement or call, the other fields are the handler's local variables. One SQL
statement, one remote call or one file-system call is one action. A request slot
is used again after its reply, except in `EdgeCache` and `BootRender`. `Faults`
switches failures on: a call fails, a client leaves, a process dies between two
calls; `MaxFaults` does so and counts them.

`JobLifecycle` models `deployment_jobs` (`state`, `owner`, `finished`) and
`one_shot_tokens` (`token`). `SelectState` and `UpdateState` are the two
statements of `TransitionJob`, `MarkTokens` its revocation hook; `AdvanceJob`
fixes the hops from one read of the state. `PhoneHome`, `Cancel`, `RenderByToken`,
`Redeem` and `MenuDeploy` start a handler. The bundle of a render or of a locked
menu is looked up statement by statement: `BundleHasJob` and `BundleHasNoJob` are
its search for the newest active job, `MenuAccepts` and `MenuRefuses` the menu's
decision. `visited`, `late`, `dropped` and `broken` are history: they are never read
by an action. `MintFound`/`MintFindsNone`/`MintInsert` are the menu's transaction: a
row lock where a job was found, nothing where none was. Its branch for a found job
without an auth code is in `MintFound`: both INSERTs of a job set `auth_code_id`, no
statement clears it, and the effect on jobs and tokens is the same.

`Redemption` models `auth_codes`, `redeem_attempts` and what a redemption leaves
behind. Codes are model values, a binding is a set of addresses, an hour is the
whole run. A request whose attempt could not be recorded passes all the same and
is kept apart in `uncounted`. `ConsumeCode` is the conditional UPDATE that decides; everything
before it looked at an older row. `SingleUseCode` is what a user of the broker may rely on: none, open, claimed,
delivered or dead. `ImplementsSingleUse` maps a row to that status.

`EventStream` is one job's stream on several api replicas. `pub` is the
phone-home handler from the INSERT of the event to the end of `Publish`;
`queue[n]` holds the notifications of replica `n`; `client` is the SSE handler
with its channel. `pg_notify` is external: it delivers in commit order to the
connections that listen. `PublishFails` lets a notify time out after it was
committed. The fields `overrun`, `gap`, `cut` and `unread` record why a client
was not sent an event.

`EdgeCache` keeps the directory as a sequence by modification time (`files`), the
content that is not the origin's (`corrupt`) and the in-flight map. `Stat` is
outside the mutex, `Lock` and `Unlock` inside. `Evict` removes one file of the
snapshot `Fetch` took. The walk itself is one step and temporary files are not
kept. `Transfer` is the answer of the origin, for which the mirror's client waits
without a timeout (`cache.go:63`), `Local` every other step of a handler.

`VendorFetch` has the rows, the object of each catalog entry, `blobs`, `packs` and
one runner per replica. `Silence` is ten minutes without a heartbeat: always
possible while no runner beats (which includes the wait for the vendor's
answer), otherwise a counted fault. Pack versions are numbered, so that a runner that
is about to complete its row may find its own version deleted and another in its
place: `DeleteDriverPackVersion` takes the version away and, by ON DELETE SET NULL,
out of the rows that named it. `silent` and `cleared` are history.

`Deliveries` has three queues with one habit: mark the row, then act.
`ClaimDueWakeRequests` and `ClaimTerminalJobs` are single UPDATEs with a LIMIT and
SKIP LOCKED (`Batches`); the agent's answer, its sends and the worker's posts
follow one by one and may be lost to a crash or a failure, which `lost` records.
The bulk call issues codes one id at a time through the broker, whose answer
may be lost, and queues a wake after each. An id is a string: `Dedupe` compares
`Spellings`, `Parse` is the machine that `uuid.Parse` makes of one. An hour is a tick
of the clock; it does not pass while a running worker has something to claim, since
that one looks every 30 seconds. This is an assumption about the load: at most 20
jobs are claimed at a time and each is posted for up to ten seconds, so a backlog of
many hundred jobs behind a webhook that hangs could leave the window of one hour.

`Access` follows a request from the middleware to its handler.
`ResolveBySubject` and `ResolveByEmail` are the resolver's two statements,
`LoadPermissions` what the request may do from then on. `RevokeUserRoleGuard`
counts the other administrators, `RevokeAdmin` deletes. `held` records which roles
a user had while the request was under way. `open` is an api without OIDC, whose
handlers find no principal and refuse nothing.

`Catalogue` has the tables and the operators' calls. Deletes are two or three
statements (`del` is the call in progress); `MachineReferenced` and its like are
the foreign keys without ON DELETE. A deployment is a code and later its job, or a
job of the PXE menu (`MintMenuBootToken`); its newest boot token is usable until it
is revoked or `TokenExpires`.
`BootRender` adds requests for user-data, deploy.cmd, the capture and restore
scripts, unattend.xml and image.wim: a request reads machine, newest active job,
profile, version, kind, template and mirror by a statement each and is answered
with an order - capture, restore, install - or refused. `Admitted` is what the check
of the token asks: a token that is neither consumed nor expired, and a job that is
bootstrapped or imaging for the files of a job, any job for user-data. With `Faults` the
lookups whose errors the code swallows may fail: the version and its blob, the kind
of the job, the mirror. `calm` records whether anything the request depends on has
changed or failed since it came.

`ImageIngest` separates the row of a blob from its content: `object` is the
object store (external), a place is a bucket and a file name. A capture script
registers, uploads and completes; `call` is `captureComplete`, statement by
statement. A vendor fetch puts first, under its own key, and registers after
(`VendorPuts`, `VendorRegisters`). `Stored` asks for the object where the row says,
which is where `restore.sh` is handed a presigned GET for; the URLs below `/blobs`
carry the key and no bucket, and what nginx has under them is not modelled. That
two fetches share a vendor key is in `VendorFetch`. `DriverPacks` has the matcher as operators (`Select`, with
specificity and tie-break) and the two requests that use it, of which the second depends on
what the first has stored. Operators register packs by the rule types
`createDriverPack` accepts, a vendor fetch by product prefixes (`runVendorFetch`). `Ingest` joins both over the rows of `blobs`.

`Startup` is one process per replica or subcommand: open, migrate, audit file,
OIDC, mTLS listener, with a certificate that is absent, unreadable or good: an
unreadable one stops the process even where plaintext is allowed. Body and row of a migration are two commits
(`ApplyMigration`, `RecordMigration`).

The `MC*` modules hold the instances. Operators whose comment begins with
"Mutant" are plausible faults of the definition that follows; no specification
uses them.

## 4. Runs

Passing:

| Run | Instance | Shows |
|---|---|---|
| `jobs_race` | one job, one machine, two profiles, two tokens, two handlers, failures | types; stale checks never skip work; tokens of finished jobs are revoked but for named reasons; an ended job that no handler is about to write stays as it is |
| `jobs_fair` | one job, one profile, two handlers, failures, fair | an accepted completion ends the job unless another handler writes to it within the walk, or a statement failed |
| `redeem_race` | one code, two addresses, two requests, failures, fair | the safety promises of the broker, its refinement of `SingleUseCode`, the limit per address as enforced, and a consumed code is answered unless a failure hits |
| `events_race` | two phone-homes, two replicas, one browser, channel of one, failures, fair | one order, losses only for a named reason, live events arrive |
| `cache_race` | three objects (one unsized, one static), a cache of two bytes, three requests, failures, fair | one filler, verified blobs, room was made, every request is answered unless a transfer stalls |
| `vendor_fair` | two rows of one entry, two replicas, one fault or deleted version, fair | verified packs, a completed row loses its pack to a deletion only, an outcome stands unless two runners had the row, every fetch ends |
| `access_race` | two users, subjects and addresses, one API token, two requests at a time, five in all | only administrators change roles, the last one goes only to overlapping revocations, a token names roles its owner held |
| `boot_race` | one machine, two profiles, two images, a site, two deployments, two operator calls, one boot request, expiring tokens, failing lookups | no reference dangles, a calm request is served what its deployment asks for or refused for its token |
| `deliveries_race` | two machines, wakes, agents, jobs, workers, a site without agent, limits of one, lists with a repeated id and with one id in two spellings, one fault, fair | at most once, delivered or lost to a named fault, every code is told and no string gets two |
| `ingest_race` | two captures of one image, two contents, three packs, two kinds of hardware, vendor fetches, one fault | types; completed captures have a version whose object is in place; drivers follow the plan |
| `startup_race` | two replicas and a seed-admin, two migrations, one fault, fair | what serves is ready, and it comes up unless a migration was torn |

Violation, the shortest disagreement TLC finds between the code and a sentence of
the repository (quoted under `findings`): `boot_capture` refutes
`CaptureNeverRestores`. The job of a capture's token is no longer active when
`LookupRenderBundle` looks for it, the bundle falls back to the machine's default
profile, and the target is told to restore that profile's golden image.

The modules state more sentences of the repository that TLC refutes on instances
of the same size (`RendersOwnJob` and `MenuReusesActiveJob` with two jobs, the latter
with the open menu, `IssueQuota` with two codes and a quota of one) and that have no
run of their own:

| Property | Module | Says | Code |
|---|---|---|---|
| `FollowsGraph` | `JobLifecycle` | `store.go:412-415` | two handlers pass the check, the second UPDATE (`store.go:450`) leaves the graph, even a terminal state |
| `CompletionSticks` | `JobLifecycle` | `store.go:1354-1358` | the hops of a walk are fixed by one read of the state; another handler's write between them ends the walk short |
| `FinishedJobHasNoToken` | `JobLifecycle` | `operator.go:755-757` | a job cancelled between the redeem's INSERTs (`broker.go:205`) keeps a live token |
| `FailAndCancelAlwaysReachable`, `PublishedStatesAreReal`, `RendersOwnJob`, `MenuReusesActiveJob` | `JobLifecycle` | comments of the module | see there |
| `IPLimit`, `FailedLookupsCount`, `IssueQuota` | `Redemption` | comments of the module | see there |
| `ContinuousStream` | `EventStream` | `render.go:753-754` | an event published between backfill and subscription (`render.go:807`) is not sent |
| `FillOnce` | `EdgeCache` | `cache.go:19-21` | a request that missed the file before a download ended downloads again (`cache.go:124`) |
| `PackHasContent` | `VendorFetch` | `vendorpacks.go:242-243` | a second fetch overwrites the object a pack refers to (`vendorpacks.go:230`) |
| `NeverLockedOut` | `Access` | `users.go:8-9` | two administrators revoke each other, each counted by the other's guard |
| `SubjectKeepsUser` | `Access` | `resolver.go:22-26` | a new subject with the address of a linked row is signed in as that row's user (`resolver.go:37`) |
| `CountedMachineGoes` | `Catalogue` | the error of `DeleteMachine` | machines with only ended jobs, or a code, are kept by the foreign key |
| `NothingLostByRestarts` | `Deliveries` | `wol.go:5-6` | a request is claimed before the agent has it |
| `OneCodeEach` | `Deliveries` | `bulk.go:71` | ids are compared as strings before they are parsed: a machine spelled in two ways gets two codes |
| `UploadsAreFound` | `ImageIngest` | `store.go:1499-1501` | a vendor fetch of a digest that is registered elsewhere has put it under its own key |
| `VersionHasContent` | `ImageIngest` | `store.go:1529` | a version of a blob that was never uploaded |
| `CapturedIsGolden` | `ImageIngest` | `capture.go:152` | the request is cut between the job's end and the golden flag |
| `AlwaysComesUp` | `Startup` | `main.go:154` | a migration that stopped between body and row fails on every start |

Bounds and why they are enough. Every property is about a pair of handlers on one
row or about one handler and the environment, so two handlers reach it; a third
request in `cache_race` gives a filler two waiters, of which one becomes the next
filler. One job is enough in `jobs_race` and `jobs_fair` because no property there
relates two jobs; what the newest of several jobs is used for is in `boot_race`. In
`boot_race` one boot request is enough because requests write nothing; two
deployments make the newest job another one than the token's, and two operator
calls are a change with its undoing, or a count with a change under it. In
`access_race` five requests are what it takes for two users to become
administrators and revoke each other. The limits
(rate per address, attempts per code, channel size, cache size, LIMITs of the
claims) are 0, 1 or 2 so that every run is at the limit and beyond it. `MaxTries`
bounds redemptions per address, `MaxFaults` crashes, lost calls and restarts,
`MaxJobs`, `MaxDeployments`, `MaxCalls`, `MaxEdits`, `MaxOps`, `MaxChanges` and
`MaxHours` rows, calls, changes and time. Where parts of a module share no row,
`Starts` gives a behaviour the one or the other (`deliveries_race`,
`ingest_race`).
`CHECK_DEADLOCK FALSE` stands where all requests, codes or rows are used up, or a
process is stopped for good. Symmetry is used only in runs without liveness. The
type invariants `TypeOK` of `Redemption`, `Access` and `BootRender`,
`DeliveriesTypeOK` and `StartupTypeOK` are proved and left out of the runs.

Fairness. Go schedules every runnable goroutine, SQL statements end or fail, and the
listener, the relay loop, the pollers and the runners are loops: weak fairness of
the steps of a started handler. In `EdgeCache` only of the local ones: the client of
the mirror has no timeout, a transfer may never end, and `AnsweredUnlessStalled`
exempts who waits for it. In `VendorFetch` of every call of a runner, which have
timeouts but for the DELETE after a mismatch (`vendorpacks.go:248-249`), of which it
is assumed; also
of claiming, which a ticker of five seconds does on every replica, and of time
passing; in `Deliveries` of claiming, by tickers of 15 and 30 seconds, and of the
restart of a worker, with the assumption about `Hour` of section 3; in `Startup` of the restart of a serve, which the compose
file asks for. Nothing is assumed of clients, of failures, or of the next request.

## 5. Proofs

`JobLifecycleProofs` (from `JobsAssumption` alone) proves for every number of
jobs, machines, profiles, tokens and requests, with and without failures:
`TypeCorrect`, `Earned`, `Revoked` and `Settled` (`SettledIsFinal`). `IInv` adds to the
properties what a handler has set by its step (`RequestOK`), that a live token
is bound to a row (`TokensBound`), that terminal jobs are finished, and `Witnessed`: the check made before an
UPDATE was made against a state the job has been in. The last one is the heart:
`ProgressIsEarned` is not inductive without it, since the row may have moved
between check and UPDATE, but what the job has visited only grows.
For `Settled`, `OnlyUpdateMoves` shows that a row with a state changes by the UPDATE
of a handler past its check only, and `OnlyCheckedUpdate` that no handler gets past
the check of a terminal state.

`RedemptionProofs` (from `RedemptionAssumption`) proves `TypeCorrect`,
`OneDeployment`, `BindingRespected`, `Burned`, `LockedUnredeemed` and the
refinement `Refines`. `IInv` has three strengthenings: `Knows`, what a request
learned and nobody can undo (the row exists, the address is in the binding);
`Blank`, a row not redeemed has no job, token or answer; `Holders`, the request
past `ConsumeCode` is alone on its code, and its step tells which rows exist.
`Holders` carries the uniqueness: `ConsumeCode` needs an unredeemed row, for which
`Blank` leaves no holder. For the refinement, `StepKinds` sorts the steps into
those that insert, consume, deliver or age codes and the rest, and `StepRefines`
maps each kind to an action of `SingleUseCode` or a stutter.

The count of an address is not inductive by itself: `Gate` adds the requests that
have counted and not yet recorded (`Passing`), and `AddressLimited` is `IPGate`.

`EventStreamProofs` (from `StreamAssumption`) proves `TypeCorrect`, `Ordered`
(`OneOrdering`) and `Losses` (`LossesAreKnown`). For the order, what a browser was
sent, what its channel holds and what its replica's connection has still to deliver
are one increasing chain in the numbering of the notifications. For the losses,
an event that was published is in one of these, was dropped for a recorded reason,
or belongs to the backfill; the invariant says for each step of the publisher and
of the browser which of these it may be.

`VendorFetchProofs` (from `FetchAssumption`) proves `TypeCorrect`, `Verified`
(`PackWasVerified`), `Completed` (`CompletedHasPack`) and `Outcome` (`OutcomeStands`).
A row may have two runners and its version may be deleted under both, so neither may
rely on the row's state; `Earned` says what a runner itself has done by its step, and
holds whatever the other does because verifications and blobs are never taken back.
`Named` relates the version a row names to the stores: it is there unless an operator
deleted it. `Alone` is for the outcome: a row that was never silent has one runner,
which finds it running, so a second outcome takes a silence.

`AccessProofs` (from `AccessAssumption`) proves `TypeCorrect`, `AdminsOnly`
(`RoleChangesByAdmins`), `LockoutNeedsRace` (`LastAdminNeedsRace`) and `ScopeHeld`
(`TokenScopeWasHeld`). `Identities` are the unique indexes, `Grants` and `TokensOK` the
foreign keys; `Vouched` says who stands behind a request at each step: the
permissions it read, and the roles it found to scope a token with, are those its user
has held since the request came.

`EdgeProofs` has two parts. Of the mirror (from `CacheAssumption`,
`NobodyAssumption`) it proves `TypeCorrect`, `OneDownload` (`OneFiller`), `Verified`
(`BlobsAreVerified`) and `RoomMade` (`RoomWasMade`). The last one needs `Looked`: the
total an eviction keeps covers the entries it has yet to visit and all files that
were not written since its walk, although other requests evict, fill and touch files
meanwhile; removing an entry takes its size from both sides, also when somebody else
had removed it. Sizes of sets are cardinalities of sets of bytes, so that the
lemmas about sums are theorems about finite sets. Of the deliveries (from
`DeliveriesAssumption`) it proves `DeliveriesTypeCorrect`, `Once` (`AtMostOnce`) and
`BulkTold` (`BulkTellsAll`): `WakesHeld` and `JobsHeld` say that a row in the hands of
an agent or a worker is claimed, in no other hands and not yet delivered; `BulkAt` and `BulkIssued`
relate the rows of the reply to the id the call is at. `Dedupe` keeps the k-th first
mention of the list, and `DedupeDistinct` shows that it repeats no string; two
spellings of one machine are two strings, and nothing is claimed of those.

`IngestProofs` (from `IngestAssumption`, `PacksAssumption`, `StartsAssumption`) proves
`TypeCorrect` (both parts), `Deployable` (`CaptureIsDeployable`) and `FollowPlan`
(`DriversFollowPlan`). The invariant of the images follows a capture through its
script and its requests: `Placed` says that what a script or a request is past the
upload with is stored where its row says, which no other writer can undo since the
row keeps its first place; the one of the packs says that the hardware in
the machine's attributes still selects what the plan selected as long as nothing
has changed. The lemmas about the matcher (`TierFacts` and those after it) show that
a set of matches has a first one and that a pack that names a device beats all that
do not.

`ServerProofs` has three parts. `Startup` (from `StartupAssumption`):
`StartupTypeCorrect` and `Ready` (`ServesOnlyReady`). `StartupIInv` adds `Migrated`, the
migrations a process has found or made recorded at each of its steps, and
`Protected`, the checks of `serve` it has passed. `ServesOnlyReady` alone is not
inductive: that a process at `audit` has the whole schema was established by its own
walk, and stays true because rows of `schema_migrations` are only added, whatever
other processes do (`StepStartup`). `Catalogue` (from `CatalogueAssumption`):
`Referenced` (`ReferencesHold`), with the fact that the DELETE in progress names a row
of its table; what its counts have found is not in the invariant, because nothing
depends on it: the foreign keys decide. `BootRender`: `BootTypeCorrect` and `Served`
(`CalmBootIsServed`), with tokens that expire and the states the token check admits.
`Placed` says which files a lookup is for, `Agrees` that what a
calm request has read so far is what the view of its deployment still has,
`Branched` that the branch it took is the one the view asks for; each handler keeps
them and, if it ends the request, answers as `Expected` says (`Handled`).

What the proofs assume beyond types and finite sets is that `None`, `Absent`, `Now` and the
like, which stand for NULL, are no ids, that rows of different tables have different
ids, and that driver packs differ in their rank: the rows come ORDER BY their id and
the matcher's sort is stable.

Two faults of the specification came to light by these proofs, neither within the
bounds of the runs. The view on which `calm` depends left the machine's site out: a
request that has read a site without mirror, a machine that is then moved away and a
mirror that is switched on at the site it left take four operator calls, and the
request counted as calm although it was sent to that mirror. And two guards of a CASE in `CalmBootIsServed` overlapped.

Only model-checked: liveness (`CompletionUnlessContended`, `ConsumedIsDelivered`,
`LiveEventsArrive`, `AnsweredUnlessStalled`, `EveryFetchEnds`, `DeliveredOrLost`,
`ComesUp`), which needs fairness and is out of the prover's reach, and the violations
of section 4.

## 6. Not modelled

Left out for good: the text of scripts and answer files, reports, audit queries
and metrics (read-only), http-boot (stateless), the boot chain's shell scripts
except for what a capture script asks of the server, deployctl, collections, SDKs,
Terraform provider and UI (clients without shared state), the register of boot
sticks (inserted and listed, read by nothing else). Inside modelled parts: input
parsing, the in-process token bucket of the broker, temporary files of the mirror,
the worker's deletion of redemption attempts that no count sees any more, the audit
log, which nothing reads, signatures of ID tokens, the bytes of a magic packet,
normalisation of hardware names.

Two sentences about the matcher are not what it does; the model follows the code
and neither has a property. "os-version alone is not a match" (`match.go:167`), yet
a pack whose only rule is an OS version is offered to every machine with that OS.
"Multiple rules on a pack version are AND'd" (`0001_init.sql:96`), yet one matching
rule is enough.
