# everything.dev — TLA+ models, model checking and proofs

everything.dev publishes web applications as a JSON configuration (the *runtime
config*: remotes, plugins, integrity pins) in a key-value registry on NEAR
(*FastKV*). A CLI (`bos`) builds and publishes; hosts resolve the configuration
from the registry, compose it with the platform's release manifest and serve it
to the visitors of the runtime and of its tenants; a console reconciles hosted
deployments; plugins run in the host and keep their tables in Postgres. This
directory models the parts of it where order, failure and concurrency decide
correctness.

Paths below are relative to the repository's sources; `ed/` is
`packages/everything-dev/src/`.

## 1. Inventory

| Component | State it keeps | Operations | Hard part | What makes it correct |
|---|---|---|---|---|
| **FastKV registry** (`ed/services/registry/*`) | per gateway: histories of `bos.config.json`, `manifest.json` (the tag), `versions/<v>.json` | latest read, history read, one atomic write of several keys | reads fail silently; last write wins | the tag always names a record with its digest |
| **Deploy train** (`ed/services/deploy/*`, `ed/handlers/deploy.ts`) | one process's memory per invocation; transactions in flight | deploy, config-only deploy, rollback, promote; gates, classify, record check, submit, confirm, resubmit; image, smoke, Railway legs | no lock: trains race; a process dies between broadcast and confirmation; a transaction lands late; a red boot gate undoes a publish that others built upon | releases chain and only move forward; a counted publish is in the registry; a red gate restores what was live |
| **Host runtime snapshot** (`host/src/services/{runtime-snapshot,snapshot-coordinator,snapshot-watch}.ts`) | live state (config, caches, adopted pointer), last seen fingerprint, alert | tick, resolve, build, pre-warm, verify, swap, persist | the adopt fails half way; publishes and outages between its steps; the boot is still composing | only verified generations are swapped in; the watch is quiet only about what is served; the published pointer is eventually served |
| **Boot** (`ed/services/start/{boot,snapshot-source}.ts`, `ed/services/snapshot/schema.ts`, `host/src/program.ts`) | persisted boot snapshot, boot config and its source | resolve, fall back to the snapshot, persist, build, compose, exit | outage at any step; crash between persist and composition; other writers of the file | a restart in an outage serves what was serving |
| **Tenant bindings** (`host/src/services/{binding-resolver,tenant-runtime}.ts`) | one cache entry of the API's table, the fetch in flight, the memory of a failure | resolve a host name, refresh, fall back to stale entries | everybody waits for one fetch, which may fail or answer late | entries never go back; an outage hides no tenant the last answer told of; a change gets through |
| **UI serving** (`host/src/services/{tenant-runtime,ui-compose,ssr-render,runtime-snapshot}.ts`) | per generation: cache of manifests; cache of verifications | verify a tenant's override, load manifests, compose, swap, release | overlapping verifications, evictions, drift of deployed bytes, a swap under a request | a tenant's replacement of a base UI is shown only verified; its drift ends up refused; one generation per page, as far as pins go |
| **Plugin runtime** (`packages/every-plugin/src/runtime`) | caches of promises and routers, scopes, active instances | use, evict, shut down; load, instantiate, initialize, register | callers share a promise that fails or is evicted under them | one instance per key; no scope leaks; failures are forgotten; every call ends |
| **Proposals plugin** (`plugins/proposals`) | proposals, submissions, audit log | propose, approve, reject, reopen, remove, report an outcome, list | every operation reads, then writes in a transaction that compares `updatedAt` | log and row agree; decisions are informed; an attempt owns its row |
| **Database migrations** (`ed/db/{run-migrations,layer,core}.ts`) | the migration journal, the tables, an advisory lock | guard, run, retry, drift check | replicas and builds boot at once, fail and die anywhere | each migration once; a clean prefix; ready only when migrated |
| **Deploy console reconciler** (`api/src/lib/reconciler.ts`, `deploy-history.ts`, `runtime-databases.ts`, `ed/services/hosting/docker.ts`) | converged fingerprint and drift per console; container, databases | tick: read, observe, provision, resolve secrets, replace, poll, restart | two consoles; failure between two provider calls; torn reads | databases before the instance; a publish ends up deployed; drift ends |
| Host plugin boot, auth and wallets, development server, scaffolding, registry plugin, web UI | — | — | — | not modelled, see section 6 |

How they meet. The registry is the shared state: the train writes it, hosts and
the console read it; hosts never write it, and train and host share no memory.
The host asks the API for tenant bindings and the CDN for manifests. The console
drives docker and Postgres. Plugins are loaded by the host through the plugin
runtime, and each migrates its schema when its database layer is built; all of
them share one journal.

The behaviours nobody can test well are listed in PROJECT.json under `hazards`,
each at its line and with the properties that would notice it going wrong.

## 2. Modules

### FastKV.tla — the registry
State: `configs`, `tags`, `records`, append-only histories per environment (one
gateway each). `Apply(w)` is a transaction landing: all its keys in one step.
The reads are operators that return the *set* of possible answers:
`FetchRegistryKey` and `FetchConfigHistory` also answer "absent" when
`ReadsMayFail`, because `fetchJsonOrNull` turns a failure into null. Keys keep
their shape where the code distinguishes it: `ManifestTagRelKey` is the relative
key, `ManifestKey` the wire key, and a history read takes its key verbatim.

Abstracted: contents are a *base* (a model value) plus the `rolledBackFrom`
stamp; a record is its base and its compat floor, which is never below `Cutover`
(`CUTOVER_RELEASE`, from which on every release has a record); a digest is the
record itself (injective). The audit record and the boot snapshot key are write-only for the
train. Landing and being indexed are one step: the indexer's lag only delays the
read-back, which may wait arbitrarily here.

### DeployTrain.tla — the invocations
One train per invocation, `pc` its position at an await:

| Action | Code |
|---|---|
| `StartDeploy`, `StartConfigOnly`, `StartRollback` | `deployBody`, config-only merge in `runPublishTrain`, `rollbackBody` (promote included) |
| `Gates` | preflight results, boot check, pin verification, composition gate |
| `Classify`, `CheckRecord` | release classifier and manifest composition; record immutability |
| `SkipPublished`, `NotPublished` | `isConfigAlreadyPublished` |
| `Submit`, `VerifyLeg`, `Confirmed`, `ConfirmTimeout` | `submitOnce`, the read-back and the deadline of `confirmPublish` |
| `TerminalTx` | the verdict of its status probe: failed, or unknown past the 30 s grace, which is a guess: the chain may still apply it |
| `Resubmit` | the single resubmission, an await later, between which and the probe anything may land |
| `ImageLeg`, `SmokeLeg`, `RailwayLeg`, `RollbackToPreviousSnapshot` | `runPostPublishLegs`, `rollbackToPreviousSnapshot` |
| `Land`, `Kill` | the chain; the death of the process |

A rollback of a red smoke re-enters the same gates with `recovering` set, as
`publishRollbackSnapshot` calls the train again. `prior` is a history variable
(the config live when the train started) used by properties only. An invocation
that ends forgets its memory, so states differ only in what can still matter.

Which writes are broadcast by a publish key (whose status can be probed, hence
resubmitted) is the constant `KeySigners`; wallet and custody submissions are
not probed. A transaction remembers whether the wait for it ended on the guess
(`guessed`, a history mark). `MaxActive` says how many invocations overlap: CI serialises
production deploys (`.github/workflows/deploy.yml`, `concurrency`), operators
and staging do not.

### PlatformRegistry.tla — the promise
What a runtime resolving through the registry relies on: the live config changes
by `Publish`; config, record and pointer change together by `Release`. The
train's registry implements it (`KeepsPromise`) under the mapping "latest of
each history".

### SnapshotHost.tla — a runtime of the host
One runtime, from boot to the swap of what it serves. `phase` is where the boot
is (`down`, `parent`, `persist`, `build`, `composing`, `serving`), `pc` where the
watch fiber is at an await; the fiber runs from `composing` on, because it is
forked with the layers and the boot composition comes after.

| Action | Code |
|---|---|
| `BootFetch`, `BootExtends`, `BootPersist` | `resolvePublishedConfig` (own pointer, then parent), the snapshot rung and the persist of `snapshot-source.ts` |
| `BootBuild`, `BootCompose` (and `…Fails`) | plugins and runtime config in `start/boot.ts`; the boot composition in `program.ts`, which exits when it fails |
| `TickFetch`, `TickVerify` | `runWatchTick`: a new fingerprint is adopted, an unchanged one has its live entries verified |
| `AdoptResolve`, `AdoptBuild`, `AdoptPrewarm`, `AdoptSwap`, `AdoptPersist`, `AdoptFails` | `adoptTransaction`, one action per await; swap is in the step of the last verification because nothing is awaited between them |
| `Publish`, `ParentPublish`, `Stage`, `RegistryToggles`, `CdnToggles`, `LoseDisk`, `Crash` | the outside |

A tick whose pointer cannot be read, or is absent, changes nothing and is no
action. `live`, `lastSeen` and the fiber are lost in a crash; `disk` is not.
Data: a generation is the digest of its UI (every step that fails or compares
does so for it first; API and auth are frozen at boot), whether it carries its
configured plugins, and the pointer it was adopted from. A published pointer is
its own UI or `Inherit`. Two classes of bad bundles are told apart because
different steps notice them: `Uncomposable` fails every composition, `BadEntry`
only the adopt's verification of the browser entry, which the boot does not do.
During a CDN outage a fetch may fail or be answered by a cache.
`owns` and `parents` are history variables that no action reads; `source`, where
the boot config came from, is what the health check reports.
The registry's side of a publish is DeployTrain's; here a pointer is published
in one step, which `KeepsPromise` justifies. The atomic replacement of the
snapshot file is assumed.

### Serving.tla — what the host promises
Visitors get nothing or one published generation that composed; it changes in
one step, and only to one whose entries were verified. `SnapshotHost` implements
it with `serving` the live UI of a host whose boot composed.

### Proposals.tla — submissions, moderation, lifecycles
The rows of `proposals`, `proposal_submissions` (all of them) and
`proposal_audit_log` (its newest entry), per entity. A person's request is a
`call` that remembers what it read until its transaction; `clock` is
`Date.now()`, which doubles as the version of a row (`nextTimestamp`).

| Action | Code (`plugins/proposals/src/services/proposals.ts`) |
|---|---|
| `LookUpKey`, `Propose` | `propose`: idempotency key, then row and guards |
| `Approve`, `Reject`, `Reopen`, `Remove`, `MarkApplied`, `MarkApplyFailed`, `MarkRemoved`, `MarkRemoveFailed` | the operation up to the write it prepares |
| `Commit`, `Refused` | the transaction, or its comparison of `updatedAt` failing |
| `Reply` | the reply of `approve` and `remove`, loaded after the commit: the client gets the attempt of the row as it is by then (`told`) |
| `View` | an admin loads the row |
| `Work`, `Tick` | what the admin's client does with the resource; time |

`seen`, `task` and `attempts` are on the admin's side: the row that was shown, the
version a lifecycle was started with, how often it was started. A `task` keeps both
the attempt it commits and the one its reply told it of, which differ after a retry
that commits in between. Every operation
that changes the tables is an action.

### PluginRuntime.tla — plugins in a process
An instance is a promise of the plugin cache, with its scope and its router. Its
pipeline (`Loaded`, `LoadFails`, `Initialized`, `InitializeFails`, `Interrupted`)
runs on its own; callers `Join` or `Load`, then resume after their await (`Used`,
`UseFails`, `RouterThrows`, `EvictFailed`, `EvictClose`, `EvictUnregister`);
`evictPlugin`, `Shutdown` and `ShutdownEnds` are the rest of `runtime/index.ts`
and its services. Schedules of retries inside a load are one outcome.

### UiServing.tla — pages and assets of a runtime and its tenants
`page[r]` is a request: the generation it captured (`Arrive`), its verification
(`VerifyCached`, `VerifyFirst`, `VerifyExpired`, settled by `CheckSucceeds` or
`CheckFails`), its manifests (`ManifestCached`, `ManifestAsked`, `ManifestFetched`,
`LastGood`, `NoManifest`, `CodeFails`), `Composed` and `Leave`. `Swap` adopts a
generation and releases the caches of the one before. Verified are the tenants in
`Compared`: those that replace a UI the base has; the loop skips a plugin of `Bare`,
which has a UI only where a tenant brings one. A manifest is checked against its pin
unless the site's config has none (`Unpinned`). The caches of a generation that is
not live and that no request captured are dropped. Outside: `Deploy` (a build
or a rollback at a UI's address), `ManifestExpires`, `VerificationExpires`,
`PushedOut` (other tenants fill the cache). `sound` is a history variable: a
verification succeeded since the cached one expired.

### TenantBindings.tla — whose runtime a host name shows
`StartFetch`, `Join`, `Cached`, `Remembered` are the ways through
`ensureBindingsLoaded`; `ApiAnswers`, `FetchSucceeds`, `FetchFailsStale`,
`FetchFails` its fetch; `ConfigLoaded`, `ConfigFails`, `Leave` the rest of the
request; `TableChanges`, `ApiBecomes`, `Expires`, `Unblocks` the outside. The API answers, has no such route (the code takes its 404
for an empty table) or is down. A table carries a stamp, which only the properties
read.

### Reconciler.tla — the console
`tick[c]` is where a console's `reconcileNamespace` is, one action per await:
`Wakes`, `Reads` (rows joined from three reads), `Observes`,
`LooksUp`, `Creates`/`AlreadyThere`, `Resolves`, `Replaces`, `Inspects`,
`Healthy`/`Unhealthy`, or `Heals`, `Restarts`, `NothingToRestart`; `Fails` is its catch. `Join` is the row that
reads around a publish give: the newest fingerprint may come with the image pinned
before it. `Healthy` asks only whether something runs at the URL that `Inspects`
found (`urls`: the consoles whose URL is of the present run), whichever image it is.
`Publish`, `Disturbance`, `ContainerStops` and `ConsoleRestarts` are the outside. A console
forgets everything in a restart; container and databases stay.

### Migrations.tla — the boot of a plugin's database
A migrator is one process that boots one build of one plugin; builds know
different lengths of the plugin's list of migrations.

| Action | Code (`ed/db/run-migrations.ts`, `layer.ts`) |
|---|---|
| `Start` | the driver, which creates the schema under the migration lock |
| `CheckAhead` | the ahead-of-plugin guard of `runMigrations` |
| `ReadsJournal` | the fast-path read outside the lock, empty when it fails |
| `Locks`, `Rereads`, `Records`, `Applies` | one transaction of `runLockedTransaction`: lock, journal again, preflight, statements and row |
| `RunEnds`, `DetectDrift` | end of the run; `detectDrift` and what `databaseLayer` makes of it |
| `RunFails` | a failed or timed-out statement: rollback, `Effect.retry` |
| `Crash`, `Trouble` | death of the process; whether things fail |

A migration is the tables it creates (or renames to) and drops (or renames from),
which is what `extractExpectedTables` sees of it. A transaction's effect is the
step of its commit. `db doctor`, `db repair` and drizzle-kit are left out: they
write the journal without the lock and are an operator's tools.

### MC modules, proof modules
`MCX` extends `X` with model values and the sets the configurations name;
`X_proofs` extends `X` with its theorems (section 4).

## 3. Runs

| Run | Question | Instance |
|---|---|---|
| `deploy_race` | Does the pointer stay on its record, and does a publish that counts mean it was written, when everything goes wrong? `TypeOK`, `TagNamesRecord`, `KeepsPromise`, `ReadBackSound` | 2 concurrent trains, 2 contents, 2 versions, the cutover at 1, failing reads, late landings, kills; no resubmission |
| `deploy_serial` | Are releases right when CI's serialisation holds, reads answer and nothing lands late? `FloorsChain`, `TagOnlyForward`, `RedRestoresPrior` | 3 trains in turn, one of which resubmits, 2 contents, 3 versions, the cutover at 2 |
| `deploy_ends` | When is a write applied twice, and does every invocation end? `AppliedOnce`, `Terminates` | 2 concurrent trains, one of which resubmits, 1 content, 1 version, failing reads, late landings |
| `host_hostile` | Can the host be brought to serve, or to be quiet about, the wrong thing? `TypeOK`, `QuietMeansServing`, `ServesWhatItPromised` | 3 bundles (one uncomposable, one with a bad entry), every flag on, 2 publishes, 2 crashes |
| `host_converges` | Does the host end up where it should, and does a restart bring back what was serving? `DiskIsLive`, `Converges`, `OutageSurvived`, `AlertsIffMismatch` | 3 bundles, 2 publishes, a crash, nobody else writing the file, own plugins |
| `moderation` | Do tables agree and do decisions and reports hit what they mean? `AuditTellsState`, `KeyOnce`, `QueueMatchesGuards`, `DecisionOnWhatWasSeen`, `LifecycleOwnsRow` | 1 entity, 2 submitters, 2 admins, 2 payloads, 1 key, 5 instants, a timeout of 1 |
| `plugins_shared` | What do callers that share loads get? `ScopesReachable`, `OneInstancePerKey`, `FailureForgotten`, `EveryCallEnds` | 3 callers, 1 key, 3 loads, shutdown |
| `ui_serving` | What can a page be made of? `PageOfOneGeneration`, `AdmittedWasVerified`, `DriftIsRefused`, `RequestsEnd` | a tenant that replaces the core UI and one that brings a UI for a bare plugin, without a manifest pin; a page request for either and an asset request of the first, 2 verifications in flight, 2 builds |
| `tenant_bindings` | What do failures do to the table? `OutageHidesNobody`, `EntriesNeverGoBack`, `ChangesGetThrough`, `RequestsEnd` | 2 host names, 2 requests, 2 changes, an API that answers, has no such route or is down |
| `reconciles` | Does the instance get where it should? `DatabasesFirst`, `PublishDeploys`, `DriftEnds` | 2 consoles, 2 databases, 2 publishes, 1 restart |
| `migrates` | What do boots do to each other? `JournaledOnce`, `JournalBacked`, `ReadyMeansMigrated`, `BootsConverge` | an old build and two new ones, 2 migrations of which the second renames a table, 2 retries, a database that may have some or all of the first tables |
| `shared_journal` | expected violation of `RefusedMeansNewer`, see section 5 | 2 plugins, 2 builds |

Bounds. Two trains are enough for every race in the code, which compares one
read of its own with one write of another; three serial trains give a chain of
releases with a rollback in it. Two versions give a first and a second release;
concurrency with two contents and concurrency with resubmission are two runs
(`deploy_race`, `deploy_ends`) because together they multiply the states without
a new interaction. Each invocation broadcasts
at most four transactions (publish, resubmission, rollback, resubmission), so
histories are bounded without a constraint. A cutover at 2 of 3 versions has an
older tag before it, a first release at it and one after it. Symmetry is over trains and
contents, or people and payloads, which the specifications only compare for
equality; it is not used with liveness. `deploy_serial` turns three real weaknesses
off (failing reads, concurrency, transactions that land when nobody waits any more)
to check the logic without them; the other two runs have them all.

For the host, registry and CDN go up and down without bound, between any two
steps. Publishes and crashes are bounded (`MaxPublishes`, `MaxCrashes`): a publish
during an adopt and one after it, and a crash of the host that came back from
one, are the interactions the code has; three bundles give the watch a good one
to come from, and one of each kind of bad one to go to.

Proposals: two admins and two submitters make every pair of operations race; the
clock has room for a lifecycle, its timeout, a retry and a late report. Plugin
runtime: one key, since keys share nothing but shutdown; three callers are two
that share a failing load and one that starts the next; `MaxLoads` bounds loads
ever started. UI serving: two builds are the one pinned and another one, two
verifications in flight are the one cached and the one that replaces it; `Asks`
keeps the asset request to the first tenant and `Redeployed` keeps the second
tenant's build, whose bytes nothing compares, as it is.
Bindings: requests and fetches repeat without bound. Reconciler: a restart and a
publish in any order, failures without bound while the substrate is disturbed.
Migrations: two new builds race each other and the old one; retries are fewer
than the code's three, which only repeats the last of them.

Deadlock is checked for the host and for migrations. Elsewhere the systems may
stop: invocations end, bounded clocks and loads run out, a container that is
stuck stays so.

Fairness. Each `FairSpec` is weak fairness of the program's own steps, and
nothing of those who use it: an await has a deadline or settles, a continuation
runs, a timer fires.
* trains: every await has a deadline (fetch timeouts, the 120 s confirmation
  timeout); a transaction may never land;
* host: a supervisor restarts the process (`Boot`), the watch fiber's timer fires
  (`Watch`); registry, CDN and publishers owe nothing, and the liveness
  properties say themselves what has to stay up;
* plugin runtime: continuations run, a shutdown that began ends; that loads settle is
  an assumption, since nothing puts a timeout around loading a remote or a plugin's
  own initialize: one that hangs makes its callers hang;
* UI serving and bindings: requests and fetches go on, times to live end
  (`VerificationExpires`, `Expires`, `Unblocks`);
* reconciler: every console's loop ticks; `PublishDeploys` and `DriftEnds` name
  the calm they need, and `PublishDeploys` that no console reads across the publish
  (`Torn`, section 5; without it TLC finds the violation);
* migrations: a boot runs on and a failed one is started again; `BootsConverge`
  is about a database that stays calm from some time on.

## 4. Proofs

`DeployTrain_proofs.tla` proves, for every number of trains, environments,
contents and versions, with or without failing reads and late landings:

* `TypeCorrect` — `Spec => []TypeOK`;
* `PointerNamesRecord` — `Spec => []TagNamesRecord`;
* `RegistryKeepsPromise` — `Spec => KeepsPromise`, the refinement of
  PlatformRegistry;
* `CountedIsWritten` — `Spec => ReadBackSound`;
* `NothingAppliedTwice` — `Spec => []AppliedOnce`: a write is applied twice only as a
  broadcast and its resubmission, and only if the wait for the broadcast was cut
  short by the guess that it was dropped; no hypothesis about landing;
* `ReleasesChain`, `PointerOnlyForward` — `Spec /\ []ProductionSerial` implies
  `[]FloorsChain` (a floor is the version released before, or the cutover if that
  is newer) and `TagOnlyForward`, assuming `Reliable`;
* `ProductionRestored` — under the same hypotheses the recovery of a red
  production train puts back the content from before it (`RestoresPrior`), and
  `RedRestores`: where production is the only environment, `RedRestoresPrior`;
* `InvocationsAreBounded` — every step of an invocation lowers its `Rank`, which
  is at most 34, and no step of another raises it.

The argument. `TagNamesRecord` is not inductive: it depends on what will be
written. `Inv` adds that whatever a running train has planned, and whatever was
ever broadcast, is *sound* (`WriteSound`): a release carries its record, and
nothing writes the tag without a record. Soundness of a plan is established when
a train starts and when it classifies, kept by every other step (one lemma per
action), and carried into `txs` by a broadcast. Then the only step that touches
the registry is `Land`, and landing a sound write keeps the pointer on its
record (`ApplyTagNamesRecord`) and is a `Publish` or a `Release`
(`PromiseStep`). That a rollback writes no tag is a lemma about the key it reads
(`NoPointerRestore`); with the pointer restore repaired, `TagNamesRecord` would
need record immutability as well.

The protocol theorems rest on a second layer. `NextEffects` says that every step
is one of a few effects on one train (`Starts`, `Effect`: it moves on, composes,
submits, resends, verifies a leg, reports, succeeds, fails or recovers) or a
`Land`, and leaves the others' memory alone. Each invariant is then shown once per
effect and once for the steps of others:

| Invariant | Says, of every train | Gives |
|---|---|---|
| `ReadBack` | each leg it has verified is in the history, which only grows | `CountedIsWritten` |
| `SendingInv` | it broadcasts a publish without its own stamp and then, at most, a recovery with it; what it confirms is what it broadcast last; stamps are of trains that have started | which broadcast is which |
| `Once` | two broadcasts of one write follow each other and the first was given up, rejected or on the guess; a third there is not, nor a resubmission of what was not given up | `NothingAppliedTwice` |
| `Releasing` | only production composes a release, and until it lands the pointer stays at the version its floor names | `ReleasesChain`, `PointerOnlyForward` |
| `Restoring` | what was live before it is still live until its publish lands, and the entry before the latest afterwards | `ProductionRestored`, `RedRestores` |

The first three hold whatever trains race. The last two need two hypotheses, and
section 5 says what happens without them. `Reliable`: reads answer and nothing
lands late; a swallowed read is an absent tag, which tightens a floor, and an
absent history, which has nothing to restore. `[]ProductionSerial`: at most one
running invocation deploys to production. CI keeps to it
(`.github/workflows/deploy.yml:32-34` queues, it does not cancel); nothing in the
train does, so operators must. It is a hypothesis about behaviours, not about
constants: staging trains may race in any number (`staging.yml` cancels the run
in progress). That it is satisfiable is lemma `OneAtATime`: with `MaxActive = 1`,
as in `deploy_serial`, every behaviour is serial. `RedRestoresPrior` speaks of
every environment and is false for staging, whose recovery reads production's
history (section 5), hence its extra assumption.

`Rank` is the half of `Terminates` that needs no fairness: whatever is read,
reported or decided, an invocation has at most 34 steps. What is left to fairness,
and to TLC, is that its next step is taken.

`SnapshotHost_proofs.tla` proves, for any bundles, any bad ones among them, any
flags and any bounds:

* `TypeCorrect` — `Spec => []TypeOK`;
* `QuietIsServing` — `Spec => []QuietMeansServing`;
* `DiskServes` — `Spec => []DiskIsLive`, assuming that writes succeed and that
  nobody stages or deletes the file (each assumption is needed);
* `HostKeepsPromise` — `Spec => ServesWhatItPromised`, the refinement of Serving.

The argument. What is quiet, served or persisted at the end of an adopt was
decided several awaits before. `IInv` carries it through: the pointer a tick
holds was published and the generation it resolved to is one of that pointer's
(`HoldsPublished`; publishes only add, lemma `Grows`), the generation is composed
when verification starts and live when the write starts (`AdoptProgress`), and
only the boot generation may be live uncomposed (`LiveComposed`), which is why
the swap during the boot composition is harmless. `DiskFollows` adds that a boot
has persisted what it builds.

`Proposals_proofs.tla`, for any people, entities, payloads, policy and timeout:
`ModerationTyped`, `LogAndRowAgree` (`AuditTellsState`), `KeysAreUsedOnce`
(`KeyOnce`), `QueueIsRight` (`QueueMatchesGuards`), `DecisionsAreInformed`
(`DecisionOnWhatWasSeen`), `AttemptOwnsRow` (`LifecycleOwnsRow`). A write was
prepared from a row that may be gone. `WritesFit` says what it is worth: *if* its
row is still the current version, then the write is one its guards allow for that
very row. Versions only grow (`NextIsLater`), so a row that has the version an
admin was shown is the row that was shown (`SeenFits`), and one with the version
of a task belongs to the task's attempt (`TasksFit`), unless the task's reply was loaded from
a later attempt's row: that exception (`Mistaken`) is part of `LifecycleOwnsRow`.

`PluginRuntime_proofs.tla`, for any callers and keys: `RuntimeTyped`,
`NoScopeLeaks` (`ScopesReachable`), `CallersShare` (`OneInstancePerKey`),
`NoFailureSticks` (`FailureForgotten`). The caches and the pipelines are tied by:
a cached instance has the key it is cached under (`NamesKeys`), every instance
that holds anything is cached, being evicted or being shut down (`Reachable`),
and a cached promise that is not ready has a caller waiting (`LoadsAwaited`),
who will remove it if it fails.

`UiServing_proofs.tla`, for any tenants, sources and requests: `ServingTyped`,
`PagesAreOfOneGeneration` (`PageOfOneGeneration`), `OverridesAreVerified`
(`AdmittedWasVerified`). They are about what the code compares: the tenants of
`Compared`, and manifests for which a pin was published. What the caches of a generation hold matched that
generation's pins (`CachesPinned`), hence so does what a request took from them
(`PartsPinned`); a settled entry in the cache of verifications stands for a
success (`VerifiedSound`), whichever of several overlapping ones wrote it.

`TenantBindings_proofs.tla`: `BindingsTyped`, `OutagesHideNobody`,
`BindingsNeverGoBack`. There is one fetch at a time (`SingleFlight`) and its stale
entries are the cache's, so that putting them back cannot overwrite news. `OutageHidesNobody` holds while the
API's last answer told of tenants; a 404 is such an answer and tells of none.

`Reconciler_proofs.tla`: `ReconcilerTyped`, `InstancesHaveDatabases`
(`DatabasesFirst`). A tick past the provisioning has seen every database, and no
step of anybody takes one away (`Provisioned`).

`Migrations_proofs.tla`, for any plugins, builds, processes, migrations and any
tables found: `TypeCorrect`, `NothingTwice` (`JournaledOnce`), `JournalTellsTruth`
(`JournalBacked`), `ReadyIsMigrated` (`ReadyMeansMigrated`). `IInv` says that the
holder of the lock is the one boot in a transaction (`Held`), that what a run has
skipped or passed is journaled, and that what it read again under the lock is
still true (`BootInv`). A commit then always adds the next migration to a prefix
(lemma `Prefix`), whose tables are those of the prefix before with its own, and
no other plugin's are touched. Three more need no other invariant than `IInv`.
`RefusedByNewer`: where the database serves one plugin, `RefusedMeansNewer` holds;
so the shared journal is the whole cause of what `shared_journal` exhibits.
`NoLockIsLeft`: the lock is always held by a boot in a transaction, whoever failed
or died before. `BootsAreBounded`: each step of a boot, a failed run included, ends
it, uses up a retry, turns to a later migration or gets further with the same one;
retries, migrations and stages are bounded by `TypeCorrect`, so between `BootsConverge`
and a proof there is only fairness.

Assumptions. Deploy: those named in FastKV and DeployTrain (`"production"` is an
environment; `Null` is not a value of anything; bounds are positive, `Cutover` is a natural), and for the
protocol theorems the hypotheses above, which each of them states. Host: the
digests, `Inherit` and `None` are different things, flags are Booleans, bounds
are naturals. Proposals: a person is a submitter or an admin, not both.
UI serving: an override names a source of the runtime, `Bare` are plugins and
`Unpinned` sites. Reconciler: a fingerprint
has an image pin. Migrations: no migration drops what it creates, and no plugin
drops another's tables (each has a schema of its own).

Model-checked only: all liveness (`Terminates`, `Converges`, `OutageSurvived`,
`AlertsIffMismatch`, `EveryCallEnds`, `DriftIsRefused`, `RequestsEnd`,
`ChangesGetThrough`, `PublishDeploys`, `DriftEnds`, `BootsConverge`), which is
out of the prover's reach. Every safety invariant and action property of a passing
run is stated by a theorem. The type invariants of the modules after the host's
were model-checked while they were written and are proved; their runs do not
repeat them.

## 5. Where the repository disagrees with itself

`shared_journal` exhibits this one; PROJECT.json quotes the lines.

* **A plugin is refused for another one's migrations.** The guard takes every
  journal row that is not of its own build for a newer build's
  (`ed/db/run-migrations.ts:424-425`, `445`), but all plugins write one journal
  (`ed/db/core.ts:15`), and those without a database URL share the API's
  (`host/src/services/plugins.ts:171-174`).

Met while modelling, visible in the modules and not given a run.

Deploy train:
* the release pointer is never rolled back: the restore asks the history endpoint
  for the relative key (`ed/services/deploy/rollback-flow.ts:186`, against 200-203);
* the recovery of a red train can republish the red config: it takes `history[1]`
  without checking that `history[0]` is its own publish (`rollback-flow.ts:227`),
  also after a *skipped* publish;
* a red staging deploy rolls back to a production snapshot: the legs get the
  session's domain whatever the env (`ed/handlers/deploy.ts:510`);
* a failed read is an absent key (`ed/services/registry/fastkv.ts:109`, against
  98-101): the compat floor tightens, a version record may be written over;
* a publish that no node knows of after 30 s "will never apply"
  (`ed/services/registry/confirm.ts:88-90`), which is a guess: it may land after all, be
  applied again by the resubmission, and so undo a publish in between. `AppliedOnce`
  says exactly that much;
* production deploys that overlap classify against a tag that is stale by the time
  they land, so floors skip a release and the tag may go back (`ProductionSerial`);
* an owed release is announced and then dropped when its config is already live
  (`ed/services/deploy/train.ts:1117-1143` after `897`).

Host:
* an adopt drops the configured plugins (`host/src/services/snapshot-coordinator.ts:126`,
  against 107-108);
* a parent's republish is never adopted: the fingerprint covers the runtime's own
  remotes only (`ed/services/registry/fingerprint.ts:29`, against 25-26);
* a snapshot boot still resolves extended plugins (`ed/services/start/boot.ts:177`,
  against `docs/adr/0041-boot-snapshot.md`);
* the degraded mark outlives the outage when an unchanged adopt swaps nothing in
  (`snapshot-coordinator.ts:132`, `host/src/routes/health.ts:108`);
* the boot persists a generation before anything of it was verified
  (`ed/services/start/snapshot-source.ts:78`), and a lost snapshot is not written
  again by clean ticks (`host/src/services/snapshot-watch.ts:134`);
* manifests are cached by the source's key alone (`host/src/services/ui-compose.ts:188`,
  against 72-74): a page of a tenant that overrides a source may be composed with
  the base's manifest, or the base's with the tenant's;
* a tenant's UI for a plugin that has none in the base is served unverified
  (`host/src/services/tenant-runtime.ts:455` with 334-343, against
  `docs/adr/0036-three-pin-planes.md:30`), and a manifest whose config has no
  `manifestIntegrity` is not checked (`ui-compose.ts:200`);
* a 404 of the API is an empty table: it hides every tenant, where any other failure
  keeps the last entries (`host/src/services/binding-resolver.ts:65-75`);
* an empty table of bindings is never taken from the cache
  (`host/src/services/binding-resolver.ts:128`); a remote config that fails to load
  deletes the entry of its key, which may be a newer load's
  (`host/src/services/tenant-runtime.ts:151`).

Plugins, console, proposals:
* a caller that awaited an evicted instance may cache its router after the next
  instance's (`packages/every-plugin/src/runtime/index.ts:178`); shutdown does not
  wait for loads in flight (`250`);
* a console that reads a publish's config but not yet its platform manifest pairs the
  new fingerprint with the image pinned before (`api/src/lib/deploy-history.ts:172-184`),
  deploys that image and remembers the fingerprint (`api/src/lib/reconciler.ts:230`):
  the new image never runs and no drift is reported (against `GLOSSARY.md:196-197`).
  `PublishDeploys` excludes it by name (`Torn`);
* the poll after a deploy is of whatever container answers at the URL it found
  (`ed/services/hosting/docker.ts:237`): another console's replacement, even with
  another image, counts as healthy;
* a converge that replaced the container and timed out on its health is forgotten
  when the publish is rolled back before the next tick: no drift is reported and
  the wrong image runs (`api/src/lib/reconciler.ts:66`, against `GLOSSARY.md:196-197`);
* a stopped container with an unchanged descriptor is never started by a deploy
  (`ed/services/hosting/docker.ts:200`), which `PublishDeploys` and `DriftEnds`
  exclude by name (`Stuck`); a restarted console takes whatever runs for the newest
  publish (`reconciler.ts:182`); a removed container is not deployed again before
  the next publish;
* the reply of an approval is loaded after its commit
  (`plugins/proposals/src/services/proposals.ts:491`, `697`): after a retry in between
  it is of the retry's row, and the first attempt's report passes for the retry's
  (`Mistaken`);
* what an apply created before its report failed, or was superseded, stays; a
  superseded removal may destroy what a newer approval created
  (`plugins/proposals/src/services/proposals.ts:520`);
* `bos db repair` of one plugin drops the journal all plugins share
  (`ed/services/db/repair.ts:96`).

## 6. Not modelled, and the plan

Not modelled: the host's plugin boot (`host/src/services/plugins.ts`: one load per
plugin with a status each, on top of the plugin runtime); authentication and
wallets (`plugins/auth`, `packages/better-near-auth`: configuration of and
endpoints over library code, whose sessions and signatures are not in the
repository); the development server (process supervision on a terminal);
scaffolding, sync, upgrade and code generation (files in, files out, no
concurrent actor); the registry plugin (read-only views); agent-connect and votes
(single-statement tables); the web UI. Most of the repository's lines are in these.

Partly modelled: rendering is its order of awaits, not HTML; the tenant's config
is loaded or not; the DAG registry and `bos://` resolution are left out of FastKV.

What would come next:
1. the snapshot file's temporary name and its two writers
   (`ed/services/snapshot/schema.ts:180-182`), refining the atomic write that
   SnapshotHost assumes;
2. the train composed with the host through PlatformRegistry, so that a publish of
   SnapshotHost is a landing of DeployTrain;
3. bounded steps for the other components, as `InvocationsAreBounded` and
   `BootsAreBounded` state them for the train and the migrations, and the
   composition of 2 as a refinement that is proved;
4. `db repair` and drizzle-kit as migrators that do not take the lock.
