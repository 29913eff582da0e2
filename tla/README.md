# TLA+ models of stackctl

stackctl installs and runs a set of web apps on a school's server: a Go program
that serves an admin UI, drives `docker compose`, keeps its state in a few files
and updates itself and the apps at night.  This directory holds models of the
parts of it whose correctness depends on order, failure or concurrency, the TLC
configurations that check them and the proofs TLAPS checks.  Paths below are
relative to `src/`; `PROJECT.json` maps each definition to the lines it
translates and lists runs, mutants, findings, hazards and theorems.

Run from this directory:

    tlc -workers 2 -config MCApps.cfg MCAppLifecycle         # one run
    tlapm Publish_proofs.tla                                 # one proof module

## 1. Inventory

### Processes and shared state

* the **web server** (`stackctl web`, one process under systemd with
  `Restart=always`): HTTP handlers run concurrently, long operations continue in
  a goroutine, the *job*, after the handler has returned;
* the **nightly run** (`stackctl autoupdate`, a process of its own, started by a
  timer or by hand);
* the **CLI** (`stackctl llm`), which edits the LLM gateway's configuration;
* **Docker**, with the containers of the apps and of the services stackctl
  manages through files: Caddy (proxy), Dex (login), Postgres, llmd (LLM
  gateway);
* the **catalog server** and the DNS provider deSEC, over the network.

They share `config.yaml`, `state.yaml`, `.env`, the catalog cache,
`docker-compose.yml`, `dex-config.yaml`, the `Caddyfile`, `llm/config.yaml`, the
backups, and one lock file (`flock`).  Most files are replaced by one rename
(`paths.AtomicWrite`), so a model changes them in one step; what is *not* atomic
is a sequence of such writes.  The sidecar of a backup is written in place
(`backup.go:343`): `Backups` lets an error or the end of the process leave a part
of it.  The version file is written in place, too (`update.go:268`), but only a
build without a version of its own reads it, and a part of one is not modelled.

### Components

| Component | State | Operations | What is hard | What makes it correct |
|---|---|---|---|---|
| Operation lock (`internal/lock`, `withOpLock`, `tryLock`) | owner of the flock | acquire without waiting, release, hand-over to a job | every exit path of handlers and jobs, death of either process | who works owns it, nobody idle keeps it, it is always given back |
| Jobs (`web/jobs.go`, `infra.go`) | job store, order, status | create (with eviction), log, finish, poll | the page outlives the handler, eviction, restart | one running job, its page resolves, verdicts stand, jobs end |
| State (`config/state.go`, `server.go`) | `state.yaml`, `Server.state` | load at start, snapshot, commit | whole-file writes by two processes, memory never reloaded | memory is the file; an entry changes only by an operation on its app |
| Nightly run (`cmd/stackctl/main.go`) | a state loaded once | sync, select, update each, save | reads before the lock, fetches again after the choice | nothing lost, nothing breaking installed |
| Catalog (`internal/catalog`) | cache of definitions | sync, fetch, compare versions | cache newer than what is installed | an update never goes back |
| App lifecycle (`internal/install`) | `.env`, entries, images | install, update, remove, start, stop | many files and services changed one after the other; failures, crashes | secrets agree, success means complete, rollback exact |
| Compose file (`internal/compose`) | `docker-compose.yml` | regenerate as a whole | depends on all cached definitions | lists every installed app |
| Login (`internal/dex`) | client list | add, remove, rewrite as a whole | each operation rewrites the list of all apps | client secret = the app's secret |
| Databases (`internal/postgres`) | roles | create or alter, drop | outside the files | role password = the app's password |
| Public access (`internal/publish`, `handlers_public.go`) | routing table in memory, records in `state.yaml` | publish, withdraw, restore at start | table is lost at each restart, failure puts it back | recorded sites are routed and come back |
| Proxy configuration (`internal/caddy`) | `Caddyfile`, running container | render, compare, write, reload | container starts and stops meanwhile, reload refused | what runs is the table; other sites undisturbed |
| Backup, restore (`internal/backup`, `handlers_backup.go`) | archives, sidecars, the trees and the database of the server | create, list, upload, delete, restore | uploads beside everything and each other, apps that write, many steps each of which may be the last | nothing short is listed or restored, no archive is replaced, what a restore leaves is the archive |
| Self-update (`internal/update`) | binary, version file, download | check, download, verify, swap, exit | death at any step, releases withdrawn, version order | what systemd starts is verified, versions never go back, the restart happens |
| Setup, login, sessions (`handlers_setup.go`, `handlers_auth.go`, `sessions.go`, `setupcode.go`) | setup state and code, session, limiter | setup, login, logout | concurrent forms, check-then-act around a slow comparison | the limit holds, one password everywhere |
| Settings (`handlers_stubs.go`), accounts (`handlers_accounts.go`), configuration (`internal/config`) | `config.yaml`, `Server.cfg`, Dex's accounts | change, validate, save, apply | memory changed field by field before validation and save | memory, file and what they reach agree again |
| Environment file (`internal/envfile`) | sections of keys | parse, set, delete, quote, save | formatting round trip | load after save is the identity |
| LLM gateway (`internal/llm`, `handlers_llm.go`, CLI, `llm_hook.go`) | `llmd/config/config.yaml`, what llmd has loaded | providers, personas, keys, reload, seed | read-modify-write of the whole file by two processes without a lock | references closed, no key widened, llmd not left with an older file |
| DNS (`internal/desec`, `dnssync.go`) | wildcard record | compare, write | address and mode change meanwhile, lost answers, restarts | the record follows the settings, or an error is shown |
| Preflight, internet guard, addresses (`internal/preflight`, `internetguard.go`, `internal/public`) | none | decide | many cases | decision tables |
| Dashboard, pages, paths, claims, secrets, sysinfo, scripts | none worth a model | views and helpers | - | - |

### How they interact

Every change of state runs under the operation lock except: the LLM handlers
and the CLI, uploads of backups, setup (with the start of the publisher), login.
A handler either works under the lock itself (`authPostLocked`) or takes it,
creates a job and hands the lock to the job's goroutine.  The web server commits
clones of its memory; the nightly run works on what it loaded at its start.  App
operations call `install`, which calls `postgres`, `dex`, `compose` and `docker`
in turn; publishing calls `publish`, which renders through `caddy` and reloads
the container; the proxy and Dex read their files whenever their containers
start, at times nobody chooses.

## 2. Plan

1. **Lock, jobs, state** - `ClaimedStore` (abstract), `ControlPlane`: *done,
   proved*.
2. **Public access** - `Publish`: *done, proved up to liveness*.
3. **App lifecycle** - `AppLifecycle`: *done, proved*.
4. **LLM gateway** - `LLMConfig`: *done, proved up to liveness*.
5. **Backups** - `Backups`: *done, proved*.
6. **Self-update** - `ReleaseOrder` (pure operators), `SelfUpdate`: *done,
   proved up to liveness*.
7. **Setup, login, settings, accounts, wildcard record** - `Console`, one
   module because all of them work on the one `Config` in memory: *done,
   proved*.

What is left is in section 6.  The module families meet at their edges: the jobs
of `Backups` and `SelfUpdate` are single steps (`RestoreFiles`, `SelfUpdate`) of
`ControlPlane`, the operations of `AppLifecycle` its `ApplyAppOp`, the seed of
`LLMConfig` a step of `AppLifecycle`, the certificate settings of `Console` the
`SaveSettings` of `Publish`.

Runs take at most two apps (or keys) that interact, one more where a third
matters (the bounds are below each module); theorems first state types, then the
invariants that say two pieces of state agree.

## 3. Modules

### ClaimedStore

What the lock promises, whoever uses it: one owner at a time, who claims items
when he takes the lock and changes no others until he lets go.

### ControlPlane

Two kinds of process: `Requests` (a handler with the worker it starts) and
`Updaters` (nightly runs).  `pc` is how far a process has come, `op` its local
variables: kind of operation, app, definition in hand, private clone of the
state, job.  `mem` is `Server.state`, `disk` is `state.yaml`, `cache` and
`catalog` are versions of definitions, `owner` is the flock, `jobs` and `order`
the job store, `exiting` the exit scheduled by `RestartService`.

* `BeginInstall`, `BeginUpdate`, `BeginSync`, `BeginOnApp`, `BeginOnServer` -
  handlers up to the lock; a definition in hand is stored by `StoreDefinition`,
  before the lock (`handleAppUpdate`) or under it;
* `TryLock`, `Refused`, `Release` - `tryLock`, `withOpLock`;
* `StartJob`, `StartInfraJob`, `FinishJob`, `CreateJob` - hand-over and store;
* `Snapshot`, `ApplyAppOp`, `CommitChange`, `GiveUp`, `StartOrStop`,
  `PickInfra` - the work of app operations; what `install` does inside is the
  next module;
* `Backup`, `RestoreFiles`, `EndRestore`, `SelfUpdate`, `Exit`;
* `AutoLoad`, `AutoSync`, `AutoNext`, `AutoApply`, `AutoDone`, `Kill` - the
  nightly run;
* `Crash`, `Boot`, `Publish` - environment.

Faults are a constant, so that a run says which it allows: crash of the web
process, kill of a run, failing writes, a lock file that cannot be opened, a
catalog that does not answer.

| Run | Instance | Shows |
|---|---|---|
| `control_jobs` | 2 requests, 1 app, 3 job ids of which 2 retained, every kind of operation, every fault of the web process | `TypeOK`, `OneRunningJob`, `RunningJobRetained`, `JobVerdictStands` |
| `control_web` | 2 requests, 2 apps, no nightly run, restore or failing write | `MemoryIsDisk`; refinement of `ClaimedStore` |
| `control_live` | a request and a nightly run, crashes, kills, lock files that cannot be opened, a catalog that does not answer; under fairness | `LockProtocol`, `LockIsReleased`, `JobsEnd`, `RestartHappens` |
| `lost_update` | smallest that shows it | finding, section 5 |

*Bounds.* `MaxVersion`, `JobIds`, `MaxRetained` and the sets of processes.  Two
requests suffice for the lock and the store because a third can only be refused
while one works and another waits; job ids come again once nobody refers to
them; two versions give an old and a new one, and a second app shows that an
operation touches only its own.

*Fairness.* Weak fairness of each worker and run (external commands return: the
code gives every network call a timeout and waits for the others), of `Exit` (a
sleeping goroutine) and of `Boot` (systemd).  None for requests, new versions,
crashes.  Weak fairness suffices: a process that does not get the lock is
refused, it never waits.

### Publish

`table` is `Proxy.routes`, `file` the Caddyfile, `proxy` and `served` the
container and what it has loaded, `pub` and `adminPub` what `state.yaml`
records, `op` the publisher call under way: who called, which call, which key,
how far.  A call goes `apply` (render, compare, write), `running`
(`docker.IsRunning`), `reload`, `end` (put the table back on failure, record the
outcome).  The container starts, gets ready, stops and is replaced between any
two steps; the web process dies at any step and `Boot` restores route after
route.

| Run | Instance | Shows |
|---|---|---|
| `publish_faults` | 2 apps, school network, every fault | `TypeOK`, `OtherSitesStay` |
| `publish_served` | 3 apps, 2 challenge domains, container stops | `ServedIsTable` |
| `publish_live` | 3 apps, 2 challenge domains, school network, crashes and container stops (`Reliable`); under fairness | `RecordedIsRouted`, `RestartRestores` |

*Bounds.* Two routable apps and one without a container port: one that is called
for, one that must not be disturbed, one that cannot be published.  Two domains
make "changed settings" possible.

*Fairness.* The call under way goes on; `Boot` (systemd), `ProxyStart` (Docker's
`restart: unless-stopped`) and `ProxyReady`.

*The premise `Reliable`.* `RecordedIsRouted` and `RestartRestores` need every
reload to succeed: no refusal, and none that meets a proxy which has only just
started.  The source waits for such a proxy in one place
(`adminaddress.go:30-31`), not in `Bootstrap` (`publish.go:118-121`) and not in
the handlers.  After a reboot, when web server and proxy start together, a
published app may therefore stay unserved until the next restart:
`PublishedComesBack`, the property without the premise, fails on
`MCPublishSlow.cfg` (section 5).

*Left out.* A commit that fails after a publisher call is only logged by the
handlers; the commit of this module always succeeds (failing writes of
`state.yaml` belong to `ControlPlane`).  Host names and upstreams follow from a
route's key and do not change.

### AppLifecycle

`envFile`, `clients`, `role`, `compose`, `ctr`, `inst` and `ports` are the
places an app leaves traces in; `op` is the operation under way with the loaded
`.env`, the keys it is responsible for and the client list.  `Install`,
`Update`, `Remove` begin one; the steps follow the source in order:
`SetupAppDB`, `RegisterClient` or `UnregisterClient`, `Regenerate`,
`SaveBeforeUp`, `Up` or `Wipe`, then `SaveEnv`, `Commit`, `SaveDex` of the
caller.  Any step may fail (`StepFails`, or in the action when it has changed
something already), `.env` may not be writable at the end, the process may die
between any two steps.  `Start`, `Stop`, `RewriteDexConfig`, `FetchDefinition`
and `PublishVersion` happen in between operations.

Values are symmetric: a generated password is any value not in use for its
purpose, so that a stale copy shows.  Everything else (prompts, addresses,
secrets of a definition) is one value `Given`, because properties only ask
whether it is there.

| Run | Instance | Shows |
|---|---|---|
| `apps` | 2 apps, one with database and, from version 2 on, login, the other is Dex and depends on the first; steps fail, alone, with saves of `.env` that fail, or with crashes | `TypeOK`, `SecretsAgree`, `KeysMatchEntries`, `InstalledHasService`, `InstallHeals` |

`Faults` is a set of fault sets, and `Init` picks one: `KeysMatchEntries` and
`InstalledHasService` say in their premises under which faults the code keeps
them, and the same run checks the others under all of them.

*Bounds.* Two apps, because operations on one rewrite files of both; two
versions, because the second may need a login the first did not; three values:
the one in use, a stale one, a fresh one.

The source does not refuse an install of an installed app; this is the fault
`"again"`.  The run leaves it out because it breaks `KeysMatchEntries`, which
`MCAppsOrphans.cfg` shows, and `SecretsAgree` (`MCAppsReinstall.cfg`).  With
crashes or failing writes `KeysMatchEntries` does not hold either: keys saved before `up` are then on
disk without an entry.  That is inherent in the order the source chooses ("this
extra save is the one that counts", `install.go:245-246`), and `InstallHeals`
says why it does no harm: the next install takes them up.

*Left out.* Data directories, downloads of binaries, post-install scripts, image
pulls and the LLM seed fail like any other step (`StepFails`) and leave nothing
the properties read (the seed has a module of its own, `LLMConfig`).  Several
ports of an app are one.  Global defaults in `.env` belong to no app.

### LLMConfig

`file` is `config.yaml`, `loaded` what llmd has read, `op` the copy each request
of the web panel (`Requests`) or command of the CLI (`Commands`) holds between
its load and its save, `seeding` the install or update of llmd under way with
its own copy and its new key, `envKey` and `owns` the key in `.env` and its place
in the state.  `granted` and `missed` are history: what each key was created for,
and whether llmd missed the last signal.

The operators of the first part (`AddProvider` ... `RemoveAPIKey`) are the
methods of `llm.File`: from a file to the set of files it may become, empty when
the method refuses.  Each handler and command loads, applies one and holds the
copy (`Begin`); `Save`, `Reload` and their failures follow; `SeedLoad`,
`SeedSave`, `WriteEnv`, `Up`, `Remove` are llmd's part of install, update and
removal.

| Run | Instance | Shows |
|---|---|---|
| `llm_config` | a request, a command and the installer; 1 provider, 1 persona, 2 keys, 3 secrets of which two share a prefix; a file prepared by hand or none; crashes, failing writes, failing signals, failing steps; under fairness | `TypeOK`, `FileConsistent`, `AccessAsGranted`, `StaleOnlyUntilSignalled`, `ChangesArrive` |

*Bounds.* `Budget = 2` changes beside install, update, removal and reload, which
are not bounded: two whole-file writes are the smallest number of which one can
undo the other, with the seed as a third.  One provider and one persona suffice
for a reference and its target.

*Fairness.* A process that has loaded goes on (`Save`, `Reload`, `SeedSave`,
`WriteEnv`, `Up`).  None for requests.  `ChangesArrive` is about a change whose
signal was not lost: the code does not retry one.

A lost update as such is not a property: the code does not promise more than a
consistent file, and two administrators at once are what it takes.

### Backups

`live` is what the server has in its three trees and its database, `up` whether
the apps run (and write), `dir` and `sidecar` the backup directory, `job` the
operation that holds the lock, with what it has packed or verified, `upload` the
uploads beside it and beside each other, any number of them.  An archive is its
content, whether it is whole yet, whether it is a backup at all (`good`) and
whether `Create` made it (`own`).  Each action is a step of the source that leaves
a trace: `Dump`, `Pack` (one tree), `Finalize`, `encryptFile`, `writeSidecar`;
`Verify`, `ComposeStop`, `Overlay` (one tree), `Replay`, `ComposeUpAndExit`;
`handleBackupUpload`, `Copied`, `WriteSidecarFor` (looks at the file and decides),
`WriteUploadSidecar`, `RemoveUpload`; `handleBackupDelete`, `DeleteSidecar`.

Each step may fail, those of an upload among them: `CopyFails`, the third case of
`WriteSidecarFor` (the file cannot be read, `backup.go:294-304`) and
`UploadSidecarFails` (`:338-344`) all lead to `RemoveUpload`, which takes away
whatever has the name by then, as `os.Remove` does (`handlers_backup.go:182`,
`:188`, `:197`).  An upload copies to an open file: once a deletion or the failure
of another upload has removed it, `there` is false, and what the upload writes
reaches no name.  `settled` in a restore says that no upload had a file of the
archive's name in hand when the archive was verified, or that the archive is
encrypted and the restore reads a decrypted copy of its own.

| Run | Instance | Shows |
|---|---|---|
| `backups` | 2 names, one of them encrypted; 2 contents; 2 uploads at a time; crashes, failing steps, services that cannot be stopped, uploads that are no backups | `TypeOK`, `OverlayFromWhole`, `RestoredIsArchive`, `ListedOwnIsWhole`, `ArchivesStand` |

`OverlayFromWhole` and `RestoredIsArchive` are about restores that are `settled`.
A restore whose archive is still in the hands of an upload can lose it half-way:
`MCBackupsVanish.cfg`, section 5.

*Bounds.* `Budget = 4` operations and uploads: an upload, the deletion of its
file, a second upload of the name, a restore; or a backup, its deletion and two
uploads.  Two uploads are the smallest number of which one can remove or write the
file of the other.  Two contents tell "what the archive has" from "what was there
before".

*Left out.* A dump and the trees are read one after the other while the apps
write; the model has it, and no property forbids it, because the source promises
no snapshot across them.  A process that dies in an upload leaves a file that is
not listed and blocks its name; the source has no promise about that either.
`psql` replays with `ON_ERROR_STOP=0` (`restore.go:133-134`): a statement of the
dump that fails is passed over and no error comes of it, whereas `Replay` is all
of the dump or an error; so `RestoredIsArchive` says nothing of a dump that
Postgres only takes in part.

### ReleaseOrder, SelfUpdate

`ReleaseOrder` has the comparison of versions as the source does it (`newer`,
`comparePre`) and, for reference, the precedence of semantic versioning as a
lexicographic order (`Precedes`).  `SelfUpdate` has the release on GitHub, the
program that systemd starts, the download beside it, the version file, the
running process and the job, step by step from the check to the scheduled exit.

| Run | Instance | Shows |
|---|---|---|
| `self_update` | 7 versions (numbers of one and two digits, pre-releases with numeric and textual identifiers, one that continues another, a build between tags), a sound release of each, and releases without a checksum, with a wrong one, and that do not run; crashes, a network and a disk that fail; under fairness | `TypeOK`, `StartableIsVerified`, `OffersFollowPrecedence`, `NeverBackwards`, `UpdateTakesEffect` |

*Bounds.* None on steps; any number of updates and restarts.  The versions are
those on which comparing text, digits or length would go wrong.

*Represented, not parsed.*  Which strings are versions is not modelled: a build
after the tag of a release (`v0.11.0-11-g33dea43`) is `Unordered`
(`update.go:129`, `:142-145`), whereas one after the tag of a pre-release
(`v0.12.0-rc1-3-gabc1234`) parses and is a `Version` whose suffix is one text.
The version built into a program is taken to be the tag of the release it came
with; the release workflow sees to that, the program does not check it.
An identifier of a suffix is a natural number or a text, a text its place among
the texts.  So the theorem about the order says nothing of identifiers that `strconv.Atoi` and semantic versioning see
differently (a signed number, one that does not fit an `int`) and of build
metadata (`+...`), none of which a tag of this project has.

*Fairness.* The timer of `RestartService` and systemd.

### Console

One `Config` in memory (`mem`) and on disk (`file`), `ADMIN_PASSWORD` in `.env`,
the setup code, the session, the limiter, the operation lock, the records at
deSEC, one per type, with the error the dashboard shows, the accounts Dex knows.
`task` has the requests under way and the synchronisation begun by a start, each
with its form and how far it has come.  A handler is cut where it does something
slow or writes a file: check, verify, hit or miss for a login; check, assign,
save, env, sync, finish for setup and settings; assign, save, finish for
accounts; sync, get, put for the record.

`Mishaps` is a set of sets, of which `Init` picks one: crashes, failing writes,
lost answers of deSEC, rejected forms, requests in parallel, requests beside a
setup or the synchronisation of a start.  The properties that need their absence
say so in their premises, and section 5 has an instance for each.

| Run | Instance | Shows |
|---|---|---|
| `console` | 2 requests, 1 client, 2 passwords, 3 IP addresses (two of one version, one of the other), 1 account, limit 2; `{net, parallel}`, with crashes, or `{write}` | `TypeOK`, `AttemptsBounded`, `PasswordsAgree`, `WildcardFollows`, `AccountsInEffect` |

*The wildcard record.* `EnsureWildcard` reads and writes the records of one type,
A or AAAA, that of the new address (`desec.go:87-129`).  `WildcardFollows`
is about that record.  When the address has changed between IPv4 and IPv6 the
record of the other type still names the old one, and no error is shown:
`WildcardIsAddress`, the words of `desec.go:83`, does not hold (section 5).

*Bounds.* Two requests interleave; the limit is 2 instead of 5, which is smaller
than what two parallel requests may add to it; the passing minute is an action
(`LockoutExpires`).  A third IP address, of the other version, makes the record
types differ; it leaves no room for a host name, so that branch of `syncWildcard`
is left to the theorems and to `MCConsoleWildcard.cfg`.  Fields of the `Config`
that nothing above reads (school, mail, theme) are left out.

## 4. Proofs

| Module | Theorems | Assumptions |
|---|---|---|
| `ControlPlane_proofs` | `TypeCorrect`, `LockInvariant`, `LockHeldByWorker`, `AtMostOneJobRuns`, `RunningJobResolves`, `VerdictsStand` | those on the constants |
| `ControlPlaneRefines_proofs` | `MemoryFollowsDisk`, `WebServerSerialises` | `WebOnly`: no nightly runs, no restores, no failing writes - what the code needs for it (section 5) |
| `Publish_proofs` | `PublishTypeCorrect`, `OtherSitesUndisturbed` | those on the constants |
| | `RecordedRoutesPresent` | `Reliable` - the Caddyfile can be written, a running proxy is ready and refuses no reload, the network has a gateway |
| | `ServesTheTable` | `Steady` - the web process lives, the Caddyfile can be written, an answering proxy is ready and accepts reloads; the container may stop and start |
| `AppLifecycle_proofs` | `TypeCorrect`, `ServicesStay`, `InstallLeavesItComplete` | those on the constants |
| | `KeysAreEntered` | nobody installs an app that is installed |
| | `SecretsStayInStep` | the same, and where the process may die no app depends on another (`MCAppsReinstall.cfg` and `MCAppsRemoval.cfg` show why) |
| `LLMConfig_proofs` | `TypeCorrect`, `FileStaysConsistent`, `KeysAsGranted`, `StaleOnlyWhileOwed` | those on the constants |
| `Backups_proofs` | `TypeCorrect`, `RestoresWhatItVerified`, `RestoreIsFaithful`, `ListIsTrue`, `ArchivesAreKept` | those on the constants |
| `SelfUpdate_proofs` | `TypeCorrect`, `OnlyVerifiedStarts`, `NoDowngrade`, `OffersAreByPrecedence`, `NewerIsAnOrder`, `NeverOlderAgain` | those on the constants |
| `Console_proofs` | `TypeCorrect`, `LimitHolds`, `PasswordsStayOne`, `WildcardIsKept`, `AccountsApply` | those on the constants; the mishaps a property excludes are in its premises |

*Inductive invariants.*  `TypeInv` is the type invariant and "a restore under
way has an archive".  `LockInv` adds the lock protocol, that kinds of operation
fit kinds of process, that the running job's worker owns the lock, that every
worker past `StartJob` has its job running, and that the running job is the
newest one: `OneRunningJob` alone is not inductive, because a second job could
start if its creator did not own the lock, and eviction takes the oldest job,
which must not be the running one.  `WebInv` adds `MemoryIsDisk`, that nothing
is at work while the server is down, and that the private clone of a process
at its operation equals the memory: without it a commit could bring back other
apps' old entries.  `RunningJobResolves` follows from "newest" and
`MaxRetained >= 1`.

For `Publish`, `CallShape` says which calls each caller makes, `SitesInv` that
after a `Render` the file is the table of the call, so that a reload serves all
routed sites; `RouteInv` that during a restart every recorded key is in the
table or still to do, and that a withdrawal is the only call with a recorded
key outside the table.  `ServeInv` says who may rely on what in between: past
`apply` the file is the table, and a container that answers serves the file
except from `running` on, when a reload is still to come.  `ServedIsTable` by
itself says nothing about a call under way, so it is not inductive.

For `AppLifecycle`, `TInv` is the types and what each step has found out about
its app (it has a definition; updates and removals are of installed apps; only
the last steps have succeeded).  `ServiceInv` adds that a removal past
`Regenerate` is the only operation with an installed app outside
`docker-compose.yml`.  `KeysInv` (`Sound`) says at each step which keys the
loaded `.env` and the file have and who answers for them: an entry or the
operation.  `SecretsInv` has five parts, each needed for the next: a password or
secret exists only where the cached definition asks for one (`NeedsInv`, by
which a rewrite of the client list drops nobody); how the loaded `.env` of an
operation differs from the file (`LoadedInv`); Dex and Postgres have what `.env`
says of every app that is installed or about to be entered (`ClientInv`,
`RoleInv`); a container runs on `.env`, one without a service in the compose
file is about to be forgotten, and one a removal leaves behind is still accepted
(`ContainerInv`).  `SecretsAgree` compares containers with Dex and never
mentions the file through which the two agree, so it is not inductive.
`HealInv` is the argument for `InstallHeals` and stands alone: it says for each
step an install has come past what that step has established - a value in the
loaded `.env`, a password in Postgres, a secret in Dex, a service, the saved
file, the container - and that nothing later undoes it.  It needs no assumption
on faults and none on what was there before, because every step of an install
writes its part whether or not it finds one.

For the other modules `IInv` is the types, what each step of the operation under
way has established, and the properties themselves.  In `LLMConfig` every copy
of the file that somebody holds is as sound as the file, because any of them may
become the file; the key in `.env`, from which the seed may make an entry, was
granted nothing else.  In `Backups` a backup that is being made has its name to
itself, of several uploads of one name only one writes to the file that has it
(`OneWriter`), no upload comes to work on a plain archive that is being placed,
because the name is taken (`SettledInv`), and what a restore has placed stays
while the services are stopped (`RestoreInv`).  In `SelfUpdate` the job has a release newer than the
process and a download that has passed the checks so far, and the file systemd
starts is of the version that ran last or newer; the argument needs nothing of
the order, as each step compares with the running version only.

`Console` has the largest one.  `TaskInv` says which steps each kind of request
goes through and what its form holds there, `HolderInv` that a request changing
settings or accounts holds the lock and that nothing is under way while the
process is down; the types alone are not inductive without them (a form with no
new password could become the one of a server that is ready).  `AttemptsBounded`
is inductive by itself, with a count of the requests that have passed the
limiter.  The three agreements each need to say what is owed in the meantime:
`SavedInv` and `SharedInv` that a password which differs from the saved one, or
from `.env`, belongs to a request on its way to write it; `WildcardInv` that a
record of the address's type which differs from it has a request or a start that will
synchronise it, and that one about to write holds the present address;
`ChangeInv` and `AccountsInv` what the memory was before a change of the accounts,
so that the one taken back after a failed save is the one on disk.  `AloneInv`,
that setup and the synchronisation of a start run by themselves, is what the
mishap `early` takes away.

*The order of releases.*  `NewerIsPrecedes` shows the loop of the source and the
lexicographic order equal for any two versions: which of two words comes first
is decided where they part (`FirstPlaceDecides`), and that place is the first
number that differs, else the end of a suffix that the other one continues, else
the first identifier that differs.  It is not an induction: the first place is a
least element of a set of numbers (`LeastIs`, from well-foundedness).  That this
order is total and transitive (`NewerIsAnOrder`) turns `NeverBackwards`, which is
about one restart, into `NeverOlderAgain`, about all of them.

*Refinement.*  `WebServerSerialises` maps `owner` to itself, `store` to `disk`
and the claim to the apps the owner's kind of operation is about; taking the
lock is `Acquire`, a commit is `Write`, release and the death of the process are
`Release`, all else stutters.

*Only model-checked.*  Liveness (`LockIsReleased`, `JobsEnd`, `RestartHappens`,
`RestartRestores`, `ChangesArrive`, `UpdateTakesEffect`): fairness and ENABLED
are outside the prover.  `SecretsAgree` does not hold in general
where the process dies and apps depend on each other (`MCAppsRemoval.cfg`), so
there it is only checked, on the instance of the run `apps`; nor where an
installed app is installed again (`MCAppsReinstall.cfg`).  Every other property
of a passing run is a theorem.  No
module uses recursive operators; what a recursive definition computes for every
input could not be proved by induction over data here.

## 5. Where code and text disagree

One disagreement is a run that must find a violation, `lost_update`: web server
and nightly run write back each other's old state, because the run loads before
it locks (`main.go:235`, `main.go:253`) and the server never reloads.
`PROJECT.json` quotes the line in question.

The others are instances to run by hand, `tlc -config X.cfg` on the MC module of
the family; each checks one property that says what the text next to the code
says (two, `MCAppsRemoval.cfg` and `MCAppsReinstall.cfg`, a property of the runs where
it ends), and TLC
shows how the code breaks it.

| Instance | Property | What the code does |
|---|---|---|
| `MCBreakingUpdate.cfg` | `NoBreakingAutoUpdate` | the nightly run decides on the definition it has seen (`main.go:276-285`) and fetches again before it installs (`main.go:308`); "Sync catalog and install non-breaking app updates" (`main.go:207`) |
| `MCRestoreOverwritten.cfg` | `RestoredStateReloaded` | `runRestoreJob` releases the lock (`handlers_backup.go:237`) half a second before the process that holds the old memory exits (`update.go:287`); the restart is there for "reloading the restored config/state/.env" (`handlers_backup.go:233-235`) |
| `MCDowngrade.cfg` | `NoDowngrade` | an update downloads (`handlers_apps.go:560`) before it locks (`:567`), so the later of two updates may bring the older definition; "`def` reflects the latest YAML" (`install.go:322-323`) |
| `MCPublishUnserved.cfg` | `RunningIsServed` | a refused reload leaves the new Caddyfile (`caddy.go:187`), only the table is put back (`proxy.go:162-168`); the next attempt finds the file unchanged, skips the reload (`caddy.go:179-181`) and is recorded: "so it keeps describing what the proxy is actually serving" (`proxy.go:160-161`) |
| `MCPublishWithdrawn.cfg` | `WithdrawnIsGone` | a refused site is taken out of the table but stays in the Caddyfile, and the next start of the proxy serves it (`proxy.go:159-169`) |
| `MCPublishRestart.cfg` | `RestartKeepsSites` | `Bootstrap` loads a Caddyfile with the login only before it restores the apps (`publish.go:118-121`); "stackctl restarting must not take every published app offline with it" (`proxy.go:192-193`) |
| `MCPublishSlow.cfg` | `PublishedComesBack` | a reload that meets a proxy which has just started is refused, and only the job that installs the proxy waits for it (`adminaddress.go:30-31`). `Bootstrap` does not (`publish.go:118-121`): `Enable` puts the route back (`proxy.go:162-168`) and the app stays unserved until the next restart. A site published meanwhile by hand is refused once and at the second attempt recorded without a reload (as in `MCPublishUnserved.cfg`) |
| `MCPublishRemovedApp.cfg` | `RemovedIsUnserved` | `handleAppRemove` never withdraws the route (`handlers_apps.go:706-751`) |
| `MCAppsClient.cfg` | `RemovedClientIsGone` | `handleAppRemove` builds the client list without the app (`handlers_apps.go:732`), so `Remove` does not find its client (`install.go:615`) and leaves the file; "entfernt daraus nur den eigenen Client und schreibt die Config mit dem Rest neu" (`handlers_apps.go:730-731`) |
| `MCAppsOrphans.cfg` | `KeysMatchEntries` | an install of an installed app records only the keys it added (`install.go:285-290`): "orphaned secrets in .env that Remove can't reach" (`install.go:89-90`) |
| `MCAppsOrphans.cfg` with `Faults = {{"step", "again"}}` | `KeysMatchEntries` | besides, its rollback deletes prompts and address that were there before (`install.go:125-135`) |
| `MCAppsContainer.cfg` | `RemovedContainerIsGone` | the result of `ComposeRm` is ignored (`install.go:612`); an invalid compose file leaves the container |
| `MCAppsVersion.cfg` | `InstalledVersionRuns` | the compose file is regenerated from cached definitions (`install.go:235`), so another operation brings up a newer, possibly breaking version |
| `MCAppsPorts.cfg` | `PortsAreExclusive` | host ports are recorded and never compared (`install.go:295`): "so we can reject conflicts on install" (`state.go:22`) |
| `MCAppsRemoval.cfg` | `SecretsAgree` | the limit of that property: once a removal has taken an app out of `docker-compose.yml` on which another depends, docker compose refuses every command; the removal of the other goes on regardless (`install.go:612`), and if the process dies between its save of `.env` and its commit, the app is still installed, its container keeps a secret that is no longer in `.env`, and the next rewrite of the client list drops it |
| `MCAppsReinstall.cfg` | `SecretsAgree` | the other limit: an installed app is installed again in a version with a login, and the install fails after `up` has brought its container up; the rollback (`install.go:125-135`) takes the new secret out of `.env`, the container keeps it, and the next update generates another for Dex |
| `MCLLMReinstall.cfg` | `DefaultKeyShared` | the seed writes the key to `config.yaml` before `.env` is saved (`llm_hook.go:131`), and neither a rollback nor a removal takes it out again: the next install finds a key (`llm_hook.go:65`) and leaves `.env` without one; "Damit kann llmd jederzeit ohne Datenverlust neuinstalliert werden" (`llm_hook.go:51-52`) |
| `MCBackupsUpload.cfg` | `ListedIsWhole` | `Delete` removes the archive before its sidecar (`backup.go:270-282`) and an upload takes no lock, so a sidecar outlives its archive and makes the next upload of that name appear in the list while it is short (`backup.go:224-255`) |
| `MCBackupsVanish.cfg` | `VerifiedIsPlaced` | an upload whose sidecar cannot be written removes its archive (`handlers_backup.go:196-197`), although the archive is complete, a restore needs no sidecar and may have verified it: the restore then fails at one of its trees with the services stopped (`restore.go:115-119`); "overwritten with the backup's contents" (`restore.go:27-29`) |
| `MCConsoleSession.cfg` | `SessionOfCurrentPassword` | a login verified before a change of the password (`handlers_auth.go:53`) opens its session after `sessions.destroy` (`handlers_stubs.go:235-237`) |
| `MCConsolePassword.cfg` | `PasswordIsSaved` | the new hash is in memory (`handlers_stubs.go:182`) before the delegation target is rejected (`:197`): it is valid until the next start, and not saved |
| `MCConsoleWildcard.cfg` | `WildcardIsAddress` | the address changes between IPv4 and IPv6: only the record of the new type is read and written (`desec.go:87-91`, `:111`, `:119-125`), the other stays at the old address and no error is shown; "makes *.{base} point at ip and nothing else" (`desec.go:83`) |
| `MCConsoleWildcard.cfg` with `V6 = {}` and `Mishaps = {{"write"}}` | `WildcardIsAddress` | a save that fails leaves the new address in memory; when the form is sent again nothing has changed, and the record is not synchronised (`handlers_stubs.go:230`) |
| `MCConsoleWildcard.cfg` with `V6 = {}` and `Mishaps = {{"early", "crash"}}` | `WildcardIsAddress` | the synchronisation of a start reads the address once (`dnssync.go:75-92`) and may write it after a settings form has written a newer one |
| `MCConsoleSetups.cfg` | `PasswordIsShared` | two setup forms at once: the hash of one is saved, `ADMIN_PASSWORD` of the other (`handlers_setup.go:101-241`) |

## 6. Not modelled

* Preflight and live checks, the dashboard, the pages: they read, and what they
  show depends on the network or on state modelled elsewhere.
* The internet guard and the formatting of addresses: functions of one request.
* Parsing and quoting of `.env`, of catalog definitions and of YAML, the text of
  `docker-compose.yml`, the `Caddyfile` and Dex's file: each is represented by
  what it says.
* Data directories, binaries and post-install scripts of an app, cryptography,
  the tar format, cookies and CSRF tokens, path layout, the installer scripts
  and the command lines given to Docker.

They keep no state that a step of two actors could break, or lie outside the
program.
