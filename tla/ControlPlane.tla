---------------------------- MODULE ControlPlane ----------------------------
(***************************************************************************)
(* The control plane of stackctl: the web server with its request handlers *)
(* and background jobs (internal/web), and the nightly `stackctl           *)
(* autoupdate` process (cmd/stackctl).  They share state.yaml, the catalog *)
(* cache and the operation lock (internal/lock).                           *)
(*                                                                         *)
(* The web server keeps the state in memory as well, reads state.yaml only *)
(* when it starts, and commits whole clones of its memory.  An autoupdate  *)
(* run reads state.yaml once, at its start.                                *)
(*                                                                         *)
(* A process is a web request together with the worker goroutine its       *)
(* handler starts (the handler hands the lock to the worker and returns),  *)
(* or an autoupdate run.  Setup is done; authentication and CSRF have let  *)
(* the request pass; automatic updates are switched on.                    *)
(***************************************************************************)
EXTENDS Integers, Sequences, FiniteSets

CONSTANTS
  Apps,         \* app ids of the catalog
  InfraApps,    \* the basic services among them: caddy, postgres, dex
  MaxVersion,   \* bound: versions a definition is published in, 1..MaxVersion
  Breaking,     \* <<app, version>> pairs whose definition says breaking: true
  Requests,     \* web requests in flight (bounds the concurrency)
  Updaters,     \* autoupdate runs (the timer's, and ones started by hand)
  JobIds,       \* job ids; an id nobody refers to any more may come again
  MaxRetained,  \* maxRetainedJobs
  Kinds,        \* the operations this instance exercises
  Faults,       \* the faults this instance exercises
  None          \* no process, no app, no job, no archive

AllKinds == {"install", "update", "remove", "toggle", "start", "infra",
             "sync", "backup", "restore", "selfupdate"}

AllFaults == {"crash",  \* the web process dies, systemd starts it again
              "kill",   \* an autoupdate process dies
              "save",   \* writing a file fails
              "lock",   \* the lock file cannot be opened
              "net"}    \* the catalog server does not answer

ASSUME AppsAssumption ==
  /\ InfraApps \subseteq Apps
  /\ None \notin Apps

ASSUME VersionAssumption ==
  /\ MaxVersion \in Nat \ {0}
  /\ Breaking \subseteq Apps \X (1 .. MaxVersion)

ASSUME ProcsAssumption ==
  /\ Requests \cap Updaters = {}
  /\ None \notin Requests \cup Updaters

ASSUME JobsAssumption ==
  /\ MaxRetained \in Nat \ {0}
  /\ None \notin JobIds

ASSUME ScopeAssumption ==
  /\ Kinds \subseteq AllKinds
  /\ None \notin AllKinds \cup {"autoupdate"}
  /\ Faults \subseteq AllFaults

Procs == Requests \cup Updaters

\* Handlers that run their work as a job and hand the lock to the worker.
AsyncKinds == {"install", "update", "infra", "backup", "restore", "selfupdate"}

Version == 0 .. MaxVersion    \* 0: not installed, or no cached definition

\* One entry of state.Containers: what is installed, and whether the nightly
\* run may update it (AutoUpdateDisabled, negated).
AppState == [ver : Version, auto : BOOLEAN]
Absent   == [ver |-> 0, auto |-> TRUE]
State    == [Apps -> AppState]

EmptyState == [a \in Apps |-> Absent]

\* A backup archive holds what lies in the config directory: state.yaml and
\* the catalog cache.
Archive == [state : State, cache : [Apps -> Version]]

ASSUME ArchiveAssumption == None \notin Archive

VARIABLES
  catalog,  \* the version the catalog server publishes, per app
  cache,    \* the cached definition, per app
  disk,     \* state.yaml
  archive,  \* the newest backup, or None
  up,       \* the web process runs
  mem,      \* the state the web server holds in memory (Server.state)
  exiting,  \* RestartService has scheduled the exit of the web process
  owner,    \* who holds the operation lock, or None
  pc,       \* how far each process has come
  op,       \* what each process is doing, its local variables
  jobs,     \* status of every job somebody can still reach
  order     \* jobStore.order: the retained jobs, oldest first

fileVars == <<catalog, cache, disk, archive>>
webVars  == <<up, mem, exiting>>
jobVars  == <<jobs, order>>
vars     == <<catalog, cache, disk, archive, up, mem, exiting, owner, pc, op,
              jobs, order>>

PC == {"idle",     \* no request
       "dl",       \* a definition is downloaded, not yet in the cache
      "want",     \* about to try the lock
      "held",     \* got the lock, has done nothing under it
      "pick",     \* about to turn to the next app of its list
      "dlHeld",   \* like "dl", under the lock
      "ready",    \* the job exists, its worker has not read the state yet
      "op",       \* works on its own copy of the state
      "run",      \* backup, restore or self-update at work
      "overlaid", \* restore: the files are back, services not yet up
      "fin",      \* about to close the job
      "rel"}      \* about to release the lock

\* Between acquiring and releasing the lock.
Critical(p) == pc[p] \notin {"idle", "dl", "want"}

Local == [kind : AllKinds \cup {"autoupdate", None},
          app  : Apps \cup {None},
          def  : Version,           \* version of the definition in hand
          todo : SUBSET Apps,       \* apps still to be done
          work : State,             \* private copy of the state
          job  : JobIds \cup {None},
          ok   : BOOLEAN,           \* outcome
          exit : BOOLEAN]           \* the process is to be restarted

Rest == [kind |-> None, app |-> None, def |-> 0, todo |-> {},
         work |-> EmptyState, job |-> None, ok |-> FALSE, exit |-> FALSE]

JobStatus == {"unused", "running", "ok", "failed"}

TypeOK ==
  /\ catalog \in [Apps -> 1 .. MaxVersion]
  /\ cache \in [Apps -> Version]
  /\ disk \in State
  /\ archive \in Archive \cup {None}
  /\ up \in BOOLEAN
  /\ mem \in State
  /\ exiting \in BOOLEAN
  /\ owner \in Procs \cup {None}
  /\ pc \in [Procs -> PC]
  /\ op \in [Procs -> Local]
  /\ jobs \in [JobIds -> JobStatus]
  /\ order \in Seq(JobIds)

-----------------------------------------------------------------------------
\* A server that has just been set up: nothing installed, the catalog not yet
\* synced.
Init ==
  /\ catalog = [a \in Apps |-> 1]
  /\ cache = [a \in Apps |-> 0]
  /\ disk = EmptyState
  /\ archive = None
  /\ up = TRUE
  /\ mem = EmptyState
  /\ exiting = FALSE
  /\ owner = None
  /\ pc = [p \in Procs |-> "idle"]
  /\ op = [p \in Procs |-> Rest]
  /\ jobs = [j \in JobIds |-> "unused"]
  /\ order = <<>>

Goto(p, label) == pc' = [pc EXCEPT ![p] = label]

\* The process starts on an operation of kind k on app a.
Enter(p, label, k, a, d) ==
  /\ Goto(p, label)
  /\ op' = [op EXCEPT ![p] = [Rest EXCEPT !.kind = k, !.app = a, !.def = d]]

\* The process is done.
Leave(p) ==
  /\ Goto(p, "idle")
  /\ op' = [op EXCEPT ![p] = Rest]

\* The jobs whose page still resolves.
Retained == {order[i] : i \in DOMAIN order}

-----------------------------------------------------------------------------
\* Requests up to the lock.

\* handleAppInstallPost: takes the cached definition, downloads it only when
\* there is none.  It does not ask whether the app is installed.
BeginInstall(p, a) ==
  /\ up /\ pc[p] = "idle" /\ "install" \in Kinds
  /\ IF cache[a] # 0 THEN Enter(p, "want", "install", a, cache[a])
                     ELSE Enter(p, "dl", "install", a, catalog[a])
  /\ UNCHANGED <<fileVars, webVars, owner, jobVars>>

\* handleAppUpdate: refused for an app that is not installed, otherwise
\* downloads the definition, cached or not; both before the lock.
BeginUpdate(p, a) ==
  /\ up /\ pc[p] = "idle" /\ "update" \in Kinds
  /\ mem[a].ver # 0
  /\ Enter(p, "dl", "update", a, catalog[a])
  /\ UNCHANGED <<fileVars, webVars, owner, jobVars>>

\* handleCatalogSync fetches definition after definition, without the lock;
\* one of them here.
BeginSync(p, a) ==
  /\ up /\ pc[p] = "idle" /\ "sync" \in Kinds
  /\ Enter(p, "dl", "sync", a, catalog[a])
  /\ UNCHANGED <<fileVars, webVars, owner, jobVars>>

\* Handlers on one app that come to the lock at once: remove, autoupdate
\* toggle, start and stop.
BeginOnApp(p, k, a) ==
  /\ up /\ pc[p] = "idle" /\ k \in Kinds \cap {"remove", "toggle", "start"}
  /\ Enter(p, "want", k, a, 0)
  /\ UNCHANGED <<fileVars, webVars, owner, jobVars>>

\* Handlers on the whole server.
BeginOnServer(p, k) ==
  /\ up /\ pc[p] = "idle"
  /\ k \in Kinds \cap {"infra", "backup", "restore", "selfupdate"}
  /\ k = "restore" => archive # None
  /\ Enter(p, "want", k, None, 0)
  /\ UNCHANGED <<fileVars, webVars, owner, jobVars>>

\* FetchDefinition, second half: the downloaded definition replaces the
\* cached one.
StoreDefinition(p) ==
  /\ pc[p] \in {"dl", "dlHeld"}
  /\ cache' = [cache EXCEPT ![op[p].app] = op[p].def]
  /\ CASE op[p].kind = "sync"       -> Leave(p)
       [] op[p].kind = "infra"      -> Goto(p, "ready") /\ UNCHANGED op
       [] op[p].kind = "autoupdate" -> Goto(p, "op") /\ UNCHANGED op
       [] OTHER                     -> Goto(p, "want") /\ UNCHANGED op
  /\ UNCHANGED <<catalog, disk, archive, webVars, owner, jobVars>>

-----------------------------------------------------------------------------
\* The operation lock, a non-blocking flock: for requests and updaters alike.

\* Variant: the lock is asked for without LOCK_EX.
TryLockShared(p) ==
  /\ pc[p] = "want"
  /\ owner' = p
  /\ Goto(p, "held")
  /\ UNCHANGED <<fileVars, webVars, op, jobVars>>

\* lock.Acquire succeeds.
TryLock(p) ==
  /\ pc[p] = "want"
  /\ owner = None
  /\ owner' = p
  /\ Goto(p, "held")
  /\ UNCHANGED <<fileVars, webVars, op, jobVars>>

\* ErrBusy, or the lock file cannot be opened: the web request answers with a
\* notice, the autoupdate run skips the night.
Refused(p) ==
  /\ pc[p] = "want"
  /\ owner # None \/ "lock" \in Faults
  /\ Leave(p)
  /\ UNCHANGED <<fileVars, webVars, owner, jobVars>>

\* Handle.Release, deferred: the last thing a handler, worker or run does.
Release(p) ==
  /\ pc[p] = "rel"
  /\ owner' = None
  /\ Leave(p)
  /\ UNCHANGED <<fileVars, webVars, jobVars>>

-----------------------------------------------------------------------------
\* Jobs.

\* Variant: a full store drops what was appended last.
CreateJobEvictsNewest(j) ==
  /\ jobs[j] = "unused"
  /\ order' = IF Len(order) = MaxRetained THEN order ELSE Append(order, j)
  /\ jobs' = [jobs EXCEPT ![j] = "running"]

\* Variant: ids repeat.
CreateJobReusesId(j) ==
  /\ order' = IF Len(order) = MaxRetained THEN Append(Tail(order), j)
                                          ELSE Append(order, j)
  /\ jobs' = [jobs EXCEPT ![j] = "running"]

\* jobStore.create: append the job and evict the oldest beyond MaxRetained.  A
\* worker keeps its evicted job; nobody else reaches it any more.
CreateJob(j) ==
  LET longer  == Append(order, j)
      evicted == IF Len(longer) > MaxRetained THEN {Head(longer)} ELSE {}
  IN /\ jobs[j] = "unused"     \* ids are random, so never one in use
     /\ order' = IF evicted = {} THEN longer ELSE Tail(longer)
     /\ jobs' = [i \in JobIds |->
                   IF i = j THEN "running"
                   ELSE IF i \in evicted /\ jobs[i] # "running" THEN "unused"
                   ELSE jobs[i]]

\* Variant: the handler releases the lock when it returns, not its worker.
StartJobUnlocks(p) ==
  /\ pc[p] = "held"
  /\ op[p].kind \in AsyncKinds \ {"infra"}
  /\ \E j \in JobIds :
       /\ CreateJob(j)
       /\ op' = [op EXCEPT ![p].job = j]
  /\ Goto(p, IF op[p].kind \in {"install", "update"} THEN "ready" ELSE "run")
  /\ owner' = None
  /\ UNCHANGED <<fileVars, webVars>>

\* The handler creates the job and starts its worker.
StartJob(p) ==
  /\ pc[p] = "held"
  /\ op[p].kind \in AsyncKinds \ {"infra"}
  /\ \E j \in JobIds :
       /\ CreateJob(j)
       /\ op' = [op EXCEPT ![p].job = j]
  /\ Goto(p, IF op[p].kind \in {"install", "update"} THEN "ready" ELSE "run")
  /\ UNCHANGED <<fileVars, webVars, owner>>

\* Variant: the early return "nothing is missing" forgets the lock.
StartInfraJobKeepsLock(p) ==
  LET missing == {a \in InfraApps : mem[a].ver = 0}
  IN /\ pc[p] = "held" /\ op[p].kind = "infra"
     /\ IF missing = {}
        THEN Leave(p) /\ UNCHANGED jobVars
        ELSE \E j \in JobIds :
               /\ CreateJob(j)
               /\ op' = [op EXCEPT ![p].job = j, ![p].todo = missing]
               /\ Goto(p, "pick")
     /\ UNCHANGED <<fileVars, webVars, owner>>

\* startInfraJob: the missing basic services, or no job at all.
StartInfraJob(p) ==
  LET missing == {a \in InfraApps : mem[a].ver = 0}
  IN /\ pc[p] = "held" /\ op[p].kind = "infra"
     /\ IF missing = {}
        THEN Goto(p, "rel") /\ UNCHANGED <<op, jobVars>>
        ELSE \E j \in JobIds :
               /\ CreateJob(j)
               /\ op' = [op EXCEPT ![p].job = j, ![p].todo = missing]
               /\ Goto(p, "pick")
     /\ UNCHANGED <<fileVars, webVars, owner>>

\* Variant: a failure is stored as "error", which no page knows.
FinishJobOffStatus(p) ==
  /\ pc[p] = "fin"
  /\ jobs' = [jobs EXCEPT ![op[p].job] =
                IF op[p].job \notin Retained THEN "unused"
                ELSE IF op[p].ok THEN "ok" ELSE "error"]
  /\ exiting' = (exiting \/ op[p].exit)
  /\ Goto(p, "rel")
  /\ UNCHANGED <<fileVars, up, mem, owner, op, order>>

\* Variant: RestartService is not called.
FinishJobStaysUp(p) ==
  /\ pc[p] = "fin"
  /\ jobs' = [jobs EXCEPT ![op[p].job] =
                IF op[p].job \notin Retained THEN "unused"
                ELSE IF op[p].ok THEN "ok" ELSE "failed"]
  /\ Goto(p, "rel")
  /\ UNCHANGED <<fileVars, webVars, owner, op, order>>

\* Job.finish; after a restore or a self-update that went well, RestartService
\* schedules the exit of the process.  The lock is still held.
FinishJob(p) ==
  /\ pc[p] = "fin"
  /\ jobs' = [jobs EXCEPT ![op[p].job] =
                IF op[p].job \notin Retained THEN "unused"
                ELSE IF op[p].ok THEN "ok" ELSE "failed"]
  /\ exiting' = (exiting \/ op[p].exit)
  /\ Goto(p, "rel")
  /\ UNCHANGED <<fileVars, up, mem, owner, op, order>>

-----------------------------------------------------------------------------
\* Operations on apps, under the lock.

\* Variant: a definition that cannot be had ends the worker, not its job.
PickInfraAbandons(p) ==
  /\ pc[p] = "pick" /\ op[p].kind = "infra"
  /\ \/ \E a \in op[p].todo :
          /\ op' = [op EXCEPT ![p].app = a, ![p].todo = @ \ {a},
                              ![p].def = catalog[a]]
          /\ Goto(p, "dlHeld")
     \/ /\ "net" \in Faults
        /\ Goto(p, "rel")
        /\ UNCHANGED op
  /\ UNCHANGED <<fileVars, webVars, owner, jobVars>>

\* runInfraJob turns to the next missing service (the code takes them in the
\* order caddy, postgres, dex; nothing depends on it).
PickInfra(p) ==
  /\ pc[p] = "pick" /\ op[p].kind = "infra"
  /\ \/ \E a \in op[p].todo :
          LET cached == cache[a] # 0
          IN /\ op' = [op EXCEPT ![p].app = a, ![p].todo = @ \ {a},
                                 ![p].def = IF cached THEN cache[a] ELSE catalog[a]]
             /\ Goto(p, IF cached THEN "ready" ELSE "dlHeld")
     \/ /\ "net" \in Faults
        /\ op' = [op EXCEPT ![p].ok = FALSE]
        /\ Goto(p, "fin")
  /\ UNCHANGED <<fileVars, webVars, owner, jobVars>>

\* snapState: the operation gets its own copy of the state in memory.
Snapshot(p) ==
  /\ \/ pc[p] = "ready"
     \/ (pc[p] = "held" /\ op[p].kind \in {"remove", "toggle"})
  /\ op' = [op EXCEPT ![p].work = mem]
  /\ Goto(p, "op")
  /\ UNCHANGED <<fileVars, webVars, owner, jobVars>>

\* Start and stop only talk to docker.
StartOrStop(p) ==
  /\ pc[p] = "held" /\ op[p].kind = "start"
  /\ Goto(p, "rel")
  /\ UNCHANGED <<fileVars, webVars, owner, op, jobVars>>

\* Variant: the copy is saved and forgotten.
CommitToFileOnly(s) ==
  /\ disk' = s
  /\ UNCHANGED mem

\* commitState: the copy replaces the state in memory and is saved.
Commit(s) ==
  /\ mem' = s
  /\ \/ disk' = s
     \/ "save" \in Faults /\ UNCHANGED disk

\* install.Install and install.Update as far as the state goes: what they make
\* of the entry of the app when they succeed.
Applied(p) ==
  LET l == op[p]
  IN [l.work EXCEPT ![l.app].ver = l.def,
                    ![l.app].auto = l.kind \in {"install", "infra"} \/ @]

\* applyAppOp: run Install or Update on the copy, then commit it whatever the
\* outcome.  Update fails on an app that is not installed.
ApplyAppOp(p) ==
  /\ pc[p] = "op"
  /\ op[p].kind \in {"install", "update", "infra"}
  /\ \E ok \in BOOLEAN :
       /\ ok => op[p].kind # "update" \/ op[p].work[op[p].app].ver # 0
       /\ Commit(IF ok THEN Applied(p) ELSE op[p].work)
       /\ op' = [op EXCEPT ![p].ok = ok]
       /\ Goto(p, IF ok /\ op[p].todo # {} THEN "pick" ELSE "fin")
  /\ UNCHANGED <<catalog, cache, archive, up, exiting, owner, jobVars>>

\* handleAppRemove and handleAppAutoUpdateToggle: commit the changed copy.
CommitChange(p) ==
  LET a == op[p].app
      Changed == IF op[p].kind = "remove"
                 THEN {[op[p].work EXCEPT ![a] = Absent]}
                 ELSE {[op[p].work EXCEPT ![a].auto = on] : on \in BOOLEAN}
  IN /\ pc[p] = "op" /\ op[p].kind \in {"remove", "toggle"}
     /\ op[p].work[a].ver # 0
     /\ \E s \in Changed : Commit(s)
     /\ Goto(p, "rel")
     /\ UNCHANGED <<catalog, cache, archive, up, exiting, owner, op, jobVars>>

\* They give up without a commit: the app is not installed, or removing it
\* failed.
GiveUp(p) ==
  /\ pc[p] = "op"
  /\ \/ op[p].kind = "remove"
     \/ /\ op[p].kind = "toggle"
        /\ op[p].work[op[p].app].ver = 0
  /\ Goto(p, "rel")
  /\ UNCHANGED <<fileVars, webVars, owner, op, jobVars>>

-----------------------------------------------------------------------------
\* Backup, restore and self-update, under the lock.

\* runBackupJob: an archive of the files, or none.
Backup(p) ==
  /\ pc[p] = "run" /\ op[p].kind = "backup"
  /\ \E ok \in BOOLEAN :
       /\ archive' = IF ok THEN [state |-> disk, cache |-> cache] ELSE archive
       /\ op' = [op EXCEPT ![p].ok = ok]
  /\ Goto(p, "fin")
  /\ UNCHANGED <<catalog, cache, disk, webVars, owner, jobVars>>

\* backup.Restore lays the archived files over the present ones; cached
\* definitions the archive does not have stay.
RestoreFiles(p) ==
  /\ pc[p] = "run" /\ op[p].kind = "restore"
  /\ disk' = archive.state
  /\ cache' = [a \in Apps |-> IF archive.cache[a] # 0 THEN archive.cache[a]
                                                     ELSE cache[a]]
  /\ Goto(p, "overlaid")
  /\ UNCHANGED <<catalog, archive, webVars, owner, op, jobVars>>

\* Variant: a failure returns without closing the job.
EndRestoreForgetsJob(p) ==
  /\ op[p].kind = "restore"
  /\ \E ok \in BOOLEAN :
       /\ pc[p] = "overlaid" \/ (pc[p] = "run" /\ ~ok)
       /\ op' = [op EXCEPT ![p].ok = ok, ![p].exit = ok]
       /\ Goto(p, IF ok THEN "fin" ELSE "rel")
  /\ UNCHANGED <<fileVars, webVars, owner, jobVars>>

\* The rest of a restore: database and services.  A failure before or after
\* the overlay ends the job without a restart.
EndRestore(p) ==
  /\ op[p].kind = "restore"
  /\ \E ok \in BOOLEAN :
       /\ \/ pc[p] = "overlaid"
          \/ /\ pc[p] = "run"
             /\ ~ok
       /\ op' = [op EXCEPT ![p].ok = ok, ![p].exit = ok]
  /\ Goto(p, "fin")
  /\ UNCHANGED <<fileVars, webVars, owner, jobVars>>

\* runSelfUpdateJob: failed, already current, or replaced and to be restarted.
SelfUpdate(p) ==
  /\ pc[p] = "run" /\ op[p].kind = "selfupdate"
  /\ \E ok, exit \in BOOLEAN :
       /\ exit => ok
       /\ op' = [op EXCEPT ![p].ok = ok, ![p].exit = exit]
  /\ Goto(p, "fin")
  /\ UNCHANGED <<fileVars, webVars, owner, jobVars>>

-----------------------------------------------------------------------------
\* The autoupdate process.

\* cmdAutoupdate loads state.yaml, then goes for the lock.
AutoLoad(u) ==
  /\ pc[u] = "idle"
  /\ Goto(u, "want")
  /\ op' = [op EXCEPT ![u] = [Rest EXCEPT !.kind = "autoupdate", !.work = disk]]
  /\ UNCHANGED <<fileVars, webVars, owner, jobVars>>

\* Installed apps whose cached definition differs from what is installed,
\* without the breaking ones and those the admin has opted out.
Due(state, defs) ==
  {a \in Apps : /\ state[a].ver # 0 /\ defs[a] # 0
                /\ state[a].ver # defs[a]
                /\ <<a, defs[a]>> \notin Breaking
                /\ state[a].auto}

\* catalog.Sync refreshes the definitions it can get; then the list is made.
AutoSync(u) ==
  /\ pc[u] = "held" /\ u \in Updaters
  /\ \E got \in IF "net" \in Faults THEN SUBSET Apps ELSE {Apps} :
       cache' = [a \in Apps |-> IF a \in got THEN catalog[a] ELSE cache[a]]
  /\ op' = [op EXCEPT ![u].todo = Due(op[u].work, cache')]
  /\ Goto(u, "pick")
  /\ UNCHANGED <<catalog, disk, archive, webVars, owner, jobVars>>

\* runUpdate fetches the definition again; an app it cannot get is left out.
AutoNext(u) ==
  /\ pc[u] = "pick" /\ u \in Updaters
  /\ \E a \in op[u].todo :
       \/ /\ op' = [op EXCEPT ![u].todo = @ \ {a}, ![u].app = a,
                              ![u].def = catalog[a]]
          /\ Goto(u, "dlHeld")
       \/ /\ "net" \in Faults
          /\ op' = [op EXCEPT ![u].todo = @ \ {a}]
          /\ UNCHANGED pc
  /\ UNCHANGED <<fileVars, webVars, owner, jobVars>>

\* install.Update, then the copy is saved whatever came of it.
AutoApply(u) ==
  /\ pc[u] = "op" /\ u \in Updaters
  /\ \E ok \in BOOLEAN :
       LET s == IF ok THEN Applied(u) ELSE op[u].work
       IN /\ op' = [op EXCEPT ![u].work = s]
          /\ \/ disk' = s
             \/ "save" \in Faults /\ UNCHANGED disk
  /\ Goto(u, "pick")
  /\ UNCHANGED <<catalog, cache, archive, webVars, owner, jobVars>>

AutoDone(u) ==
  /\ pc[u] = "pick" /\ u \in Updaters /\ op[u].todo = {}
  /\ Goto(u, "rel")
  /\ UNCHANGED <<fileVars, webVars, owner, op, jobVars>>

\* The process dies; the kernel drops its lock.
Kill(u) ==
  /\ "kill" \in Faults
  /\ pc[u] # "idle"
  /\ owner' = IF owner = u THEN None ELSE owner
  /\ Leave(u)
  /\ UNCHANGED <<fileVars, webVars, jobVars>>

-----------------------------------------------------------------------------
\* The web process goes and comes back.

\* Its requests, workers, jobs and memory are gone, and the kernel drops a
\* lock one of them held.
WebDown ==
  /\ up
  /\ up' = FALSE
  /\ exiting' = FALSE
  /\ mem' = EmptyState
  /\ owner' = IF owner \in Requests THEN None ELSE owner
  /\ pc' = [p \in Procs |-> IF p \in Requests THEN "idle" ELSE pc[p]]
  /\ op' = [p \in Procs |-> IF p \in Requests THEN Rest ELSE op[p]]
  /\ jobs' = [j \in JobIds |-> "unused"]
  /\ order' = <<>>
  /\ UNCHANGED fileVars

\* RestartService: os.Exit, RestartDelay after the job has asked for it.
Exit == exiting /\ WebDown

Crash == "crash" \in Faults /\ WebDown

\* systemd starts the process again; cmdWeb loads state.yaml.
Boot ==
  /\ ~up
  /\ up' = TRUE
  /\ mem' = disk
  /\ UNCHANGED <<fileVars, exiting, owner, pc, op, jobVars>>

\* Somebody publishes a new version of a definition.
Publish(a) ==
  /\ catalog[a] < MaxVersion
  /\ catalog' = [catalog EXCEPT ![a] = @ + 1]
  /\ UNCHANGED <<cache, disk, archive, webVars, owner, pc, op, jobVars>>

-----------------------------------------------------------------------------
Begin(p) ==
  \/ \E a \in Apps : BeginInstall(p, a) \/ BeginUpdate(p, a) \/ BeginSync(p, a)
  \/ \E k \in AllKinds, a \in Apps : BeginOnApp(p, k, a)
  \/ \E k \in AllKinds : BeginOnServer(p, k)

\* A request or its worker goes on with what it has begun.
WebStep(p) ==
  \/ StoreDefinition(p) \/ TryLock(p) \/ Refused(p) \/ Release(p)
  \/ StartJob(p) \/ StartInfraJob(p) \/ FinishJob(p)
  \/ PickInfra(p) \/ Snapshot(p) \/ StartOrStop(p)
  \/ ApplyAppOp(p) \/ CommitChange(p) \/ GiveUp(p)
  \/ Backup(p) \/ RestoreFiles(p) \/ EndRestore(p) \/ SelfUpdate(p)

AutoStep(u) ==
  \/ StoreDefinition(u) \/ TryLock(u) \/ Refused(u) \/ Release(u)
  \/ AutoSync(u) \/ AutoNext(u) \/ AutoApply(u) \/ AutoDone(u)

Next ==
  \/ \E p \in Requests : Begin(p) \/ WebStep(p)
  \/ \E u \in Updaters : AutoLoad(u) \/ AutoStep(u) \/ Kill(u)
  \/ Exit \/ Crash \/ Boot
  \/ \E a \in Apps : Publish(a)

Spec == Init /\ [][Next]_vars

\* Every worker and run goes on (external commands return: docker, the
\* database and the network either answer or fail), a scheduled exit happens,
\* and systemd restarts the service (Restart=always).  Nobody has to send a
\* request or publish anything.
Fairness ==
  /\ \A p \in Requests : WF_vars(WebStep(p))
  /\ \A u \in Updaters : WF_vars(AutoStep(u))
  /\ WF_vars(Exit) /\ WF_vars(Boot)

FairSpec == Spec /\ Fairness

-----------------------------------------------------------------------------
\* Properties.

\* Whoever works between acquiring and releasing the lock is its owner, so no
\* two operations ever overlap, be they requests, workers that outlive their
\* request, or autoupdate runs; and a process that is not at work does not
\* keep the lock (lock.Acquire, withOpLock, tryLock and every hand-over to a
\* worker).
LockProtocol == \A p \in Procs : Critical(p) <=> owner = p

\* "At most one job is ever running" (jobs.go): a job that is not closed has a
\* worker, and that worker owns the lock.  So there is no second running job,
\* and none is left running once the lock is free.
OneRunningJob ==
  \A j \in JobIds : jobs[j] = "running" =>
    /\ owner \in Requests
    /\ op[owner].job = j
    /\ pc[owner] \in {"pick", "dlHeld", "ready", "op", "run", "overlaid", "fin"}

\* The store "keeps the running job" (jobStore): however many jobs follow each
\* other, the page of the one at work resolves.
RunningJobRetained == \A j \in JobIds : jobs[j] = "running" => j \in Retained

\* A verdict, once shown on a job page, never turns into another one: the job
\* only goes when it is evicted or the process ends (Job.finish, jobStore).
JobVerdictStands ==
  [][\A j \in JobIds : jobs[j] \in {"ok", "failed"} =>
       jobs'[j] \in {jobs[j], "unused"}]_vars

\* The web server's memory is what state.yaml says, at every moment a request
\* can look.  This is what commitState is for; it holds as long as nobody but
\* the web server writes the file and no write fails.
MemoryIsDisk == up => mem = disk

\* The apps the owner of the lock may change: the one it works on, the basic
\* services, or all when a backup comes back.
Claim ==
  IF owner = None THEN {}
  ELSE CASE op[owner].kind \in {"install", "update", "remove", "toggle"} ->
              {op[owner].app}
         [] op[owner].kind = "infra" -> InfraApps
         [] op[owner].kind = "restore" -> Apps
         [] op[owner].kind = "autoupdate" /\ op[owner].app # None -> {op[owner].app}
         [] OTHER -> {}

CS == INSTANCE ClaimedStore WITH
        Nobody <- None, Items <- Apps, Values <- AppState,
        store <- disk, claim <- Claim

\* The web server by itself serialises whole operations: each takes the lock
\* for the apps it is about, and until it lets go state.yaml changes for no
\* other app (package lock: a read-modify-write flow does not interleave with
\* another).
OperationsSerialised == CS!Spec

\* The same as a property of steps: an entry of state.yaml only changes under
\* the lock and by an operation on that very app.  Reads of the state before
\* the lock, and memory that is never read again, are what could break it.
NoLostUpdate ==
  [][\A a \in Apps : disk'[a] # disk[a] => a \in Claim]_vars

\* "Sync catalog and install non-breaking app updates" (usage of autoupdate).
NoBreakingAutoUpdate ==
  \A u \in Updaters : pc[u] = "op" => <<op[u].app, op[u].def>> \notin Breaking

\* A restart after a restore reloads what was restored (runRestoreJob): until
\* the process has gone nobody writes over the restored state.yaml.
RestoredStateReloaded == [][exiting => disk' = disk]_vars

\* An update never takes an app back to an older version: the definition it
\* works with is the latest one in the cache (install.Update).
NoDowngrade ==
  [][\A a \in Apps : disk[a].ver # 0 /\ disk'[a].ver # 0 =>
       disk[a].ver <= disk'[a].ver]_vars

\* Nobody keeps the lock: every handler, worker and run comes to its Release,
\* on every path through it, or dies.
LockIsReleased == \A p \in Procs : owner = p ~> owner # p

\* Every job page comes to an end: the job is closed, or the process that ran
\* it is gone.
JobsEnd == \A j \in JobIds : jobs[j] = "running" ~> jobs[j] # "running"

\* A restore or self-update that asks for a restart gets it, and the service
\* comes back (the job page waits for that).
RestartHappens ==
  /\ \A p \in Requests : pc[p] = "fin" /\ op[p].exit ~> ~up
  /\ ~up ~> up
=============================================================================
