----------------------------- MODULE AppLifecycle -----------------------------
(***************************************************************************)
(* Install, update and removal of an app (internal/install), step by step, *)
(* over everything they write: .env, the client list of Dex, the role in   *)
(* Postgres, docker-compose.yml, the containers and state.yaml.            *)
(*                                                                         *)
(* Operations run one at a time, under the operation lock of ControlPlane. *)
(* What makes them hard is that they stop in the middle: a step fails, a   *)
(* file cannot be written, the process dies.                               *)
(*                                                                         *)
(* An operation reads the cached definitions when it begins and never      *)
(* again, so a download during an operation has the effect of one after    *)
(* it; definitions change between operations only.                         *)
(***************************************************************************)
EXTENDS Naturals

CONSTANTS
  Apps,
  Dex,        \* the app among them that is the login service, if any
  DbFrom,     \* app -> first version that depends on Postgres
  LoginFrom,  \* app -> first version with an oidc block
  DependsOn,  \* app -> other apps its service depends on, transitively
  Port,       \* app -> its host port
  Values,     \* generated passwords and client secrets
  Given,      \* any other value: a prompt, an address, a definition's secret
  Faults,     \* sets of things that may go wrong, of which Init picks one
  None

AllFaults == {"step",    \* a step of an operation fails
              "write",   \* .env cannot be written at the end of an operation
              "crash",   \* the process dies
              "again"}   \* an install of an app that is installed already

Versions == {1, 2}
Kinds    == {"secret", "prompt", "address", "db", "oidc"}  \* keys of an app in .env
Vals     == Values \cup {Given, None}

ASSUME FaultsAssumption == Faults \subseteq SUBSET AllFaults
ASSUME GivenAssumption  == Given \notin Values
ASSUME DependsAssumption ==
  DependsOn \in [Apps -> SUBSET Apps] /\ \A a \in Apps : a \notin DependsOn[a]
ASSUME VersionAssumption == DbFrom \in [Apps -> 1..3] /\ LoginFrom \in [Apps -> 1..3]

NeedsDb(a, v)  == DbFrom[a] <= v
HasLogin(a, v) == LoginFrom[a] <= v

\* The keys the service of a definition refers to.
Uses(a, v) == {"secret", "prompt", "address"}
              \cup (IF NeedsDb(a, v)  THEN {"db"}   ELSE {})
              \cup (IF HasLogin(a, v) THEN {"oidc"} ELSE {})

VARIABLES
  faults,     \* what may go wrong in this behaviour
  published,  \* app -> version on the catalog server
  cached,     \* app -> version in the catalog cache, or None
  envFile,    \* app -> key -> value in .env
  clients,    \* app -> secret of its client in dex-config.yaml, or None
  role,       \* app -> password of its role in Postgres, or None
  compose,    \* app -> version its service in docker-compose.yml has, or None
  ctr,        \* app -> its container, or None
  inst,       \* app -> its entry in state.Containers, or None
  ports,      \* host port -> app, state.Ports
  op          \* the operation under way

vars == <<faults, published, cached, envFile, clients, role, compose, ctr, inst, ports, op>>

Env       == [Apps -> [Kinds -> Vals]]
Secrets   == Values \cup {None}
Container == [run : BOOLEAN, ver : Versions, keys : [Kinds -> Vals]]
Entry     == [ver : Versions, keys : SUBSET Kinds]    \* VersionInstalled, EnvKeys

ASSUME NoneAssumption ==
  None \notin Apps \cup Values \cup {Given} \cup Versions \cup Container \cup Entry

Operation == [kind    : {"none", "install", "update", "remove"},
              app     : Apps \cup {None},
              step    : {"none", "db", "client", "compose", "env", "up", "wipe",
                         "save", "commit", "dex"},
              env     : Env,                    \* the loaded .env
              keys    : SUBSET Kinds,           \* newEnvKeys, or cs.EnvKeys
              clients : [Apps -> Secrets],      \* dexClients
              ok      : BOOLEAN]

NoKeys == [k \in Kinds |-> None]
NoOp == [kind |-> "none", app |-> None, step |-> "none",
         env |-> [a \in Apps |-> NoKeys], keys |-> {},
         clients |-> [a \in Apps |-> None], ok |-> FALSE]

TypeOK ==
  /\ faults \in Faults
  /\ published \in [Apps -> Versions]
  /\ cached \in [Apps -> Versions \cup {None}]
  /\ envFile \in Env
  /\ clients \in [Apps -> Secrets]
  /\ role \in [Apps -> Secrets]
  /\ compose \in [Apps -> Versions \cup {None}]
  /\ ctr \in [Apps -> Container \cup {None}]
  /\ inst \in [Apps -> Entry \cup {None}]
  /\ ports \in [{Port[a] : a \in Apps} -> Apps \cup {None}]
  /\ op \in Operation

Idle      == op = NoOp
Installed == {a \in Apps : inst[a] # None}

Init ==
  /\ faults \in Faults
  /\ published = [a \in Apps |-> 1]
  /\ cached = [a \in Apps |-> None]
  /\ envFile = [a \in Apps |-> NoKeys]
  /\ clients = [a \in Apps |-> None]
  /\ role = [a \in Apps |-> None]
  /\ compose = [a \in Apps |-> None]
  /\ ctr = [a \in Apps |-> None]
  /\ inst = [a \in Apps |-> None]
  /\ ports = [p \in {Port[a] : a \in Apps} |-> None]
  /\ op = NoOp

-----------------------------------------------------------------------------
\* Docker compose.

\* A file in which a service depends on one that is not there is refused, by
\* every command.
Valid == \A a \in Apps : compose[a] # None => \A d \in DependsOn[a] : compose[d] # None

\* `up` of a service brings up its dependencies too and replaces whatever
\* differs from the file.
Upped(a) == {a} \cup DependsOn[a]
NewContainer(a) ==
  [run |-> TRUE, ver |-> compose[a],
   keys |-> [k \in Kinds |-> IF k \in Uses(a, compose[a]) THEN envFile[a][k] ELSE None]]
AfterUp(a) == [x \in Apps |-> IF x \in Upped(a) THEN NewContainer(x) ELSE ctr[x]]

\* A host port is bound by one container at a time.
PortsFree(a) ==
  \A x \in Upped(a), y \in Apps :
    x # y /\ Port[y] = Port[x] => y \notin Upped(a) /\ (ctr[y] # None => ~ctr[y].run)
CanUp(a) == Valid /\ compose[a] # None /\ PortsFree(a)

-----------------------------------------------------------------------------
\* The catalog.

\* A new version on the catalog server.
PublishVersion(a) ==
  /\ Idle /\ published[a] = 1
  /\ published' = [published EXCEPT ![a] = 2]
  /\ UNCHANGED <<faults, cached, envFile, clients, role, compose, ctr, inst, ports, op>>

\* catalog.Sync, FetchDefinition
FetchDefinition(a) ==
  /\ Idle /\ cached[a] # published[a]
  /\ cached' = [cached EXCEPT ![a] = published[a]]
  /\ UNCHANGED <<faults, published, envFile, clients, role, compose, ctr, inst, ports, op>>

-----------------------------------------------------------------------------
\* ReconstructDexClients, over the definitions of the installed apps.
DexClients(defs) ==
  [a \in Apps |-> IF inst[a] # None /\ HasLogin(a, defs[a]) /\ envFile[a]["oidc"] # None
                  THEN envFile[a]["oidc"] ELSE None]

Begin(k, a, first, env, keys, cls) ==
  op' = [kind |-> k, app |-> a, step |-> first, env |-> env, keys |-> keys,
         clients |-> cls, ok |-> FALSE]

\* handleAppInstallPost, applyAppOp and the start of Install: .env is loaded,
\* missing secrets are generated, prompts and addresses are set whatever was
\* there.  Nobody asks whether the app is installed.
Install(a) ==
  /\ Idle
  /\ inst[a] # None => "again" \in faults
  /\ cached' = IF cached[a] = None THEN [cached EXCEPT ![a] = published[a]] ELSE cached
  /\ Begin("install", a, "db",
           [envFile EXCEPT ![a]["secret"] = Given, ![a]["prompt"] = Given,
                           ![a]["address"] = Given],
           {"prompt", "address"} \cup (IF envFile[a]["secret"] = None THEN {"secret"} ELSE {}),
           DexClients(cached'))
  /\ UNCHANGED <<faults, published, envFile, clients, role, compose, ctr, inst, ports>>

\* handleAppUpdate, or runUpdate of the nightly run: the definition is fetched
\* anew.  Keys that are added are recorded on the app's entry.
Update(a) ==
  /\ Idle
  /\ inst[a] # None
  /\ cached' = [cached EXCEPT ![a] = published[a]]
  /\ Begin("update", a, "client",
           [envFile EXCEPT ![a]["secret"] = Given, ![a]["address"] = Given],
           inst[a].keys \cup {"address"}
             \cup (IF envFile[a]["secret"] = None THEN {"secret"} ELSE {}),
           DexClients(cached'))
  /\ UNCHANGED <<faults, published, envFile, clients, role, compose, ctr, inst, ports>>

\* handleAppRemove and the start of Remove: the container goes first, unless
\* compose refuses.  The client list is that of the remaining apps.
Remove(a) ==
  /\ Idle
  /\ inst[a] # None
  /\ ctr' = IF Valid /\ compose[a] # None THEN [ctr EXCEPT ![a] = None] ELSE ctr
  /\ Begin("remove", a, "client",
           [envFile EXCEPT ![a] = [k \in Kinds |-> IF k \in inst[a].keys THEN None ELSE @[k]]],
           {}, [DexClients(cached) EXCEPT ![a] = None])
  /\ UNCHANGED <<faults, published, cached, envFile, clients, role, compose, inst, ports>>

-----------------------------------------------------------------------------
\* Steps of an operation.

Go(s) == op' = [op EXCEPT !.step = s]

\* Variant: an update that fails takes its keys out, too.
RollbackAlways ==
  [op.env EXCEPT ![op.app] = [k \in Kinds |-> IF k \in op.keys THEN None ELSE @[k]]]

\* An install that fails takes its new keys out of the loaded .env again; an
\* update keeps what it has added.
Rollback ==
  IF op.kind = "install"
  THEN [op.env EXCEPT ![op.app] = [k \in Kinds |-> IF k \in op.keys THEN None ELSE @[k]]]
  ELSE op.env

Fail == op' = [op EXCEPT !.step = "save", !.env = Rollback]

\* The loaded .env with a value for a key that has none, any that is used
\* nowhere else.
Generated(k, inUse) ==
  IF op.env[op.app][k] # None
  THEN {op.env}
  ELSE {[op.env EXCEPT ![op.app][k] = v] : v \in Values \ inUse}

\* What generating has added to the keys of the operation.
Added(k) == op.keys \cup (IF op.env[op.app][k] = None THEN {k} ELSE {})

CtrValue(a, k) == IF ctr[a] = None THEN None ELSE ctr[a].keys[k]

\* A step that fails before it has changed anything.
StepFails ==
  /\ "step" \in faults
  /\ op.kind \in {"install", "update"}
  /\ op.step \in {"db", "client", "compose", "env", "up"}
  /\ Fail
  /\ UNCHANGED <<faults, published, cached, envFile, clients, role, compose, ctr, inst, ports>>

\* Variant: a role that exists keeps its password.
SetupAppDBOnce ==
  /\ op.step = "db"
  /\ IF NeedsDb(op.app, cached[op.app])
     THEN \E env \in Generated("db", {role[op.app], CtrValue(op.app, "db")}) :
            /\ role' = [role EXCEPT ![op.app] = IF @ = None THEN env[op.app]["db"] ELSE @]
            /\ op' = [op EXCEPT !.step = "client", !.env = env, !.keys = Added("db")]
     ELSE Go("client") /\ UNCHANGED role
  /\ UNCHANGED <<faults, published, cached, envFile, clients, compose, ctr, inst, ports>>

\* postgres.SetupAppDB, in an install only: the role is created or gets the
\* password in .env; what follows may still fail.
SetupAppDB ==
  /\ op.step = "db"
  /\ IF NeedsDb(op.app, cached[op.app])
     THEN \E env \in Generated("db", {role[op.app], CtrValue(op.app, "db")}) :
            /\ role' = [role EXCEPT ![op.app] = env[op.app]["db"]]
            /\ \/ op' = [op EXCEPT !.step = "client", !.env = env, !.keys = Added("db")]
               \/ "step" \in faults /\ Fail
     ELSE Go("client") /\ UNCHANGED role
  /\ UNCHANGED <<faults, published, cached, envFile, clients, compose, ctr, inst, ports>>

\* Variant: the client gets a new secret each time.
RegisterClientAnew ==
  /\ op.kind \in {"install", "update"} /\ op.step = "client"
  /\ IF HasLogin(op.app, cached[op.app])
     THEN \E v \in Values \ {clients[op.app], CtrValue(op.app, "oidc"), op.env[op.app]["oidc"]} :
            LET cls == [op.clients EXCEPT ![op.app] = v] IN
            /\ clients' = cls
            /\ op' = [op EXCEPT !.step = "compose", !.env = [@ EXCEPT ![op.app]["oidc"] = v],
                                !.keys = Added("oidc"), !.clients = cls]
     ELSE Go("compose") /\ UNCHANGED clients
  /\ UNCHANGED <<faults, published, cached, envFile, role, compose, ctr, inst, ports>>

\* dex.AddClient: Dex's configuration is rewritten with the clients of all
\* installed apps and this one; then the restart of Dex may fail.  Dex itself
\* gets its configuration at this point, too.
RegisterClient ==
  /\ op.kind \in {"install", "update"} /\ op.step = "client"
  /\ CASE HasLogin(op.app, cached[op.app]) ->
            \E env \in Generated("oidc", {clients[op.app], CtrValue(op.app, "oidc")}) :
              LET cls == [op.clients EXCEPT ![op.app] = env[op.app]["oidc"]] IN
              /\ clients' = cls
              /\ \/ op' = [op EXCEPT !.step = "compose", !.env = env,
                                     !.keys = Added("oidc"), !.clients = cls]
                 \/ "step" \in faults /\ Fail
       [] ~HasLogin(op.app, cached[op.app]) /\ op.app = Dex ->
            /\ clients' = op.clients
            /\ Go("compose") \/ ("step" \in faults /\ Fail)
       [] OTHER -> Go("compose") /\ UNCHANGED clients
  /\ UNCHANGED <<faults, published, cached, envFile, role, compose, ctr, inst, ports>>

\* Remove: the app's client, if the list has it.
UnregisterClient ==
  /\ op.kind = "remove" /\ op.step = "client"
  /\ clients' = IF op.clients[op.app] # None
                THEN [op.clients EXCEPT ![op.app] = None] ELSE clients
  /\ Go("compose")
  /\ UNCHANGED <<faults, published, cached, envFile, role, compose, ctr, inst, ports>>

\* Variant: the file lists the app of the operation only.
ServicesOfAppOnly ==
  [a \in Apps |-> IF a = op.app /\ op.kind # "remove" THEN cached[a] ELSE None]

\* compose.Regenerate, with the cached definitions of all installed apps and
\* of the one installed or updated, or without the one removed.
Services ==
  [a \in Apps |->
     IF (inst[a] # None \/ a = op.app) /\ ~(op.kind = "remove" /\ a = op.app)
     THEN cached[a] ELSE None]

\* A removal that cannot rewrite the file returns, and nothing is saved.
Regenerate ==
  /\ op.step = "compose"
  /\ \/ /\ compose' = Services
        /\ Go(IF op.kind = "remove" THEN "wipe" ELSE "env")
     \/ /\ op.kind = "remove" /\ "step" \in faults
        /\ op' = NoOp
        /\ UNCHANGED compose
  /\ UNCHANGED <<faults, published, cached, envFile, clients, role, ctr, inst, ports>>

\* .env is saved before the containers start.
SaveBeforeUp ==
  /\ op.step = "env"
  /\ envFile' = op.env
  /\ Go("up")
  /\ UNCHANGED <<faults, published, cached, clients, role, compose, ctr, inst, ports>>

\* docker.EnsureNetwork and compose up.  A failure may leave containers behind.
Up ==
  /\ op.step = "up"
  /\ \/ /\ CanUp(op.app)
        /\ ctr' = AfterUp(op.app)
        /\ \/ op' = [op EXCEPT !.step = "save", !.ok = TRUE]
           \/ "step" \in faults /\ Fail
     \/ /\ ~CanUp(op.app)
        /\ Fail
        /\ UNCHANGED ctr
  /\ UNCHANGED <<faults, published, cached, envFile, clients, role, compose, inst, ports>>

\* Remove with wipe_data drops role and database, which may fail; without it
\* they stay.
Wipe ==
  /\ op.step = "wipe"
  /\ \/ UNCHANGED role
     \/ role' = [role EXCEPT ![op.app] = None]
  /\ op' = [op EXCEPT !.step = "save", !.ok = TRUE]
  /\ UNCHANGED <<faults, published, cached, envFile, clients, compose, ctr, inst, ports>>

-----------------------------------------------------------------------------
\* applyAppOp, runUpdate and handleAppRemove after the operation.

\* A failed save of .env is only logged.
SaveEnv ==
  /\ op.step = "save"
  /\ \/ envFile' = op.env
     \/ "write" \in faults /\ UNCHANGED envFile
  /\ Go("commit")
  /\ UNCHANGED <<faults, published, cached, clients, role, compose, ctr, inst, ports>>

\* Variant: an update that has failed leaves an entry without a version.
CommitClearsVersion ==
  /\ op.step = "commit"
  /\ LET a == op.app IN
     /\ inst' = [inst EXCEPT ![a] =
                   IF op.kind = "install" /\ ~op.ok THEN @
                   ELSE IF op.kind = "remove" THEN None
                   ELSE [ver |-> IF op.ok THEN cached[a] ELSE None, keys |-> op.keys]]
     /\ UNCHANGED ports
  /\ IF op.ok /\ op.kind # "remove" THEN Go("dex") ELSE op' = NoOp
  /\ UNCHANGED <<faults, published, cached, envFile, clients, role, compose, ctr>>

\* commitState.  An update that has failed keeps its version and the keys it
\* has added.
Commit ==
  /\ op.step = "commit"
  /\ LET a == op.app IN
     CASE op.kind = "install" /\ op.ok ->
            /\ inst' = [inst EXCEPT ![a] = [ver |-> cached[a], keys |-> op.keys]]
            /\ ports' = [ports EXCEPT ![Port[a]] = a]
       [] op.kind = "update" ->
            /\ inst' = [inst EXCEPT ![a] = [ver |-> IF op.ok THEN cached[a] ELSE @.ver,
                                            keys |-> op.keys]]
            /\ UNCHANGED ports
       [] op.kind = "remove" ->
            /\ inst' = [inst EXCEPT ![a] = None]
            /\ ports' = [ports EXCEPT ![Port[a]] = None]
       [] OTHER -> UNCHANGED <<inst, ports>>
  /\ IF op.ok /\ op.kind # "remove" THEN Go("dex") ELSE op' = NoOp
  /\ UNCHANGED <<faults, published, cached, envFile, clients, role, compose, ctr>>

\* An install or update that has succeeded writes the client list once more.
SaveDex ==
  /\ op.step = "dex"
  /\ \/ clients' = op.clients
     \/ "step" \in faults /\ UNCHANGED clients
  /\ op' = NoOp
  /\ UNCHANGED <<faults, published, cached, envFile, role, compose, ctr, inst, ports>>

\* The process dies: the web server, or the nightly run.
Crash ==
  /\ "crash" \in faults /\ ~Idle
  /\ op' = NoOp
  /\ UNCHANGED <<faults, published, cached, envFile, clients, role, compose, ctr, inst, ports>>

-----------------------------------------------------------------------------
\* handleAppStart
Start(a) ==
  /\ Idle /\ inst[a] # None
  /\ CanUp(a)
  /\ ctr' = AfterUp(a)
  /\ UNCHANGED <<faults, published, cached, envFile, clients, role, compose, inst, ports, op>>

\* handleAppStop
Stop(a) ==
  /\ Idle /\ inst[a] # None
  /\ Valid /\ compose[a] # None /\ ctr[a] # None
  /\ ctr' = [ctr EXCEPT ![a].run = FALSE]
  /\ UNCHANGED <<faults, published, cached, envFile, clients, role, compose, inst, ports, op>>

\* rewriteDexConfig, for a change of the test accounts.
RewriteDexConfig ==
  /\ Idle
  /\ Dex \in Installed
  /\ clients' = DexClients(cached)
  /\ UNCHANGED <<faults, published, cached, envFile, role, compose, ctr, inst, ports, op>>

-----------------------------------------------------------------------------
Request ==
  \/ \E a \in Apps : \/ Install(a) \/ Update(a) \/ Remove(a)
                     \/ Start(a) \/ Stop(a)
  \/ RewriteDexConfig

Step == \/ SetupAppDB \/ RegisterClient \/ UnregisterClient \/ Regenerate
        \/ SaveBeforeUp \/ Up \/ Wipe \/ StepFails
        \/ SaveEnv \/ Commit \/ SaveDex

Next ==
  \/ Request \/ Step \/ Crash
  \/ \E a \in Apps : PublishVersion(a) \/ FetchDefinition(a)

Spec == Init /\ [][Next]_vars

-----------------------------------------------------------------------------
\* The password of an app's database and the secret of its login are each in
\* two places that change one after the other.  Whatever fails, and wherever
\* the process dies: a container of an installed app that runs with a password
\* or a secret has the one that Postgres, or Dex, accepts.  Three remarks: the role
\* is gone when the process died in a removal that wipes the data; and where apps
\* depend on each other, docker compose may refuse to remove a container, and if
\* the process dies in that removal Dex no longer knows the one that is left
\* (MCAppsRemoval.cfg); and where an installed app is installed again, a failure
\* takes the secret back from .env that its container runs with already, and the
\* next update gives Dex another one (MCAppsReinstall.cfg).
SecretsAgree ==
  \A a \in Installed :
    ctr[a] # None =>
      /\ ctr[a].keys["db"] # None => role[a] \in {ctr[a].keys["db"], None}
      /\ ctr[a].keys["oidc"] # None => clients[a] = ctr[a].keys["oidc"]

\* An install that reports success has left the app complete, whatever earlier
\* failures, crashes and removals have left behind: everything its definition
\* refers to is in .env and in its container, Postgres and Dex know it, and the
\* compose file lists it.
InstallHeals ==
  [][\A a \in Apps :
       op.kind = "install" /\ op.app = a /\ op.step = "commit" /\ op'.step = "dex" =>
         LET c == ctr[a].keys IN
         /\ c = [k \in Kinds |-> IF k \in Uses(a, inst'[a].ver) THEN envFile[a][k] ELSE None]
         /\ \A k \in Uses(a, inst'[a].ver) : c[k] # None
         /\ NeedsDb(a, inst'[a].ver) => role[a] = c["db"]
         /\ HasLogin(a, inst'[a].ver) => clients[a] = c["oidc"]
         /\ compose[a] = inst'[a].ver]_vars

\* "Roll back any .env keys we added in this run; otherwise a partial install
\* leaves orphaned secrets in .env that Remove can't reach" (install.go:88-90),
\* and no other keys, so that an installed app keeps its own.  Where steps may
\* fail but files can be written and the process lives: while nothing is under
\* way the keys in .env are those on the entries of the installed apps, which
\* Remove deletes.
KeysMatchEntries ==
  Idle /\ faults \subseteq {"step", "again"} =>
    \A a \in Apps : /\ inst[a] = None => envFile[a] = NoKeys
                   /\ inst[a] # None => {k \in Kinds : envFile[a][k] # None} = inst[a].keys

\* While nothing is under way the compose file has a service for every
\* installed app, so that start, stop, update and removal can reach it: no
\* failed step loses one.  (The process may die in a removal between
\* docker-compose.yml and state.yaml.)
InstalledHasService ==
  Idle /\ "crash" \notin faults => \A a \in Installed : compose[a] # None

\* Remove "entfernt daraus nur den eigenen Client und schreibt die Config mit
\* dem Rest neu" (handlers_apps.go:730): no client remains of an app that was
\* removed.
RemovedClientIsGone ==
  [][\A a \in Apps : inst[a] # None /\ inst'[a] = None => clients'[a] = None]_vars

\* "Stop AND remove the container" (install.go:610): none remains of an app
\* that was removed.
RemovedContainerIsGone ==
  [][\A a \in Apps : inst[a] # None /\ inst'[a] = None => ctr'[a] = None]_vars

\* "Breaking markiert ein Update als nicht-automatisch installierbar"
\* (catalog/types.go:51): a container runs the version that was installed, or
\* updated to, and state.yaml records.
InstalledVersionRuns ==
  Idle => \A a \in Installed : ctr[a] # None => ctr[a].ver = inst[a].ver

\* "Ports maps host_port -> app_id so we can reject conflicts on install"
\* (config/state.go:23).
PortsAreExclusive ==
  \A a, b \in Installed : Port[a] = Port[b] => a = b
=============================================================================
