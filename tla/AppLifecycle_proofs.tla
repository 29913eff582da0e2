------------------------- MODULE AppLifecycle_proofs -------------------------
(***************************************************************************)
(* Theorems about AppLifecycle, for any number of apps and values: the     *)
(* types, the services of the installed apps, the keys in .env, the        *)
(* secrets that two places must agree on, and what an install leaves.      *)
(***************************************************************************)
EXTENDS AppLifecycle, TLAPS

USE NoneAssumption

-----------------------------------------------------------------------------
\* Types, and what an operation under way has found out about its app.

FirstSteps == {"client", "compose", "env", "up", "save", "commit", "dex"}

OpInv ==
  op # NoOp =>
    /\ op.app \in Apps /\ cached[op.app] # None
    /\ \/ op.kind = "install" /\ op.step \in FirstSteps \cup {"db"}
       \/ op.kind = "update" /\ op.step \in FirstSteps
       \/ op.kind = "remove" /\ op.step \in {"client", "compose", "wipe", "save", "commit"}
    /\ op.kind \in {"update", "remove"} => inst[op.app] # None
    /\ op.ok => op.step \in {"save", "commit", "dex"}

CachedInv == \A a \in Apps : inst[a] # None => cached[a] # None

\* Passwords of databases and secrets of logins are generated, never given.
SecretsOnly(e) == \A a \in Apps : e[a]["db"] \in Secrets /\ e[a]["oidc"] \in Secrets

EnvInv == SecretsOnly(envFile) /\ (op # NoOp => SecretsOnly(op.env))

TInv == TypeOK /\ OpInv /\ CachedInv /\ EnvInv

LEMMA NoOpType == NoOp \in Operation /\ NoOp.kind = "none" /\ NoOp.step = "none" /\ ~NoOp.ok
BY DEF NoOp, Operation, Env, NoKeys, Secrets, Vals

\* What an operation that begins holds.
LEMMA BeginType ==
  ASSUME NEW k \in {"install", "update", "remove"}, NEW a \in Apps, NEW s \in {"db", "client"},
         NEW env \in Env, NEW keys \in SUBSET Kinds, NEW cls \in [Apps -> Secrets],
         Begin(k, a, s, env, keys, cls)
  PROVE  /\ op' \in Operation
         /\ op'.kind = k /\ op'.app = a /\ op'.step = s /\ op'.env = env /\ op'.keys = keys
         /\ op'.clients = cls /\ op'.ok = FALSE /\ op' # NoOp
BY NoOpType DEF Begin, Operation

\* Only the step changes.
LEMMA GoType ==
  ASSUME op \in Operation, NEW s, s \in {"client", "compose", "env", "up", "wipe", "save", "commit", "dex"},
         Go(s)
  PROVE  /\ op' \in Operation /\ op' # NoOp
         /\ op'.kind = op.kind /\ op'.app = op.app /\ op'.step = s /\ op'.env = op.env
         /\ op'.keys = op.keys /\ op'.clients = op.clients /\ op'.ok = op.ok
BY NoOpType DEF Go, Operation

LEMMA RollbackType ==
  ASSUME op \in Operation, op.app \in Apps
  PROVE  /\ Rollback \in Env
         /\ \A a \in Apps \ {op.app} : Rollback[a] = op.env[a]
         /\ op.kind # "install" => Rollback = op.env
         /\ \A k \in Kinds : Rollback[op.app][k] \in {op.env[op.app][k], None}
         /\ op.kind = "install" =>
              \A k \in Kinds : Rollback[op.app][k] =
                 IF k \in op.keys THEN None ELSE op.env[op.app][k]
         /\ SecretsOnly(op.env) => SecretsOnly(Rollback)
<1>1. op.env \in [Apps -> [Kinds -> Vals]]
  BY DEF Operation, Env
<1>2. None \in Vals
  BY DEF Vals
<1>3. CASE op.kind = "install"
  <2> DEFINE e == [k \in Kinds |-> IF k \in op.keys THEN None ELSE op.env[op.app][k]]
  <2>1. Rollback = [op.env EXCEPT ![op.app] = e]
    BY <1>1, <1>3 DEF Rollback
  <2>2. e \in [Kinds -> Vals]
    BY <1>1, <1>2
  <2>3. Rollback \in Env /\ Rollback[op.app] = e /\ \A a \in Apps \ {op.app} : Rollback[a] = op.env[a]
    BY <1>1, <2>1, <2>2 DEF Env
  <2>4. SecretsOnly(op.env) => SecretsOnly(Rollback)
    BY <2>3 DEF SecretsOnly, Secrets, Kinds
  <2> QED  BY <1>1, <1>3, <2>3, <2>4
<1>4. CASE op.kind # "install"
  BY <1>1, <1>4 DEF Rollback, Env
<1> QED  BY <1>3, <1>4

LEMMA FailType ==
  ASSUME op \in Operation, op.app \in Apps, Fail
  PROVE  /\ op' \in Operation /\ op' # NoOp
         /\ op'.kind = op.kind /\ op'.app = op.app /\ op'.step = "save" /\ op'.env = Rollback
         /\ op'.keys = op.keys /\ op'.clients = op.clients /\ op'.ok = op.ok
BY NoOpType, RollbackType DEF Fail, Operation

\* A generated value: the key had none; everything else stays.
LEMMA GeneratedType ==
  ASSUME op \in Operation, op.app \in Apps, NEW k \in Kinds, NEW inUse, NEW env \in Generated(k, inUse)
  PROVE  /\ env \in Env /\ env[op.app][k] # None
         /\ \A a \in Apps \ {op.app} : env[a] = op.env[a]
         /\ \A l \in Kinds \ {k} : env[op.app][l] = op.env[op.app][l]
         /\ op.env[op.app][k] # None => env = op.env
         /\ op.env[op.app][k] = None => env[op.app][k] \in Values \ inUse
         /\ Added(k) \in SUBSET Kinds
         /\ SecretsOnly(op.env) => SecretsOnly(env)
<1>1. op.env \in [Apps -> [Kinds -> Vals]] /\ op.keys \in SUBSET Kinds
  BY DEF Operation, Env
<1>2. CASE op.env[op.app][k] # None
  BY <1>1, <1>2 DEF Generated, Added, Env
<1>3. CASE op.env[op.app][k] = None
  <2>1. PICK v \in Values \ inUse : env = [op.env EXCEPT ![op.app][k] = v]
    BY <1>3 DEF Generated
  <2>2. env = [op.env EXCEPT ![op.app] = [op.env[op.app] EXCEPT ![k] = v]]
    BY <2>1
  <2>3. [op.env[op.app] EXCEPT ![k] = v] \in [Kinds -> Vals]
    BY <1>1 DEF Vals
  <2>4. SecretsOnly(op.env) => SecretsOnly(env)
    <3>1. \A l \in Kinds : env[op.app][l] = IF l = k THEN v ELSE op.env[op.app][l]
      BY <1>1, <2>2
    <3>2. \A a \in Apps \ {op.app} : env[a] = op.env[a]
      BY <1>1, <2>2
    <3> QED  BY <2>1, <3>1, <3>2 DEF SecretsOnly, Secrets, Kinds
  <2> QED  BY <1>1, <1>3, <2>2, <2>3, <2>4 DEF Env, Added
<1> QED  BY <1>2, <1>3

LEMMA DexClientsType ==
  ASSUME SecretsOnly(envFile), NEW defs
  PROVE  /\ DexClients(defs) \in [Apps -> Secrets]
         /\ \A a \in Apps : DexClients(defs)[a] =
              IF inst[a] # None /\ HasLogin(a, defs[a]) /\ envFile[a]["oidc"] # None
              THEN envFile[a]["oidc"] ELSE None
BY DEF DexClients, SecretsOnly, Secrets

\* The containers that `up` leaves behind.
LEMMA AfterUpType ==
  ASSUME TypeOK, NEW a \in Apps, CanUp(a)
  PROVE  /\ AfterUp(a) \in [Apps -> Container \cup {None}]
         /\ compose[a] # None
         /\ \A x \in Apps : AfterUp(a)[x] = IF x \in Upped(a) THEN NewContainer(x) ELSE ctr[x]
<1>1. \A x \in Upped(a) : x \in Apps /\ compose[x] \in Versions
  BY DependsAssumption DEF Upped, CanUp, Valid, TypeOK
<1>2. \A x \in Upped(a) : NewContainer(x) \in Container
  <2> TAKE x \in Upped(a)
  <2>1. envFile[x] \in [Kinds -> Vals]
    BY <1>1 DEF TypeOK, Env
  <2>2. [k \in Kinds |-> IF k \in Uses(x, compose[x]) THEN envFile[x][k] ELSE None]
          \in [Kinds -> Vals]
    BY <2>1 DEF Vals
  <2> QED  BY <1>1, <2>2 DEF NewContainer, Container
<1> QED  BY <1>2 DEF AfterUp, TypeOK, CanUp

\* A request that begins, starts or stops something.
LEMMA TRequest == TInv /\ Request => TInv'
<1> SUFFICES ASSUME TInv, Request PROVE TInv'
  OBVIOUS
<1> USE DEF TInv, OpInv, CachedInv, EnvInv, Idle
<1>1. ASSUME NEW a \in Apps, Install(a)
      PROVE  TInv'
  <2> DEFINE env == [envFile EXCEPT ![a]["secret"] = Given, ![a]["prompt"] = Given,
                                    ![a]["address"] = Given]
             keys == {"prompt", "address"}
                       \cup (IF envFile[a]["secret"] = None THEN {"secret"} ELSE {})
             e == [envFile[a] EXCEPT !["secret"] = Given, !["prompt"] = Given,
                                     !["address"] = Given]
  <2>1. cached' \in [Apps -> Versions \cup {None}] /\ cached'[a] # None
        /\ \A b \in Apps : cached[b] # None => cached'[b] # None
    BY <1>1 DEF Install, TypeOK
  <2>2. env = [envFile EXCEPT ![a] = e] /\ e \in [Kinds -> Vals]
    BY DEF TypeOK, Env, Vals
  <2>3. env \in Env /\ SecretsOnly(env)
    BY <2>2 DEF TypeOK, Env, Kinds, SecretsOnly
  <2>4. keys \in SUBSET Kinds
    BY DEF Kinds
  <2>5. Begin("install", a, "db", env, keys, DexClients(cached'))
    BY <1>1 DEF Install
  <2>6. /\ op' \in Operation /\ op'.app = a /\ op'.kind = "install" /\ op'.step = "db"
        /\ op'.env = env /\ op'.ok = FALSE
    BY <2>3, <2>4, <2>5, BeginType, DexClientsType
  <2> QED  BY <1>1, <2>1, <2>3, <2>6 DEF Install, TypeOK
<1>2. ASSUME NEW a \in Apps, Update(a)
      PROVE  TInv'
  <2> DEFINE env == [envFile EXCEPT ![a]["secret"] = Given, ![a]["address"] = Given]
             keys == inst[a].keys \cup {"address"}
                       \cup (IF envFile[a]["secret"] = None THEN {"secret"} ELSE {})
             e == [envFile[a] EXCEPT !["secret"] = Given, !["address"] = Given]
  <2>1. cached' \in [Apps -> Versions \cup {None}] /\ cached'[a] # None
        /\ \A b \in Apps : cached[b] # None => cached'[b] # None
    BY <1>2 DEF Update, TypeOK, Versions
  <2>2. env = [envFile EXCEPT ![a] = e] /\ e \in [Kinds -> Vals]
    BY DEF TypeOK, Env, Vals
  <2>3. env \in Env /\ SecretsOnly(env)
    BY <2>2 DEF TypeOK, Env, Kinds, SecretsOnly
  <2>4. keys \in SUBSET Kinds
    BY <1>2 DEF Kinds, TypeOK, Entry, Update
  <2>5. Begin("update", a, "client", env, keys, DexClients(cached'))
    BY <1>2 DEF Update
  <2>6. /\ op' \in Operation /\ op'.app = a /\ op'.kind = "update" /\ op'.step = "client"
        /\ op'.env = env /\ op'.ok = FALSE
    <3>1. DexClients(cached') \in [Apps -> Secrets]
      BY DexClientsType
    <3> QED  BY <2>3, <2>4, <2>5, <3>1, BeginType
  <2> QED  BY <1>2, <2>1, <2>3, <2>6 DEF Update, TypeOK, FirstSteps
<1>3. ASSUME NEW a \in Apps, Remove(a)
      PROVE  TInv'
  <2> DEFINE e == [k \in Kinds |-> IF k \in inst[a].keys THEN None ELSE envFile[a][k]]
             env == [envFile EXCEPT ![a] = e]
             cls == [DexClients(cached) EXCEPT ![a] = None]
  <2>1. e \in [Kinds -> Vals]
    BY DEF TypeOK, Env, Vals
  <2>2. env \in Env /\ SecretsOnly(env)
    BY <2>1 DEF TypeOK, Env, Kinds, SecretsOnly, Secrets
  <2>3. cls \in [Apps -> Secrets]
    BY DexClientsType DEF Secrets
  <2>4. Begin("remove", a, "client", env, {}, cls)
    BY <1>3 DEF Remove
  <2>5. /\ op' \in Operation /\ op'.app = a /\ op'.kind = "remove" /\ op'.step = "client"
        /\ op'.env = env /\ op'.ok = FALSE
    BY <2>2, <2>3, <2>4, BeginType
  <2>6. ctr' \in [Apps -> Container \cup {None}]
    BY <1>3 DEF Remove, TypeOK
  <2> QED  BY <1>3, <2>2, <2>5, <2>6 DEF Remove, TypeOK
<1>4. ASSUME NEW a \in Apps, Start(a)
      PROVE  TInv'
  BY <1>4, AfterUpType DEF Start, TypeOK
<1>5. ASSUME NEW a \in Apps, Stop(a)
      PROVE  TInv'
  <2>1. ctr[a] \in Container
    BY <1>5 DEF Stop, TypeOK
  <2>2. [ctr[a] EXCEPT !.run = FALSE] \in Container
    BY <2>1 DEF Container
  <2>3. ctr' = [ctr EXCEPT ![a] = [ctr[a] EXCEPT !.run = FALSE]]
    BY <1>5 DEF Stop
  <2> QED  BY <1>5, <2>2, <2>3 DEF Stop, TypeOK
<1>6. CASE RewriteDexConfig
  BY <1>6, DexClientsType DEF RewriteDexConfig, TypeOK
<1> QED  BY <1>1, <1>2, <1>3, <1>4, <1>5, <1>6 DEF Request

\* A step of an operation.
LEMMA TStep == TInv /\ Step => TInv'
<1> SUFFICES ASSUME TInv, Step PROVE TInv'
  OBVIOUS
<1>0. op # NoOp /\ op \in Operation /\ op.app \in Apps
  BY NoOpType DEF Step, SetupAppDB, RegisterClient, UnregisterClient, Regenerate, SaveBeforeUp,
     Up, Wipe, StepFails, SaveEnv, Commit, SaveDex, TInv, TypeOK, OpInv
<1> USE <1>0 DEF TInv, OpInv, CachedInv, EnvInv, FirstSteps
\* A step that only goes on or fails: nothing else of the operation changes.
<1>1. ASSUME UNCHANGED <<cached, inst, envFile>>, TypeOK',
             \/ Fail /\ op.kind \in {"install", "update"} /\ ~op.ok
             \/ \E s \in {"client", "compose", "env", "up", "wipe"} :
                  /\ Go(s) /\ ~op.ok
                  /\ op.kind = "remove" => s \in {"compose", "wipe"}
                  /\ op.kind # "remove" => s # "wipe"
      PROVE  TInv'
  BY <1>1, FailType, RollbackType, GoType
<1>2. CASE SetupAppDB
  <2>1. op.kind = "install" /\ ~op.ok
    BY <1>2 DEF SetupAppDB
  <2>2. CASE NeedsDb(op.app, cached[op.app])
    <3>1. PICK env \in Generated("db", {role[op.app], CtrValue(op.app, "db")}) :
            /\ role' = [role EXCEPT ![op.app] = env[op.app]["db"]]
            /\ \/ op' = [op EXCEPT !.step = "client", !.env = env, !.keys = Added("db")]
               \/ "step" \in faults /\ Fail
      BY <1>2, <2>2 DEF SetupAppDB
    <3>2. env \in Env /\ SecretsOnly(env) /\ Added("db") \in SUBSET Kinds
      BY GeneratedType DEF Kinds
    <3>3. role' \in [Apps -> Secrets]
      BY <3>1, <3>2 DEF TypeOK, SecretsOnly
    <3>4. CASE Fail
      BY <1>1, <1>2, <2>1, <3>3, <3>4, FailType DEF SetupAppDB, TypeOK
    <3>5. CASE op' = [op EXCEPT !.step = "client", !.env = env, !.keys = Added("db")]
      <4>1. /\ op' \in Operation /\ op'.app = op.app /\ op'.kind = op.kind /\ op'.ok = op.ok
            /\ op'.step = "client" /\ op'.env = env
        BY <3>2, <3>5 DEF Operation
      <4> QED  BY <1>2, <2>1, <3>2, <3>3, <4>1 DEF SetupAppDB, TypeOK
    <3> QED  BY <3>1, <3>4, <3>5
  <2>3. CASE ~NeedsDb(op.app, cached[op.app])
    BY <1>1, <1>2, <2>1, <2>3, GoType DEF SetupAppDB, TypeOK
  <2> QED  BY <2>2, <2>3
<1>3. CASE RegisterClient
  <2>1. op.kind \in {"install", "update"} /\ ~op.ok
    BY <1>3 DEF RegisterClient
  <2>2. CASE HasLogin(op.app, cached[op.app])
    <3>1. PICK env \in Generated("oidc", {clients[op.app], CtrValue(op.app, "oidc")}) :
            LET cls == [op.clients EXCEPT ![op.app] = env[op.app]["oidc"]] IN
            /\ clients' = cls
            /\ \/ op' = [op EXCEPT !.step = "compose", !.env = env,
                                   !.keys = Added("oidc"), !.clients = cls]
               \/ "step" \in faults /\ Fail
      BY <1>3, <2>2 DEF RegisterClient
    <3>2. env \in Env /\ SecretsOnly(env) /\ Added("oidc") \in SUBSET Kinds
      BY GeneratedType DEF Kinds
    <3>3. clients' \in [Apps -> Secrets]
      BY <3>1, <3>2 DEF TypeOK, SecretsOnly, Operation
    <3>4. CASE Fail
      BY <1>1, <1>3, <2>1, <3>3, <3>4, FailType DEF RegisterClient, TypeOK
    <3>5. CASE op' = [op EXCEPT !.step = "compose", !.env = env,
                                !.keys = Added("oidc"), !.clients = clients']
      <4>1. /\ op' \in Operation /\ op'.app = op.app /\ op'.kind = op.kind /\ op'.ok = op.ok
            /\ op'.step = "compose" /\ op'.env = env
        BY <3>2, <3>3, <3>5 DEF Operation
      <4> QED  BY <1>3, <2>1, <3>2, <3>3, <4>1 DEF RegisterClient, TypeOK
    <3> QED  BY <3>1, <3>4, <3>5
  <2>3. CASE ~HasLogin(op.app, cached[op.app])
    <3>1. clients' \in {op.clients, clients} /\ (Go("compose") \/ Fail)
      BY <1>3, <2>3 DEF RegisterClient
    <3>2. clients' \in [Apps -> Secrets]
      BY <3>1 DEF Operation, TypeOK
    <3> QED  BY <1>1, <1>3, <2>1, <3>1, <3>2, GoType, FailType DEF RegisterClient, TypeOK
  <2> QED  BY <2>2, <2>3
<1>4. CASE UnregisterClient
  <2>1. clients' \in [Apps -> Secrets]
    BY <1>4 DEF UnregisterClient, Operation, TypeOK, Secrets
  <2> QED  BY <1>1, <1>4, <2>1, GoType DEF UnregisterClient, TypeOK
<1>5. CASE Regenerate
  <2>1. CASE op' = NoOp /\ UNCHANGED compose
    BY <1>5, <2>1, NoOpType DEF Regenerate, TypeOK
  <2>2. CASE compose' = Services /\ Go(IF op.kind = "remove" THEN "wipe" ELSE "env")
    <3>1. Services \in [Apps -> Versions \cup {None}]
      BY DEF Services, TypeOK
    <3> QED  BY <1>1, <1>5, <2>2, <3>1, GoType DEF Regenerate, TypeOK
  <2> QED  BY <1>5, <2>1, <2>2 DEF Regenerate
<1>6. CASE SaveBeforeUp
  BY <1>6, GoType DEF SaveBeforeUp, TypeOK, Operation
<1>7. CASE Up
  <2>1. ctr' \in [Apps -> Container \cup {None}]
    BY <1>7, AfterUpType DEF Up, TypeOK
  <2>2. CASE Fail
    BY <1>1, <1>7, <2>1, <2>2, FailType DEF Up, TypeOK
  <2>3. CASE op' = [op EXCEPT !.step = "save", !.ok = TRUE]
    <3>1. /\ op' \in Operation /\ op'.app = op.app /\ op'.kind = op.kind
          /\ op'.step = "save" /\ op'.env = op.env
      BY <2>3 DEF Operation
    <3> QED  BY <1>7, <2>1, <3>1 DEF Up, TypeOK
  <2> QED  BY <1>7, <2>2, <2>3 DEF Up
<1>8. CASE Wipe
  <2>1. /\ op' \in Operation /\ op'.app = op.app /\ op'.kind = op.kind
        /\ op'.step = "save" /\ op'.env = op.env
    BY <1>8 DEF Wipe, Operation
  <2>2. role' \in [Apps -> Secrets]
    BY <1>8 DEF Wipe, TypeOK, Secrets
  <2> QED  BY <1>8, <2>1, <2>2 DEF Wipe, TypeOK
<1>9. CASE StepFails
  BY <1>1, <1>9, FailType DEF StepFails, TypeOK
<1>10. CASE SaveEnv
  BY <1>10, GoType DEF SaveEnv, TypeOK, Operation
<1>11. CASE Commit
  <2>1. cached[op.app] \in Versions
    BY DEF TypeOK
  <2>2. inst' \in [Apps -> Entry \cup {None}]
    BY <1>11, <2>1 DEF Commit, TypeOK, Entry, Operation
  <2>3. ports' \in [{Port[a] : a \in Apps} -> Apps \cup {None}]
    BY <1>11 DEF Commit, TypeOK
  <2>4. CachedInv'
    BY <1>11 DEF Commit, TypeOK
  <2>5. CASE op' = NoOp
    BY <1>11, <2>2, <2>3, <2>4, <2>5, NoOpType DEF Commit, TypeOK
  <2>6. CASE Go("dex") /\ op.ok /\ op.kind # "remove"
    <3>1. op'.step = "dex" /\ op'.kind = op.kind /\ op'.app = op.app /\ op'.env = op.env
          /\ op' \in Operation
      BY <2>6 DEF Go, Operation
    <3>2. op.kind = "update" => inst'[op.app] # None
      BY <1>11, <2>1 DEF Commit, TypeOK, Entry, Operation
    <3> QED  BY <1>11, <2>2, <2>3, <2>4, <2>6, <3>1, <3>2 DEF Commit, TypeOK
  <2> QED  BY <1>11, <2>5, <2>6 DEF Commit
<1>12. CASE SaveDex
  BY <1>12, NoOpType DEF SaveDex, TypeOK, Operation
<1> QED
  BY <1>2, <1>3, <1>4, <1>5, <1>6, <1>7, <1>8, <1>9, <1>10, <1>11, <1>12 DEF Step

LEMMA TInit == Init => TInv
<1> SUFFICES ASSUME Init PROVE TInv
  OBVIOUS
<1>1. [a \in Apps |-> NoKeys] \in Env
  BY DEF NoKeys, Env, Vals
<1>2. TypeOK
  BY <1>1, NoOpType DEF Init, TypeOK, Secrets, Versions
<1>3. SecretsOnly(envFile)
  BY DEF Init, SecretsOnly, NoKeys, Kinds, Secrets
<1> QED  BY <1>2, <1>3 DEF Init, TInv, OpInv, CachedInv, EnvInv

LEMMA TNext == TInv /\ [Next]_vars => TInv'
<1> SUFFICES ASSUME TInv, [Next]_vars PROVE TInv'
  OBVIOUS
<1>1. CASE Crash
  BY <1>1, NoOpType DEF Crash, TInv, TypeOK, OpInv, CachedInv, EnvInv
<1>2. ASSUME NEW a \in Apps, PublishVersion(a) \/ FetchDefinition(a)
      PROVE  TInv'
  BY <1>2
  DEF PublishVersion, FetchDefinition, Idle, TInv, TypeOK, OpInv, CachedInv, EnvInv, Versions
<1>3. CASE UNCHANGED vars
  BY <1>3 DEF vars, TInv, TypeOK, OpInv, CachedInv, EnvInv
<1> QED  BY <1>1, <1>2, <1>3, TRequest, TStep DEF Next

\* Everything an operation holds is of its type at each of its steps
\* (install.go:40-235, 560-640).
THEOREM TypesInvariant == Spec => []TInv
BY TInit, TNext, PTL DEF Spec

\* Whatever fails, .env, the client list, the roles, the compose file, the
\* containers and the entries keep their types (install.go, state.go).
THEOREM TypeCorrect == Spec => []TypeOK
<1>1. TInv => TypeOK
  BY DEF TInv
<1> QED  BY <1>1, TypesInvariant, PTL

-----------------------------------------------------------------------------
\* The services of the installed apps. Only a removal takes one out of the
\* file, and it takes the entry out afterwards, unless the process dies.
ServiceInv ==
  "crash" \notin faults =>
    /\ \A a \in Apps : inst[a] # None =>
         \/ compose[a] # None
         \/ op.kind = "remove" /\ op.app = a /\ op.step \in {"wipe", "save", "commit"}
    /\ op.kind \in {"install", "update"} /\ (op.step \in {"env", "up"} \/ op.ok) =>
         compose[op.app] # None

LEMMA FaultsStay == [Next]_vars => faults' = faults
<1>1. Request => faults' = faults
  BY DEF Request, Install, Update, Remove, Start, Stop, RewriteDexConfig
<1>2. Step => faults' = faults
  <2>1. SetupAppDB \/ RegisterClient \/ UnregisterClient \/ Regenerate => faults' = faults
    BY DEF SetupAppDB, RegisterClient, UnregisterClient, Regenerate
  <2>2. SaveBeforeUp \/ Up \/ Wipe \/ StepFails => faults' = faults
    BY DEF SaveBeforeUp, Up, Wipe, StepFails
  <2>3. SaveEnv \/ Commit \/ SaveDex => faults' = faults
    BY DEF SaveEnv, Commit, SaveDex
  <2> QED  BY <2>1, <2>2, <2>3 DEF Step
<1> QED  BY <1>1, <1>2 DEF Next, Crash, PublishVersion, FetchDefinition, vars

LEMMA ServiceStep == TInv /\ ServiceInv /\ [Next]_vars => ServiceInv'
<1> SUFFICES ASSUME TInv, ServiceInv, [Next]_vars, "crash" \notin faults PROVE ServiceInv'
  BY FaultsStay DEF ServiceInv
<1> USE NoOpType DEF TInv, OpInv, CachedInv, ServiceInv, FirstSteps
<1>1. CASE Request
  <2>1. op = NoOp /\ UNCHANGED <<inst, compose>>
    BY <1>1 DEF Request, Install, Update, Remove, Start, Stop, RewriteDexConfig, Idle
  <2>2. ASSUME NEW k, NEW a, NEW s \in {"db", "client"}, NEW env, NEW keys, NEW cls,
               Begin(k, a, s, env, keys, cls)
        PROVE  ~op'.ok /\ op'.step \in {"db", "client"}
    BY <2>2 DEF Begin
  <2>3. op' = NoOp \/ (~op'.ok /\ op'.step \in {"db", "client"})
    BY <1>1, <2>1, <2>2 DEF Request, Install, Update, Remove, Start, Stop, RewriteDexConfig
  <2> QED  BY <2>1, <2>3
<1>2. ASSUME op \in Operation, op # NoOp, UNCHANGED <<inst, compose>>,
             op'.kind = op.kind, op'.app = op.app, op'.ok = op.ok,
             op'.step \notin {"env", "up"} \/ op.step \in {"env", "up"},
             op.step \in {"wipe", "save", "commit"} => op'.step \in {"wipe", "save", "commit"}
      PROVE  ServiceInv'
  BY <1>2
<1>3. CASE SetupAppDB \/ RegisterClient \/ UnregisterClient \/ SaveBeforeUp \/ StepFails \/ SaveEnv
  <2>1. op \in Operation /\ op # NoOp /\ UNCHANGED <<inst, compose>>
    BY <1>3 DEF SetupAppDB, RegisterClient, UnregisterClient, SaveBeforeUp, StepFails, SaveEnv, TypeOK
  <2>2. op'.kind = op.kind /\ op'.app = op.app /\ op'.ok = op.ok
    BY <1>3, <2>1
    DEF SetupAppDB, RegisterClient, UnregisterClient, SaveBeforeUp, StepFails, SaveEnv, Go, Fail,
        Operation
  <2>3. \/ op'.step \in {"client", "compose", "save"} /\ op.step \notin {"wipe", "save", "commit"}
        \/ op.step = "env" /\ op'.step = "up"
        \/ op.step = "save" /\ op'.step = "commit"
    BY <1>3, <2>1
    DEF SetupAppDB, RegisterClient, UnregisterClient, SaveBeforeUp, StepFails, SaveEnv, Go, Fail,
        Operation
  <2> QED  BY <1>2, <2>1, <2>2, <2>3
<1>4. CASE Regenerate
  <2>1. CASE op' = NoOp /\ UNCHANGED compose
    BY <1>4, <2>1 DEF Regenerate
  <2>2. CASE compose' = Services /\ Go(IF op.kind = "remove" THEN "wipe" ELSE "env")
    <3>1. /\ op'.kind = op.kind /\ op'.app = op.app /\ ~op'.ok
          /\ op'.step = IF op.kind = "remove" THEN "wipe" ELSE "env"
      BY <1>4, <2>2 DEF Regenerate, Go, TypeOK, Operation
    <3>2. \A a \in Apps : (inst[a] # None \/ a = op.app) /\ ~(op.kind = "remove" /\ a = op.app) =>
                            compose'[a] # None
      BY <1>4, <2>2 DEF Services, Regenerate
    <3> QED  BY <1>4, <3>1, <3>2 DEF Regenerate
  <2> QED  BY <1>4, <2>1, <2>2 DEF Regenerate
<1>5. CASE Up
  <2>1. /\ op'.kind = op.kind /\ op'.app = op.app /\ op'.step = "save"
        /\ UNCHANGED <<inst, compose>> /\ op.kind # "remove" /\ op.app \in Apps
    BY <1>5 DEF Up, Fail, TypeOK, Operation
  <2>2. op.step = "up"
    BY <1>5 DEF Up
  <2> QED  BY <2>1, <2>2
<1>6. CASE Wipe
  <2>1. /\ op'.kind = op.kind /\ op'.app = op.app /\ op'.step = "save"
        /\ UNCHANGED <<inst, compose>> /\ op.kind = "remove"
    BY <1>6 DEF Wipe, TypeOK, Operation
  <2> QED  BY <1>6, <2>1 DEF Wipe
<1>7. CASE Commit
  <2>1. /\ UNCHANGED compose /\ op.app \in Apps
        /\ \A a \in Apps \ {op.app} : inst'[a] = inst[a]
        /\ op.kind = "remove" => inst'[op.app] = None
        /\ op.kind = "install" /\ ~op.ok => inst'[op.app] = inst[op.app]
        /\ op.step = "commit" /\ op # NoOp
    BY <1>7 DEF Commit, TypeOK
  <2>2. op' = NoOp \/ (op.ok /\ op'.kind = op.kind /\ op'.app = op.app /\ op'.step = "dex")
    BY <1>7 DEF Commit, Go, TypeOK, Operation
  <2>3. op.kind # "remove" /\ inst'[op.app] # None => compose[op.app] # None
    BY <2>1
  <2> QED  BY <2>1, <2>2, <2>3
<1>8. CASE SaveDex
  BY <1>8 DEF SaveDex
<1>9. CASE Crash
  BY <1>9 DEF Crash
<1>10. ASSUME NEW a \in Apps, PublishVersion(a) \/ FetchDefinition(a)
       PROVE  ServiceInv'
  BY <1>10 DEF PublishVersion, FetchDefinition
<1>11. CASE UNCHANGED vars
  BY <1>11 DEF vars
<1> QED
  BY <1>1, <1>3, <1>4, <1>5, <1>6, <1>7, <1>8, <1>9, <1>10, <1>11 DEF Next, Step

\* No failed step takes an installed app out of the compose file, for any
\* dependencies between the apps (compose.go, install.go:235-250).
THEOREM ServicesStay == Spec => []InstalledHasService
<1>1. Init => ServiceInv
  BY NoOpType DEF Init, ServiceInv
<1>2. ServiceInv => InstalledHasService
  BY NoOpType DEF ServiceInv, InstalledHasService, Idle, Installed
<1> QED  BY <1>1, <1>2, ServiceStep, TypesInvariant, PTL DEF Spec

-----------------------------------------------------------------------------
\* The keys in .env, where steps may fail but files can be written and the
\* process lives.

\* The keys that have a value, and those that a removal would delete.
Bearing(e) == {k \in Kinds : e[k] # None}
Match(file, entries, a) ==
  Bearing(file[a]) = IF entries[a] = None THEN {} ELSE entries[a].keys

\* Between operations the keys of an app in .env are those on its entry. The
\* loaded .env of an operation has exactly the keys that its app will have there.
Sound(o, file, entries) ==
  /\ \A a \in Apps :
       \/ o = NoOp
       \/ a # o.app
       \/ o.kind = "remove" /\ o.step \in {"client", "compose"}
       \/ o.step = "dex"
       => Match(file, entries, a)
  /\ o # NoOp =>
       /\ \A a \in Apps \ {o.app} : o.env[a] = file[a]
       /\ o.step \in {"commit", "dex"} => o.env[o.app] = file[o.app]
       /\ o.kind = "install" /\ o.step # "dex" => entries[o.app] = None
       /\ \/ o.kind = "remove"
          \/ o.kind = "install" /\ o.step \in {"save", "commit"} /\ ~o.ok
          => Bearing(o.env[o.app]) = {}
       /\ \/ o.kind = "update"
          \/ o.kind = "install" /\ (o.step \notin {"save", "commit"} \/ o.ok)
          => Bearing(o.env[o.app]) = o.keys

KeysInv == faults \subseteq {"step"} => Sound(op, envFile, inst)
After   == Sound(op', envFile', inst')

LEMMA KeysAfter == After => KeysInv'
BY DEF After, KeysInv, Sound, Match, Bearing

\* A step after which the operation goes on and has not entered its app.
LEMMA KeysMidway ==
  ASSUME op'.kind \in {"install", "update", "remove"},
         op'.step \in {"up", "save", "commit"},
         \A a \in Apps \ {op'.app} : Match(envFile', inst', a) /\ op'.env[a] = envFile'[a],
         op'.step = "commit" => op'.env[op'.app] = envFile'[op'.app],
         op'.kind = "install" => inst'[op'.app] = None,
         \/ op'.kind = "remove"
         \/ op'.kind = "install" /\ op'.step \in {"save", "commit"} /\ ~op'.ok
         => Bearing(op'.env[op'.app]) = {},
         \/ op'.kind = "update"
         \/ op'.kind = "install" /\ (op'.step \notin {"save", "commit"} \/ op'.ok)
         => Bearing(op'.env[op'.app]) = op'.keys
  PROVE  After
<1>1. op' # NoOp /\ op'.step \notin {"client", "compose", "dex"}
  BY NoOpType
<1>2. ASSUME NEW a \in Apps, a # op'.app PROVE Match(envFile', inst', a)
  BY <1>2
<1> QED  BY <1>1, <1>2 DEF After, Sound

LEMMA KeysRequest == TInv /\ KeysInv /\ Request => KeysInv'
<1> SUFFICES ASSUME TInv, KeysInv, Request, faults \subseteq {"step"} PROVE After
  BY KeysAfter, FaultsStay DEF KeysInv, Next
<1>1. op = NoOp /\ UNCHANGED <<inst, envFile>> /\ \A a \in Apps : Match(envFile, inst, a)
  BY DEF Request, Install, Update, Remove, Start, Stop, RewriteDexConfig, Idle, KeysInv, Sound
<1>2. \A a \in Apps : Match(envFile', inst', a)
  BY <1>1 DEF Match
<1>3. envFile \in [Apps -> [Kinds -> Vals]]
  BY DEF TInv, TypeOK, Env
<1>4. ASSUME NEW a \in Apps, Install(a)
      PROVE  After
  <2> DEFINE env == [envFile EXCEPT ![a]["secret"] = Given, ![a]["prompt"] = Given,
                                    ![a]["address"] = Given]
             keys == {"prompt", "address"}
                       \cup (IF envFile[a]["secret"] = None THEN {"secret"} ELSE {})
  <2>1. /\ op'.app = a /\ op'.kind = "install" /\ op'.step = "db"
        /\ op'.env = env /\ op'.keys = keys
    BY <1>4 DEF Install, Begin
  <2>2. /\ \A b \in Apps \ {a} : env[b] = envFile[b]
        /\ \A k \in Kinds : env[a][k] = IF k \in {"secret", "prompt", "address"} THEN Given
                                       ELSE envFile[a][k]
    BY <1>3
  <2>3. inst[a] = None
    BY <1>4 DEF Install
  <2>4. Bearing(envFile[a]) = {}
    BY <1>1, <2>3 DEF Match
  <2>5. Bearing(env[a]) = keys
    BY <2>2, <2>4 DEF Bearing, Kinds
  <2> QED  BY <1>1, <1>2, <2>1, <2>2, <2>3, <2>5 DEF KeysInv, Sound, After
<1>5. ASSUME NEW a \in Apps, Update(a)
      PROVE  After
  <2> DEFINE env == [envFile EXCEPT ![a]["secret"] = Given, ![a]["address"] = Given]
             keys == inst[a].keys \cup {"address"}
                       \cup (IF envFile[a]["secret"] = None THEN {"secret"} ELSE {})
  <2>1. /\ op'.app = a /\ op'.kind = "update" /\ op'.step = "client"
        /\ op'.env = env /\ op'.keys = keys
    BY <1>5 DEF Update, Begin
  <2>2. /\ \A b \in Apps \ {a} : env[b] = envFile[b]
        /\ \A k \in Kinds : env[a][k] = IF k \in {"secret", "address"} THEN Given
                                       ELSE envFile[a][k]
    BY <1>3
  <2>3. Bearing(envFile[a]) = inst[a].keys
    BY <1>1, <1>5 DEF Match, Update
  <2>4. Bearing(env[a]) = keys
    BY <2>2, <2>3 DEF Bearing, Kinds
  <2> QED  BY <1>1, <1>2, <2>1, <2>2, <2>4 DEF KeysInv, Sound, After
<1>6. ASSUME NEW a \in Apps, Remove(a)
      PROVE  After
  <2> DEFINE e == [k \in Kinds |-> IF k \in inst[a].keys THEN None ELSE envFile[a][k]]
             env == [envFile EXCEPT ![a] = e]
  <2>1. op'.app = a /\ op'.kind = "remove" /\ op'.step = "client" /\ op'.env = env
    BY <1>6 DEF Remove, Begin
  <2>2. /\ \A b \in Apps \ {a} : env[b] = envFile[b]
        /\ env[a] = e
    BY <1>3
  <2>3. Bearing(envFile[a]) = inst[a].keys
    BY <1>1, <1>6 DEF Match, Remove
  <2>4. Bearing(env[a]) = {}
    BY <2>2, <2>3 DEF Bearing
  <2> QED  BY <1>1, <1>2, <2>1, <2>2, <2>4 DEF KeysInv, Sound, After
<1>7. ASSUME op' = NoOp
      PROVE  After
  BY <1>2, <1>7 DEF KeysInv, Sound, After
<1> QED
  BY <1>1, <1>4, <1>5, <1>6, <1>7 DEF Request, Start, Stop, RewriteDexConfig

LEMMA KeysStep == TInv /\ KeysInv /\ Step => KeysInv'
<1> SUFFICES ASSUME TInv, KeysInv, Step, faults \subseteq {"step"} PROVE After
  BY KeysAfter, FaultsStay DEF KeysInv, Next
<1>0. op # NoOp /\ op \in Operation /\ op.app \in Apps
  BY NoOpType DEF Step, SetupAppDB, RegisterClient, UnregisterClient, Regenerate, SaveBeforeUp,
     Up, Wipe, StepFails, SaveEnv, Commit, SaveDex, TInv, TypeOK, OpInv
<1> USE <1>0 DEF TInv, OpInv, FirstSteps
\* A step that fails: the keys that the operation has added go, or stay with it.
<1>1. ASSUME Fail, UNCHANGED <<inst, envFile>>, op.kind \in {"install", "update"},
             op.step \in {"db", "client", "compose", "env", "up"}
      PROVE  After
  <2>1. /\ op'.kind = op.kind /\ op'.app = op.app /\ op'.step = "save" /\ op'.env = Rollback
        /\ op'.keys = op.keys /\ op'.ok = op.ok
    BY <1>1, FailType
  <2>2. ~op.ok /\ Bearing(op.env[op.app]) = op.keys
    BY <1>1 DEF KeysInv, Sound, After
  <2>3. op.kind = "install" => Bearing(Rollback[op.app]) = {}
    BY <2>2, RollbackType DEF Bearing
  <2>4. op.kind = "update" => Bearing(Rollback[op.app]) = op.keys
    BY <2>2, RollbackType
  <2>5. \A a \in Apps \ {op.app} : Match(envFile', inst', a) /\ op'.env[a] = envFile'[a]
    BY <1>1, <2>1, RollbackType DEF KeysInv, Sound, After, Match
  <2>6. op.kind = "install" => inst[op.app] = None
    BY <1>1 DEF KeysInv, Sound
  <2> QED  BY <1>1, <2>1, <2>2, <2>3, <2>4, <2>5, <2>6, KeysMidway
\* A step that goes on with an .env that has one key more, or none.
<1>2. ASSUME UNCHANGED <<inst, envFile>>, op.kind \in {"install", "update"},
             op.step \in {"db", "client", "compose"}, op'.step \in {"client", "compose", "env"},
             op'.kind = op.kind, op'.app = op.app, op'.ok = op.ok,
             \A a \in Apps \ {op.app} : op'.env[a] = op.env[a],
             Bearing(op'.env[op.app]) = op'.keys
      PROVE  After
  <2>1. \A a \in Apps \ {op.app} : Match(envFile', inst', a) /\ op'.env[a] = envFile'[a]
    BY <1>2 DEF KeysInv, Sound, After, Match
  <2>2. op' # NoOp
    BY <1>2, NoOpType
  <2> QED  BY <1>2, <2>1, <2>2 DEF KeysInv, Sound, After
<1>3. ASSUME NEW k \in Kinds, NEW inUse, NEW env \in Generated(k, inUse),
             Bearing(op.env[op.app]) = op.keys
      PROVE  /\ Bearing(env[op.app]) = Added(k)
             /\ \A a \in Apps \ {op.app} : env[a] = op.env[a]
  BY <1>3, GeneratedType DEF Bearing, Added
<1>4. CASE SetupAppDB
  <2>1. /\ op.kind = "install" /\ op.step = "db" /\ UNCHANGED <<inst, envFile>>
        /\ Bearing(op.env[op.app]) = op.keys
    BY <1>4 DEF SetupAppDB, KeysInv, Sound
  <2>2. CASE Fail
    BY <1>1, <2>1, <2>2
  <2>3. CASE Go("client")
    BY <1>2, <2>1, <2>3, GoType
  <2>4. ASSUME NEW env \in Generated("db", {role[op.app], CtrValue(op.app, "db")}),
               op' = [op EXCEPT !.step = "client", !.env = env, !.keys = Added("db")]
        PROVE  After
    <3>1. /\ op'.step = "client" /\ op'.kind = op.kind /\ op'.app = op.app /\ op'.ok = op.ok
          /\ op'.env = env /\ op'.keys = Added("db")
      BY <2>4 DEF Operation
    <3>2. Bearing(env[op.app]) = Added("db") /\ \A a \in Apps \ {op.app} : env[a] = op.env[a]
      BY <1>3, <2>1 DEF Kinds
    <3> QED  BY <1>2, <2>1, <3>1, <3>2
  <2> QED  BY <1>4, <2>2, <2>3, <2>4 DEF SetupAppDB
<1>5. CASE RegisterClient
  <2>1. /\ op.kind \in {"install", "update"} /\ op.step = "client" /\ UNCHANGED <<inst, envFile>>
        /\ Bearing(op.env[op.app]) = op.keys
    BY <1>5 DEF RegisterClient, KeysInv, Sound
  <2>2. CASE Fail
    BY <1>1, <2>1, <2>2
  <2>3. CASE Go("compose")
    BY <1>2, <2>1, <2>3, GoType
  <2>4. ASSUME NEW env \in Generated("oidc", {clients[op.app], CtrValue(op.app, "oidc")}), NEW cls,
               op' = [op EXCEPT !.step = "compose", !.env = env,
                                !.keys = Added("oidc"), !.clients = cls]
        PROVE  After
    <3>1. /\ op'.step = "compose" /\ op'.kind = op.kind /\ op'.app = op.app /\ op'.ok = op.ok
          /\ op'.env = env /\ op'.keys = Added("oidc")
      BY <2>4 DEF Operation
    <3>2. Bearing(env[op.app]) = Added("oidc") /\ \A a \in Apps \ {op.app} : env[a] = op.env[a]
      BY <1>3, <2>1 DEF Kinds
    <3> QED  BY <1>2, <2>1, <3>1, <3>2
  <2> QED  BY <1>5, <2>2, <2>3, <2>4 DEF RegisterClient
<1>6. CASE UnregisterClient
  <2>1. /\ op.kind = "remove" /\ op.step = "client" /\ UNCHANGED <<inst, envFile>>
        /\ op'.kind = op.kind /\ op'.app = op.app /\ op'.step = "compose" /\ op'.env = op.env
    BY <1>6, GoType DEF UnregisterClient
  <2> QED  BY <2>1 DEF KeysInv, Sound, After, Match
<1>7. CASE Regenerate
  <2>1. op.step = "compose" /\ UNCHANGED <<inst, envFile>>
    BY <1>7 DEF Regenerate
  <2>2. CASE op.kind = "remove"
    <3>1. \A a \in Apps : Match(envFile', inst', a)
      BY <2>1, <2>2 DEF KeysInv, Sound, After, Match
    <3>2. CASE op' = NoOp
      BY <3>1, <3>2 DEF KeysInv, Sound, After
    <3>3. CASE Go("wipe")
      <4>1. op'.kind = op.kind /\ op'.app = op.app /\ op'.step = "wipe" /\ op'.env = op.env
        BY <3>3, GoType
      <4> QED  BY <2>1, <2>2, <3>1, <4>1 DEF KeysInv, Sound, After
    <3> QED  BY <1>7, <2>2, <3>2, <3>3 DEF Regenerate
  <2>3. CASE op.kind # "remove"
    <3>1. Go("env") /\ Bearing(op.env[op.app]) = op.keys
      BY <1>7, <2>1, <2>3 DEF Regenerate, KeysInv, Sound
    <3> QED  BY <1>2, <2>1, <2>3, <3>1, GoType
  <2> QED  BY <2>2, <2>3
<1>8. CASE SaveBeforeUp
  <2>1. /\ op.step = "env" /\ UNCHANGED inst /\ envFile' = op.env /\ op.kind # "remove"
        /\ op'.kind = op.kind /\ op'.app = op.app /\ op'.step = "up" /\ op'.env = op.env
        /\ op'.keys = op.keys /\ op'.ok = op.ok
    BY <1>8, GoType DEF SaveBeforeUp
  <2>2. \A a \in Apps \ {op.app} : Match(envFile', inst', a)
    BY <2>1 DEF KeysInv, Sound, After, Match
  <2>3. /\ op.kind = "install" => inst[op.app] = None
        /\ Bearing(op.env[op.app]) = op.keys
        /\ \A a \in Apps \ {op.app} : op.env[a] = envFile[a]
    BY <2>1 DEF KeysInv, Sound
  <2>4. \A a \in Apps \ {op.app} : op.env[a] = envFile'[a]
    BY <2>1
  <2> QED  BY <2>1, <2>2, <2>3, <2>4, KeysMidway
<1>9. CASE Up
  <2>1. op.step = "up" /\ UNCHANGED <<inst, envFile>> /\ op.kind \in {"install", "update"}
    BY <1>9 DEF Up
  <2>2. CASE Fail
    BY <1>1, <2>1, <2>2
  <2>3. CASE op' = [op EXCEPT !.step = "save", !.ok = TRUE]
    <3>1. /\ op'.kind = op.kind /\ op'.app = op.app /\ op'.step = "save" /\ op'.env = op.env
          /\ op'.keys = op.keys /\ op'.ok
      BY <2>3 DEF Operation
    <3>2. \A a \in Apps \ {op.app} : Match(envFile', inst', a)
      BY <2>1 DEF KeysInv, Sound, After, Match
    <3>3. /\ op.kind = "install" => inst[op.app] = None
          /\ Bearing(op.env[op.app]) = op.keys
          /\ \A a \in Apps \ {op.app} : op.env[a] = envFile[a]
      BY <2>1 DEF KeysInv, Sound
    <3>4. \A a \in Apps \ {op.app} : op.env[a] = envFile'[a]
      BY <2>1, <3>3
    <3> QED  BY <2>1, <3>1, <3>2, <3>3, <3>4, KeysMidway
  <2> QED  BY <1>9, <2>2, <2>3 DEF Up
<1>10. CASE Wipe
  <2>1. /\ op.kind = "remove" /\ op.step = "wipe" /\ UNCHANGED <<inst, envFile>>
        /\ op'.kind = op.kind /\ op'.app = op.app /\ op'.step = "save" /\ op'.env = op.env
    BY <1>10 DEF Wipe, Operation
  <2>2. /\ \A a \in Apps \ {op.app} : Match(envFile, inst, a)
        /\ \A a \in Apps \ {op.app} : op.env[a] = envFile[a]
        /\ Bearing(op.env[op.app]) = {}
    BY <2>1 DEF KeysInv, Sound
  <2>3. \A a \in Apps \ {op.app} : Match(envFile', inst', a) /\ op.env[a] = envFile'[a]
    BY <2>1, <2>2
  <2> QED  BY <2>1, <2>2, <2>3, KeysMidway
<1>11. CASE StepFails
  BY <1>1, <1>11 DEF StepFails
<1>12. CASE SaveEnv
  <2>1. /\ op.step = "save" /\ UNCHANGED inst /\ envFile' = op.env
        /\ op'.kind = op.kind /\ op'.app = op.app /\ op'.step = "commit" /\ op'.env = op.env
        /\ op'.keys = op.keys /\ op'.ok = op.ok
    BY <1>12, GoType DEF SaveEnv
  <2>2. \A a \in Apps \ {op.app} : Match(envFile', inst', a)
    BY <2>1 DEF KeysInv, Sound, After, Match
  <2>3. /\ op.kind = "install" => inst[op.app] = None
        /\ \/ op.kind = "remove"
           \/ op.kind = "install" /\ ~op.ok
           => Bearing(op.env[op.app]) = {}
        /\ \/ op.kind = "update"
           \/ op.kind = "install" /\ op.ok
           => Bearing(op.env[op.app]) = op.keys
    BY <2>1 DEF KeysInv, Sound
  <2>4. \A a \in Apps : op.env[a] = envFile'[a]
    BY <2>1
  <2> QED  BY <2>1, <2>2, <2>3, <2>4, KeysMidway
<1>13. CASE Commit
  <2>1. /\ op.step = "commit" /\ UNCHANGED envFile /\ envFile[op.app] = op.env[op.app]
        /\ \A a \in Apps \ {op.app} : inst'[a] = inst[a]
    BY <1>13 DEF Commit, TypeOK, KeysInv, Sound
  <2>2. \A a \in Apps \ {op.app} : Match(envFile', inst', a)
    BY <2>1 DEF KeysInv, Sound, After, Match
  <2>3. CASE op.kind = "remove" \/ (op.kind = "install" /\ ~op.ok)
    <3>1. inst'[op.app] = None /\ Bearing(envFile[op.app]) = {}
      BY <1>13, <2>1, <2>3 DEF Commit, TypeOK, KeysInv, Sound
    <3>2. op' = NoOp
      BY <1>13, <2>3 DEF Commit
    <3> QED  BY <2>1, <2>2, <3>1, <3>2 DEF KeysInv, Sound, After, Match
  <2>4. CASE op.kind = "update" \/ (op.kind = "install" /\ op.ok)
    <3>1. inst'[op.app].keys = op.keys /\ inst'[op.app] \in Entry
      BY <1>13, <2>4 DEF Commit, TypeOK, Operation, Entry
    <3>2. Bearing(envFile[op.app]) = op.keys
      BY <2>1, <2>4 DEF KeysInv, Sound, After
    <3>3. Match(envFile', inst', op.app)
      BY <2>1, <3>1, <3>2 DEF Match
    <3>4. CASE op' = NoOp
      BY <2>2, <3>3, <3>4 DEF KeysInv, Sound, After
    <3>5. CASE Go("dex") /\ op.ok
      <4>1. /\ op'.kind = op.kind /\ op'.app = op.app /\ op'.step = "dex" /\ op'.env = op.env
            /\ op'.keys = op.keys /\ op'.ok = op.ok
        BY <3>5, GoType
      <4> QED  BY <2>1, <2>2, <2>4, <3>2, <3>3, <4>1 DEF KeysInv, Sound, After
    <3> QED  BY <1>13, <3>4, <3>5 DEF Commit
  <2> QED  BY <2>1, <2>3, <2>4
<1>14. CASE SaveDex
  <2>1. op.step = "dex" /\ op' = NoOp /\ UNCHANGED <<inst, envFile>>
    BY <1>14 DEF SaveDex
  <2> QED  BY <2>1 DEF KeysInv, Sound, After, Match
<1> QED
  BY <1>4, <1>5, <1>6, <1>7, <1>8, <1>9, <1>10, <1>11, <1>12, <1>13, <1>14 DEF Step

LEMMA KeysNext == TInv /\ KeysInv /\ [Next]_vars => KeysInv'
<1> SUFFICES ASSUME TInv, KeysInv, [Next]_vars PROVE KeysInv'
  OBVIOUS
<1>1. CASE Crash
  BY <1>1 DEF Crash, KeysInv
<1>2. ASSUME UNCHANGED <<faults, op, envFile, inst>>
      PROVE  KeysInv'
  BY <1>2, KeysAfter DEF KeysInv, After
<1>3. ASSUME NEW a \in Apps, PublishVersion(a) \/ FetchDefinition(a)
      PROVE  KeysInv'
  BY <1>2, <1>3 DEF PublishVersion, FetchDefinition
<1>4. CASE UNCHANGED vars
  BY <1>2, <1>4 DEF vars
<1> QED  BY <1>1, <1>3, <1>4, KeysRequest, KeysStep DEF Next

\* Where steps may fail, files can be written, the process lives and nobody
\* installs an app that is installed: every key in .env is on the entry of an
\* installed app, and every key on an entry is in .env (install.go:88-140, 560-600).
THEOREM KeysAreEntered ==
  ASSUME \A f \in Faults : "again" \notin f
  PROVE  Spec => []KeysMatchEntries
<1>1. Init => KeysInv
  <2> SUFFICES ASSUME Init, NEW a \in Apps PROVE Match(envFile, inst, a)
    BY DEF Init, KeysInv, Sound
  <2> QED  BY DEF Init, NoKeys, Match, Bearing
<1>2. TInv /\ KeysInv => KeysMatchEntries
  <2> SUFFICES ASSUME TInv, KeysInv, Idle, faults \subseteq {"step", "again"}, NEW a \in Apps
               PROVE  /\ inst[a] = None => envFile[a] = NoKeys
                      /\ inst[a] # None => {k \in Kinds : envFile[a][k] # None} = inst[a].keys
    BY DEF KeysMatchEntries
  <2>1. faults \subseteq {"step"}
    BY DEF TInv, TypeOK
  <2>2. Match(envFile, inst, a)
    BY <2>1 DEF KeysInv, Sound, Idle
  <2>3. envFile[a] \in [Kinds -> Vals]
    BY DEF TInv, TypeOK, Env
  <2>4. ASSUME inst[a] = None PROVE envFile[a] = NoKeys
    BY <2>2, <2>3, <2>4 DEF Match, Bearing, NoKeys
  <2> QED  BY <2>2, <2>4 DEF Match, Bearing
<1> QED  BY <1>1, <1>2, KeysNext, TypesInvariant, PTL DEF Spec

-----------------------------------------------------------------------------
\* What two places must agree on.

\* A password or a secret in .env, or in the loaded .env, is one that the cached
\* definition asks for.
NeedsInv ==
  /\ \A a \in Apps : cached[a] # None => cached[a] <= published[a]
  /\ \A a \in Apps :
       /\ envFile[a]["oidc"] # None => cached[a] # None /\ HasLogin(a, cached[a])
       /\ envFile[a]["db"] # None   => cached[a] # None /\ NeedsDb(a, cached[a])
  /\ op # NoOp => \A a \in Apps :
       /\ op.env[a]["oidc"] # None => cached[a] # None /\ HasLogin(a, cached[a])
       /\ op.env[a]["db"] # None   => cached[a] # None /\ NeedsDb(a, cached[a])

\* How the loaded .env of an operation differs from the file.
LoadedInv ==
  op # NoOp =>
    /\ \A a \in Apps \ {op.app} : op.env[a] = envFile[a]
    /\ op.kind = "install" /\ op.step # "dex" => inst[op.app] = None
    /\ op.kind = "update" =>
         /\ op.env[op.app]["db"] = envFile[op.app]["db"]
         /\ envFile[op.app]["oidc"] # None => op.env[op.app]["oidc"] = envFile[op.app]["oidc"]
    /\ op.kind # "remove" /\ (op.step = "up" \/ op.ok) => op.env[op.app] = envFile[op.app]
    /\ op.kind = "remove" =>
         /\ op.env[op.app]["db"] \in {envFile[op.app]["db"], None}
         /\ op.env[op.app]["oidc"] \in {envFile[op.app]["oidc"], None}
         /\ op.clients[op.app] = None
    /\ op.step = "dex" => op.ok

\* The operation has come past the client of its app.
Registered == op.ok \/ op.step \in {"compose", "env", "up"}

\* An app whose keys count: installed, or about to be entered.
Live == {a \in Apps : inst[a] # None \/ (op.kind = "install" /\ op.ok /\ a = op.app)}

\* Dex knows the secret in .env.
ClientInv ==
  /\ \A a \in Live : envFile[a]["oidc"] # None => clients[a] = envFile[a]["oidc"]
  /\ op # NoOp =>
       /\ \A a \in Apps \ {op.app} :
            inst[a] # None /\ envFile[a]["oidc"] # None => op.clients[a] = envFile[a]["oidc"]
       /\ op.env[op.app]["oidc"] # None =>
            /\ op.kind = "update" => clients[op.app] = op.env[op.app]["oidc"]
            /\ op.kind # "remove" /\ Registered =>
                 /\ clients[op.app] = op.env[op.app]["oidc"]
                 /\ op.clients[op.app] = op.env[op.app]["oidc"]

\* Postgres knows the password in .env, or has no role.
RoleInv ==
  /\ \A a \in Live : envFile[a]["db"] # None => role[a] \in {envFile[a]["db"], None}
  /\ op # NoOp /\ op.kind = "install" /\ (Registered \/ op.step = "client") /\ op.env[op.app]["db"] # None =>
       role[op.app] = op.env[op.app]["db"]

\* A container runs with the values in .env.
RunsOnEnv ==
  \A a \in Live :
    ctr[a] # None /\ ~(op.kind = "remove" /\ a = op.app /\ op.step = "commit") =>
      \A k \in {"db", "oidc"} : ctr[a].keys[k] # None => envFile[a][k] = ctr[a].keys[k]

\* One without a service in docker-compose.yml is one that a removal is about to
\* forget.
NoneWithoutService ==
  \A a \in Live :
    compose[a] = None
    /\ ~(op.kind = "remove" /\ a = op.app /\ op.step \in {"wipe", "save", "commit"}) =>
      ctr[a] = None

\* What a removal leaves of its app it leaves to Dex and Postgres, too.
LeftBehind ==
  op.kind = "remove" /\ ctr[op.app] # None =>
    LET c == ctr[op.app].keys IN
    /\ "crash" \notin faults
    /\ c["db"] # None => role[op.app] \in {c["db"], None}
    /\ c["oidc"] # None => clients[op.app] = c["oidc"]

ContainerInv == RunsOnEnv /\ NoneWithoutService /\ LeftBehind

SecretsInv == NeedsInv /\ LoadedInv /\ ClientInv /\ RoleInv /\ ContainerInv

\* An app that asks for a login, or a database, asks for it in later versions, too.
LEMMA Monotone ==
  ASSUME NEW a \in Apps, NEW v \in Versions, NEW w \in Versions, v <= w
  PROVE  (HasLogin(a, v) => HasLogin(a, w)) /\ (NeedsDb(a, v) => NeedsDb(a, w))
BY VersionAssumption DEF HasLogin, NeedsDb, Versions

\* What each step does to the operation.
LEMMA SetupAppDBDoes ==
  ASSUME TInv, SetupAppDB
  PROVE  /\ op # NoOp /\ op.app \in Apps /\ op.kind = "install" /\ op.step = "db" /\ ~op.ok
         /\ op' # NoOp /\ op'.kind = op.kind /\ op'.app = op.app /\ op'.ok = op.ok
         /\ op'.clients = op.clients
         /\ UNCHANGED <<faults, published, cached, envFile, clients, compose, ctr, inst>>
         /\ \A a \in Apps \ {op.app} : role'[a] = role[a]
         /\ \/ /\ op'.step = "client" /\ NeedsDb(op.app, cached[op.app])
               /\ op'.env \in Generated("db", {role[op.app], CtrValue(op.app, "db")})
               /\ role'[op.app] = op'.env[op.app]["db"]
            \/ /\ op'.step = "client" /\ ~NeedsDb(op.app, cached[op.app])
               /\ op'.env = op.env /\ role' = role
            \/ op'.step = "save" /\ op'.env = Rollback
<1>1. op.step = "db"
  BY DEF SetupAppDB
<1>2. op # NoOp
  BY <1>1, NoOpType
<1>3. op \in Operation /\ op.app \in Apps /\ op.kind = "install" /\ ~op.ok
  BY <1>1, <1>2 DEF TInv, TypeOK, OpInv, FirstSteps
<1>4. CASE ~NeedsDb(op.app, cached[op.app])
  BY <1>1, <1>2, <1>3, <1>4, GoType DEF SetupAppDB
<1>5. CASE NeedsDb(op.app, cached[op.app])
  <2>1. PICK env \in Generated("db", {role[op.app], CtrValue(op.app, "db")}) :
          /\ role' = [role EXCEPT ![op.app] = env[op.app]["db"]]
          /\ \/ op' = [op EXCEPT !.step = "client", !.env = env, !.keys = Added("db")]
             \/ Fail
    BY <1>5 DEF SetupAppDB
  <2>2. /\ role'[op.app] = env[op.app]["db"]
        /\ \A a \in Apps \ {op.app} : role'[a] = role[a]
    BY <1>3, <2>1 DEF TInv, TypeOK
  <2>3. CASE op' = [op EXCEPT !.step = "client", !.env = env, !.keys = Added("db")]
    <3>1. /\ op'.kind = op.kind /\ op'.app = op.app /\ op'.ok = op.ok /\ op'.step = "client"
          /\ op'.clients = op.clients /\ op'.env = env
      BY <1>3, <2>3 DEF Operation
    <3> QED  BY <1>1, <1>2, <1>3, <1>5, <2>1, <2>2, <3>1, NoOpType DEF SetupAppDB
  <2>4. CASE Fail
    BY <1>1, <1>2, <1>3, <2>2, <2>4, FailType DEF SetupAppDB
  <2> QED  BY <2>1, <2>3, <2>4
<1> QED  BY <1>4, <1>5

LEMMA RegisterClientDoes ==
  ASSUME TInv, RegisterClient
  PROVE  /\ op # NoOp /\ op.app \in Apps /\ op.kind \in {"install", "update"}
         /\ op.step = "client" /\ ~op.ok
         /\ op' # NoOp /\ op'.kind = op.kind /\ op'.app = op.app /\ op'.ok = op.ok
         /\ UNCHANGED <<faults, published, cached, envFile, role, compose, ctr, inst>>
         /\ \/ /\ HasLogin(op.app, cached[op.app])
               /\ op'.step = "compose"
               /\ op'.env \in Generated("oidc", {clients[op.app], CtrValue(op.app, "oidc")})
               /\ clients' = [op.clients EXCEPT ![op.app] = op'.env[op.app]["oidc"]]
               /\ op'.clients = clients'
            \/ /\ HasLogin(op.app, cached[op.app])
               /\ op'.step = "save" /\ op'.env = Rollback /\ op'.clients = op.clients
               /\ \E env \in Generated("oidc", {clients[op.app], CtrValue(op.app, "oidc")}) :
                    clients' = [op.clients EXCEPT ![op.app] = env[op.app]["oidc"]]
            \/ /\ ~HasLogin(op.app, cached[op.app])
               /\ clients' \in {clients, op.clients} /\ op'.clients = op.clients
               /\ \/ op'.step = "compose" /\ op'.env = op.env
                  \/ op'.step = "save" /\ op'.env = Rollback
<1>1. op.step = "client" /\ op.kind \in {"install", "update"}
  BY DEF RegisterClient
<1>2. op # NoOp
  BY <1>1, NoOpType
<1>3. op \in Operation /\ op.app \in Apps /\ ~op.ok
  BY <1>1, <1>2 DEF TInv, TypeOK, OpInv, FirstSteps
<1>4. CASE ~HasLogin(op.app, cached[op.app])
  <2>1. clients' \in {clients, op.clients} /\ (Go("compose") \/ Fail)
    BY <1>4 DEF RegisterClient
  <2>2. CASE Go("compose")
    BY <1>1, <1>2, <1>3, <1>4, <2>1, <2>2, GoType DEF RegisterClient
  <2>3. CASE Fail
    BY <1>1, <1>2, <1>3, <1>4, <2>1, <2>3, FailType DEF RegisterClient
  <2> QED  BY <2>1, <2>2, <2>3
<1>5. CASE HasLogin(op.app, cached[op.app])
  <2>1. PICK env \in Generated("oidc", {clients[op.app], CtrValue(op.app, "oidc")}) :
          LET cls == [op.clients EXCEPT ![op.app] = env[op.app]["oidc"]] IN
          /\ clients' = cls
          /\ \/ op' = [op EXCEPT !.step = "compose", !.env = env,
                                  !.keys = Added("oidc"), !.clients = cls]
             \/ Fail
    BY <1>5 DEF RegisterClient
  <2>2. CASE op' = [op EXCEPT !.step = "compose", !.env = env,
                              !.keys = Added("oidc"), !.clients = clients']
    <3>1. /\ op'.kind = op.kind /\ op'.app = op.app /\ op'.ok = op.ok /\ op'.step = "compose"
          /\ op'.clients = clients' /\ op'.env = env
      BY <1>3, <2>2 DEF Operation
    <3> QED  BY <1>1, <1>2, <1>3, <1>5, <2>1, <3>1, NoOpType DEF RegisterClient
  <2>3. CASE Fail
    BY <1>1, <1>2, <1>3, <1>5, <2>1, <2>3, FailType DEF RegisterClient
  <2> QED  BY <2>1, <2>2, <2>3
<1> QED  BY <1>4, <1>5

\* The other steps, which leave the loaded .env as it is or take it back.
LEMMA OtherStepDoes ==
  ASSUME TInv, Step, ~SetupAppDB, ~RegisterClient
  PROVE  /\ op # NoOp /\ op.app \in Apps
         /\ UNCHANGED <<faults, published, cached>>
         /\ op' # NoOp => op'.kind = op.kind /\ op'.app = op.app /\ op'.clients = op.clients
         /\ \/ op' = NoOp /\ UNCHANGED envFile
            \/ op' # NoOp /\ op'.env = op.env /\ UNCHANGED envFile
            \/ op' # NoOp /\ op'.env = op.env /\ envFile' = op.env
            \/ op' # NoOp /\ op'.env = Rollback /\ UNCHANGED envFile
<1>0. op # NoOp /\ op \in Operation /\ op.app \in Apps
  BY NoOpType DEF Step, UnregisterClient, Regenerate, SaveBeforeUp,
     Up, Wipe, StepFails, SaveEnv, Commit, SaveDex, TInv, TypeOK, OpInv
<1>1. CASE UnregisterClient
  BY <1>0, <1>1, GoType DEF UnregisterClient
<1>2. CASE Regenerate
  BY <1>0, <1>2, GoType DEF Regenerate
<1>3. CASE SaveBeforeUp
  BY <1>0, <1>3, GoType DEF SaveBeforeUp
<1>4. CASE Up
  <2>1. CASE Fail
    BY <1>0, <1>4, <2>1, FailType DEF Up
  <2>2. CASE op' = [op EXCEPT !.step = "save", !.ok = TRUE]
    <3>1. /\ op'.kind = op.kind /\ op'.app = op.app /\ op'.clients = op.clients
          /\ op'.env = op.env /\ op'.step = "save"
      BY <1>0, <2>2 DEF Operation
    <3> QED  BY <1>0, <1>4, <3>1, NoOpType DEF Up
  <2> QED  BY <1>4, <2>1, <2>2 DEF Up
<1>5. CASE Wipe
  <2>1. /\ op'.kind = op.kind /\ op'.app = op.app /\ op'.clients = op.clients
        /\ op'.env = op.env /\ op'.step = "save"
    BY <1>0, <1>5 DEF Wipe, Operation
  <2> QED  BY <1>0, <1>5, <2>1, NoOpType DEF Wipe
<1>6. CASE StepFails
  BY <1>0, <1>6, FailType DEF StepFails
<1>7. CASE SaveEnv
  BY <1>0, <1>7, GoType DEF SaveEnv
<1>8. CASE Commit
  <2>1. UNCHANGED <<faults, published, cached, envFile>> /\ (Go("dex") \/ op' = NoOp)
    BY <1>8 DEF Commit
  <2> QED  BY <1>0, <2>1, GoType
<1>9. CASE SaveDex
  BY <1>0, <1>9 DEF SaveDex
<1> QED
  BY <1>1, <1>2, <1>3, <1>4, <1>5, <1>6, <1>7, <1>8, <1>9 DEF Step

\* A step adds nothing to the loaded .env that the definition does not ask for.
LEMMA LoadedGrows ==
  ASSUME TInv, Step, op' # NoOp, NEW a \in Apps
  PROVE  /\ op'.env[a]["oidc"] # None =>
              \/ op.env[a]["oidc"] # None
              \/ a = op.app /\ HasLogin(a, cached[a])
         /\ op'.env[a]["db"] # None =>
              \/ op.env[a]["db"] # None
              \/ a = op.app /\ NeedsDb(a, cached[a])
<1>0. "db" \in Kinds /\ "oidc" \in Kinds /\ op \in Operation
  BY DEF Kinds, TInv, TypeOK
<1>1. CASE SetupAppDB
  <2>1. CASE op'.env \in {op.env, Rollback}
    BY <1>0, <1>1, <2>1, SetupAppDBDoes, RollbackType
  <2>2. CASE /\ NeedsDb(op.app, cached[op.app])
             /\ op'.env \in Generated("db", {role[op.app], CtrValue(op.app, "db")})
    BY <1>0, <1>1, <2>2, SetupAppDBDoes, GeneratedType
  <2> QED  BY <1>1, <2>1, <2>2, SetupAppDBDoes
<1>2. CASE RegisterClient
  <2>1. CASE op'.env \in {op.env, Rollback}
    BY <1>0, <1>2, <2>1, RegisterClientDoes, RollbackType
  <2>2. CASE /\ HasLogin(op.app, cached[op.app])
             /\ op'.env \in Generated("oidc", {clients[op.app], CtrValue(op.app, "oidc")})
    BY <1>0, <1>2, <2>2, RegisterClientDoes, GeneratedType
  <2> QED  BY <1>2, <2>1, <2>2, RegisterClientDoes
<1>3. CASE ~SetupAppDB /\ ~RegisterClient
  BY <1>0, <1>3, OtherStepDoes, RollbackType
<1> QED  BY <1>1, <1>2, <1>3

LEMMA StepFrame ==
  ASSUME TInv, Step
  PROVE  /\ op # NoOp /\ op.app \in Apps
         /\ UNCHANGED <<faults, published, cached>>
         /\ op' # NoOp => op'.kind = op.kind /\ op'.app = op.app
         /\ envFile' = envFile \/ (op' # NoOp /\ op'.env = op.env /\ envFile' = op.env)
<1>1. CASE SetupAppDB
  BY <1>1, SetupAppDBDoes
<1>2. CASE RegisterClient
  BY <1>2, RegisterClientDoes
<1>3. CASE ~SetupAppDB /\ ~RegisterClient
  BY <1>3, OtherStepDoes
<1> QED  BY <1>1, <1>2, <1>3

LEMMA NeedsStep == TInv /\ NeedsInv /\ Step => NeedsInv'
<1> SUFFICES ASSUME TInv, NeedsInv, Step PROVE NeedsInv'
  OBVIOUS
<1>1. UNCHANGED <<published, cached>> /\ op # NoOp
  BY StepFrame
<1>2. ASSUME op' # NoOp, NEW a \in Apps
      PROVE  /\ op'.env[a]["oidc"] # None => cached[a] # None /\ HasLogin(a, cached[a])
             /\ op'.env[a]["db"] # None   => cached[a] # None /\ NeedsDb(a, cached[a])
  <2>1. cached[op.app] # None
    BY <1>1 DEF TInv, OpInv
  <2> QED  BY <1>1, <1>2, <2>1, LoadedGrows DEF NeedsInv
<1>3. ASSUME NEW a \in Apps
      PROVE  /\ envFile'[a]["oidc"] # None => cached[a] # None /\ HasLogin(a, cached[a])
             /\ envFile'[a]["db"] # None   => cached[a] # None /\ NeedsDb(a, cached[a])
  BY <1>1, <1>2, StepFrame DEF NeedsInv
<1> QED  BY <1>1, <1>2, <1>3 DEF NeedsInv, HasLogin, NeedsDb

\* The definitions in the cache only get newer.
LEMMA NeedsNewer ==
  ASSUME TInv, NeedsInv, published' \in [Apps -> Versions], cached' \in [Apps -> Versions \cup {None}],
         \A a \in Apps : published[a] <= published'[a],
         \A a \in Apps : cached'[a] \in {cached[a], published'[a]},
         UNCHANGED envFile,
         op' # NoOp => \A a \in Apps :
           /\ op'.env[a]["oidc"] \in {envFile[a]["oidc"], None}
           /\ op'.env[a]["db"] \in {envFile[a]["db"], None}
  PROVE  NeedsInv'
<1>0. cached \in [Apps -> Versions \cup {None}] /\ published \in [Apps -> Versions]
  BY DEF TInv, TypeOK
<1>1. ASSUME NEW a \in Apps, cached'[a] # None
      PROVE  cached'[a] <= published'[a]
  BY <1>0, <1>1 DEF NeedsInv, Versions
<1>2. ASSUME NEW a \in Apps, cached[a] # None
      PROVE  cached'[a] # None /\ cached[a] <= cached'[a]
  BY <1>0, <1>2 DEF NeedsInv, Versions
<1>3. ASSUME NEW a \in Apps, cached[a] # None
      PROVE  /\ HasLogin(a, cached[a]) => HasLogin(a, cached'[a])
             /\ NeedsDb(a, cached[a]) => NeedsDb(a, cached'[a])
  BY <1>0, <1>2, <1>3, Monotone
<1>4. ASSUME NEW a \in Apps
      PROVE  /\ envFile[a]["oidc"] # None => cached'[a] # None /\ HasLogin(a, cached'[a])
             /\ envFile[a]["db"] # None   => cached'[a] # None /\ NeedsDb(a, cached'[a])
  BY <1>2, <1>3 DEF NeedsInv
<1> QED  BY <1>1, <1>4 DEF NeedsInv, HasLogin, NeedsDb

\* What an operation that begins has loaded.
LEMMA InstallBegins ==
  ASSUME TInv, NEW a \in Apps, Install(a)
  PROVE  /\ op = NoOp /\ op' # NoOp /\ op'.app = a /\ op'.kind = "install" /\ op'.step = "db"
         /\ ~op'.ok /\ op'.clients = DexClients(cached')
         /\ \A b \in Apps \ {a} : op'.env[b] = envFile[b]
         /\ op'.env[a]["db"] = envFile[a]["db"] /\ op'.env[a]["oidc"] = envFile[a]["oidc"]
         /\ \A k \in {"secret", "prompt", "address"} : op'.env[a][k] = Given
         /\ cached' \in [Apps -> Versions \cup {None}]
         /\ \A b \in Apps : cached'[b] \in {cached[b], published[b]}
<1> DEFINE env == [envFile EXCEPT ![a]["secret"] = Given, ![a]["prompt"] = Given,
                                  ![a]["address"] = Given]
<1>1. envFile \in [Apps -> [Kinds -> Vals]]
  BY DEF TInv, TypeOK, Env
<1>2. /\ \A b \in Apps \ {a} : env[b] = envFile[b]
      /\ env[a]["db"] = envFile[a]["db"] /\ env[a]["oidc"] = envFile[a]["oidc"]
      /\ \A k \in {"secret", "prompt", "address"} : env[a][k] = Given
  BY <1>1 DEF Kinds
<1>3. /\ op' # NoOp /\ op'.app = a /\ op'.kind = "install" /\ op'.step = "db"
      /\ ~op'.ok /\ op'.clients = DexClients(cached') /\ op'.env = env
  BY NoOpType DEF Install, Begin
<1>4. /\ cached' \in [Apps -> Versions \cup {None}]
      /\ \A b \in Apps : cached'[b] \in {cached[b], published[b]}
  BY DEF Install, TInv, TypeOK
<1> QED  BY <1>2, <1>3, <1>4 DEF Install, Idle

LEMMA UpdateBegins ==
  ASSUME TInv, NEW a \in Apps, Update(a)
  PROVE  /\ op = NoOp /\ op' # NoOp /\ op'.app = a /\ op'.kind = "update" /\ op'.step = "client"
         /\ ~op'.ok /\ op'.clients = DexClients(cached')
         /\ \A b \in Apps \ {a} : op'.env[b] = envFile[b]
         /\ op'.env[a]["db"] = envFile[a]["db"] /\ op'.env[a]["oidc"] = envFile[a]["oidc"]
         /\ cached' \in [Apps -> Versions \cup {None}]
         /\ \A b \in Apps : cached'[b] \in {cached[b], published[b]}
<1> DEFINE env == [envFile EXCEPT ![a]["secret"] = Given, ![a]["address"] = Given]
<1>1. envFile \in [Apps -> [Kinds -> Vals]]
  BY DEF TInv, TypeOK, Env
<1>2. /\ \A b \in Apps \ {a} : env[b] = envFile[b]
      /\ env[a]["db"] = envFile[a]["db"] /\ env[a]["oidc"] = envFile[a]["oidc"]
  BY <1>1 DEF Kinds
<1>3. /\ op' # NoOp /\ op'.app = a /\ op'.kind = "update" /\ op'.step = "client"
      /\ ~op'.ok /\ op'.clients = DexClients(cached') /\ op'.env = env
  BY NoOpType DEF Update, Begin
<1>4. /\ cached' \in [Apps -> Versions \cup {None}]
      /\ \A b \in Apps : cached'[b] \in {cached[b], published[b]}
  BY DEF Update, TInv, TypeOK
<1> QED  BY <1>2, <1>3, <1>4 DEF Update, Idle

LEMMA RemoveBegins ==
  ASSUME TInv, NEW a \in Apps, Remove(a)
  PROVE  /\ op = NoOp /\ op' # NoOp /\ op'.app = a /\ op'.kind = "remove" /\ op'.step = "client"
         /\ ~op'.ok /\ op'.clients = [DexClients(cached) EXCEPT ![a] = None]
         /\ \A b \in Apps \ {a} : op'.env[b] = envFile[b]
         /\ op'.env[a]["db"] \in {envFile[a]["db"], None}
         /\ op'.env[a]["oidc"] \in {envFile[a]["oidc"], None}
<1> DEFINE e == [k \in Kinds |-> IF k \in inst[a].keys THEN None ELSE envFile[a][k]]
           env == [envFile EXCEPT ![a] = e]
<1>1. envFile \in [Apps -> [Kinds -> Vals]]
  BY DEF TInv, TypeOK, Env
<1>2. /\ \A b \in Apps \ {a} : env[b] = envFile[b]
      /\ env[a] = e
  BY <1>1
<1>3. e["db"] \in {envFile[a]["db"], None} /\ e["oidc"] \in {envFile[a]["oidc"], None}
  BY DEF Kinds
<1>4. /\ op' # NoOp /\ op'.app = a /\ op'.kind = "remove" /\ op'.step = "client"
      /\ ~op'.ok /\ op'.clients = [DexClients(cached) EXCEPT ![a] = None] /\ op'.env = env
  BY NoOpType DEF Remove, Begin
<1> QED  BY <1>2, <1>3, <1>4 DEF Remove, Idle

LEMMA NeedsRequest == TInv /\ NeedsInv /\ Request => NeedsInv'
<1> SUFFICES ASSUME TInv, NeedsInv, Request PROVE NeedsInv'
  OBVIOUS
<1>0. /\ published \in [Apps -> Versions] /\ cached \in [Apps -> Versions \cup {None}]
      /\ \A a \in Apps : published[a] <= published[a]
  BY DEF TInv, TypeOK, Versions
<1>1. ASSUME NEW a \in Apps, Install(a) PROVE NeedsInv'
  <2>1. UNCHANGED <<published, envFile>>
    BY <1>1 DEF Install
  <2> QED  BY <1>0, <1>1, <2>1, InstallBegins, NeedsNewer
<1>2. ASSUME NEW a \in Apps, Update(a) PROVE NeedsInv'
  <2>1. UNCHANGED <<published, envFile>>
    BY <1>2 DEF Update
  <2> QED  BY <1>0, <1>2, <2>1, UpdateBegins, NeedsNewer
<1>3. ASSUME NEW a \in Apps, Remove(a) PROVE NeedsInv'
  <2>1. UNCHANGED <<published, cached, envFile>>
    BY <1>3 DEF Remove
  <2> QED  BY <1>0, <1>3, <2>1, RemoveBegins, NeedsNewer
<1>4. ASSUME NEW a \in Apps, Start(a) \/ Stop(a) PROVE NeedsInv'
  BY <1>4 DEF Start, Stop, NeedsInv, HasLogin, NeedsDb
<1>5. CASE RewriteDexConfig
  BY <1>5 DEF RewriteDexConfig, NeedsInv, HasLogin, NeedsDb
<1> QED  BY <1>1, <1>2, <1>3, <1>4, <1>5 DEF Request

LEMMA NeedsNext == TInv /\ NeedsInv /\ [Next]_vars => NeedsInv'
<1> SUFFICES ASSUME TInv, NeedsInv, [Next]_vars PROVE NeedsInv'
  OBVIOUS
<1>1. CASE Crash
  BY <1>1 DEF Crash, NeedsInv, HasLogin, NeedsDb
<1>2. ASSUME NEW a \in Apps, PublishVersion(a)
      PROVE  NeedsInv'
  <2>1. published' \in [Apps -> Versions] /\ \A b \in Apps : published[b] <= published'[b]
    BY <1>2 DEF PublishVersion, TInv, TypeOK, Versions
  <2>2. cached' \in [Apps -> Versions \cup {None}] /\ op' = NoOp /\ UNCHANGED <<cached, envFile>>
    BY <1>2 DEF PublishVersion, TInv, TypeOK, Idle
  <2> QED  BY <2>1, <2>2, NeedsNewer
<1>3. ASSUME NEW a \in Apps, FetchDefinition(a)
      PROVE  NeedsInv'
  <2>1. published' \in [Apps -> Versions] /\ \A b \in Apps : published[b] <= published'[b]
    BY <1>3 DEF FetchDefinition, TInv, TypeOK, Versions
  <2>2. cached' \in [Apps -> Versions \cup {None}] /\ op' = NoOp /\ UNCHANGED <<published, envFile>>
        /\ \A b \in Apps : cached'[b] \in {cached[b], published[b]}
    BY <1>3 DEF FetchDefinition, TInv, TypeOK, Idle
  <2> QED  BY <2>1, <2>2, NeedsNewer
<1>4. CASE UNCHANGED vars
  BY <1>4 DEF vars, NeedsInv, HasLogin, NeedsDb
<1> QED  BY <1>1, <1>2, <1>3, <1>4, NeedsRequest, NeedsStep DEF Next

LEMMA LoadedStep == TInv /\ LoadedInv /\ Step => LoadedInv'
<1> SUFFICES ASSUME TInv, LoadedInv, Step, op' # NoOp PROVE LoadedInv'
  BY DEF LoadedInv
<1>0. op # NoOp /\ op \in Operation /\ op.app \in Apps /\ op'.kind = op.kind /\ op'.app = op.app
      /\ "db" \in Kinds /\ "oidc" \in Kinds
      /\ op.kind \in {"install", "update", "remove"}
      /\ (op.ok => op.step \in {"save", "commit", "dex"})
      /\ (op.kind = "remove" => op.step \in {"client", "compose", "wipe", "save", "commit"})
  BY StepFrame DEF Kinds, TInv, TypeOK, OpInv
<1>1. \A a \in Apps \ {op.app} : op.env[a] = envFile[a]
  BY <1>0 DEF LoadedInv
\* A step that keeps the loaded .env and moves on.
<1>2. ASSUME op'.env = op.env, op'.clients = op.clients, UNCHANGED inst,
             envFile' \in {envFile, op.env}, op'.ok = op.ok, op'.step # "dex",
             op'.step = "up" => envFile' = op.env,
             op.step # "dex"
      PROVE  LoadedInv'
  <2>1. \A a \in Apps \ {op.app} : op'.env[a] = envFile'[a]
    BY <1>1, <1>2
  <2>2. op.kind = "install" => inst'[op.app] = None
    BY <1>0, <1>2 DEF LoadedInv
  <2>3. op.kind = "update" =>
          /\ op'.env[op.app]["db"] = envFile'[op.app]["db"]
          /\ envFile'[op.app]["oidc"] # None =>
               op'.env[op.app]["oidc"] = envFile'[op.app]["oidc"]
    BY <1>0, <1>2 DEF LoadedInv
  <2>4. op.kind # "remove" /\ (op'.step = "up" \/ op'.ok) => op'.env[op.app] = envFile'[op.app]
    BY <1>0, <1>2 DEF LoadedInv
  <2>5. op.kind = "remove" =>
         /\ op'.env[op.app]["db"] \in {envFile'[op.app]["db"], None}
         /\ op'.env[op.app]["oidc"] \in {envFile'[op.app]["oidc"], None}
         /\ op'.clients[op.app] = None
    BY <1>0, <1>2 DEF LoadedInv
  <2> QED  BY <1>0, <1>2, <2>1, <2>2, <2>3, <2>4, <2>5 DEF LoadedInv
\* A step of an install or an update before the file is written.
<1>3. ASSUME op.kind \in {"install", "update"}, op.step # "dex",
             \A a \in Apps \ {op.app} : op'.env[a] = op.env[a],
             op.kind = "update" =>
               /\ op'.env[op.app]["db"] = op.env[op.app]["db"]
               /\ op.env[op.app]["oidc"] # None =>
                    op'.env[op.app]["oidc"] = op.env[op.app]["oidc"],
             UNCHANGED <<inst, envFile>>, ~op'.ok, op'.step \notin {"up", "dex"}
      PROVE  LoadedInv'
  <2>1. \A a \in Apps \ {op.app} : op'.env[a] = envFile'[a]
    BY <1>1, <1>3
  <2>2. op.kind = "install" => inst'[op.app] = None
    BY <1>0, <1>3 DEF LoadedInv
  <2>3. op.kind = "update" =>
          /\ op'.env[op.app]["db"] = envFile'[op.app]["db"]
          /\ envFile'[op.app]["oidc"] # None =>
               op'.env[op.app]["oidc"] = envFile'[op.app]["oidc"]
    BY <1>0, <1>3 DEF LoadedInv
  <2> QED  BY <1>0, <1>3, <2>1, <2>2, <2>3 DEF LoadedInv
<1>4. ASSUME op.kind \in {"install", "update"}, op.step \notin {"save", "commit", "dex"},
             op'.env = Rollback, op'.step = "save", op'.ok = op.ok, UNCHANGED <<inst, envFile>>
      PROVE  LoadedInv'
  BY <1>0, <1>3, <1>4, RollbackType
<1>5. CASE SetupAppDB
  <2>1. CASE op'.env = op.env
    BY <1>0, <1>3, <1>5, <2>1, SetupAppDBDoes
  <2>2. CASE op'.env \in Generated("db", {role[op.app], CtrValue(op.app, "db")})
    BY <1>0, <1>3, <1>5, <2>2, SetupAppDBDoes, GeneratedType
  <2>3. CASE op'.env = Rollback
    BY <1>0, <1>3, <1>5, <2>3, SetupAppDBDoes, RollbackType
  <2> QED  BY <1>5, <2>1, <2>2, <2>3, SetupAppDBDoes
<1>6. CASE RegisterClient
  <2>1. CASE op'.env = op.env
    BY <1>0, <1>3, <1>6, <2>1, RegisterClientDoes
  <2>2. CASE op'.env \in Generated("oidc", {clients[op.app], CtrValue(op.app, "oidc")})
    BY <1>0, <1>3, <1>6, <2>2, RegisterClientDoes, GeneratedType DEF Kinds
  <2>3. CASE op'.env = Rollback
    BY <1>0, <1>3, <1>6, <2>3, RegisterClientDoes, RollbackType
  <2> QED  BY <1>6, <2>1, <2>2, <2>3, RegisterClientDoes
<1>7. CASE UnregisterClient
  BY <1>0, <1>2, <1>7, GoType DEF UnregisterClient
<1>8. CASE Regenerate
  <2>1. Go("wipe") \/ Go("env")
    BY <1>8 DEF Regenerate
  <2> QED  BY <1>0, <1>2, <1>8, <2>1, GoType DEF Regenerate
<1>9. CASE SaveBeforeUp
  BY <1>0, <1>2, <1>9, GoType DEF SaveBeforeUp
<1>10. CASE Up
  <2>1. CASE Fail
    BY <1>0, <1>4, <1>10, <2>1, FailType DEF Up
  <2>2. CASE op' = [op EXCEPT !.step = "save", !.ok = TRUE]
    <3>1. op'.env = op.env /\ op'.step = "save" /\ UNCHANGED <<inst, envFile>>
          /\ op.step = "up" /\ op.kind # "remove"
      BY <1>0, <1>10, <2>2 DEF Up, Operation
    <3>2. op.env[op.app] = envFile[op.app]
      BY <1>0, <3>1 DEF LoadedInv
    <3>3. op.kind = "install" => inst[op.app] = None
      BY <1>0, <3>1 DEF LoadedInv
    <3> QED  BY <1>0, <1>1, <3>1, <3>2, <3>3 DEF LoadedInv
  <2> QED  BY <1>10, <2>1, <2>2 DEF Up
<1>11. CASE Wipe
  <2>1. op'.env = op.env /\ op'.step = "save" /\ op'.clients = op.clients
        /\ UNCHANGED <<inst, envFile>> /\ op.kind = "remove"
    BY <1>0, <1>11 DEF Wipe, Operation, TInv, OpInv, FirstSteps
  <2> QED  BY <1>0, <1>1, <2>1 DEF LoadedInv
<1>12. CASE StepFails
  BY <1>0, <1>4, <1>12, FailType DEF StepFails
<1>13. CASE SaveEnv
  BY <1>0, <1>2, <1>13, GoType DEF SaveEnv
<1>14. CASE Commit
  <2>1. /\ op.ok /\ op.kind # "remove" /\ UNCHANGED envFile
        /\ op'.env = op.env /\ op'.step = "dex" /\ op'.ok = op.ok /\ op.step = "commit"
    BY <1>0, <1>14, GoType DEF Commit
  <2>2. op.env[op.app] = envFile[op.app]
    BY <1>0, <2>1 DEF LoadedInv
  <2> QED  BY <1>0, <1>1, <2>1, <2>2 DEF LoadedInv
<1>15. CASE SaveDex
  BY <1>15 DEF SaveDex
<1> QED
  BY <1>5, <1>6, <1>7, <1>8, <1>9, <1>10, <1>11, <1>12, <1>13, <1>14, <1>15 DEF Step

\* Nobody installs an app that is installed already.
Fresh == "again" \notin faults

LEMMA LoadedNext == TInv /\ Fresh /\ LoadedInv /\ [Next]_vars => LoadedInv'
<1> SUFFICES ASSUME TInv, Fresh, LoadedInv, [Next]_vars PROVE LoadedInv'
  OBVIOUS
<1>1. ASSUME NEW a \in Apps, Install(a) PROVE LoadedInv'
  <2>1. UNCHANGED <<envFile, inst>> /\ inst[a] = None
    BY <1>1 DEF Install, Fresh
  <2> QED  BY <1>1, <2>1, InstallBegins DEF LoadedInv
<1>2. ASSUME NEW a \in Apps, Update(a) PROVE LoadedInv'
  <2>1. UNCHANGED <<envFile, inst>>
    BY <1>2 DEF Update
  <2> QED  BY <1>2, <2>1, UpdateBegins DEF LoadedInv
<1>3. ASSUME NEW a \in Apps, Remove(a) PROVE LoadedInv'
  <2>1. UNCHANGED <<envFile, inst>>
    BY <1>3 DEF Remove
  <2>2. SecretsOnly(envFile)
    BY DEF TInv, EnvInv
  <2>3. DexClients(cached) \in [Apps -> Secrets]
    BY <2>2, DexClientsType
  <2>4. op'.clients[a] = None
    BY <1>3, <2>3, RemoveBegins
  <2> QED  BY <1>3, <2>1, <2>4, RemoveBegins DEF LoadedInv
<1>4. ASSUME UNCHANGED <<op, envFile, inst>> PROVE LoadedInv'
  BY <1>4 DEF LoadedInv
<1>5. ASSUME NEW a \in Apps, Start(a) \/ Stop(a) \/ PublishVersion(a) \/ FetchDefinition(a)
      PROVE  LoadedInv'
  BY <1>4, <1>5 DEF Start, Stop, PublishVersion, FetchDefinition
<1>6. CASE RewriteDexConfig
  BY <1>4, <1>6 DEF RewriteDexConfig
<1>7. CASE Crash
  BY <1>7 DEF Crash, LoadedInv
<1>8. CASE UNCHANGED vars
  BY <1>4, <1>8 DEF vars
<1> QED
  BY <1>1, <1>2, <1>3, <1>5, <1>6, <1>7, <1>8, LoadedStep DEF Next, Request

-----------------------------------------------------------------------------
\* Roles.
LEMMA CommitEnters ==
  ASSUME TInv, Commit, inst'[op.app] # None
  PROVE  inst[op.app] # None \/ (op.kind = "install" /\ op.ok)
<1>1. op.step = "commit" /\ op # NoOp
  BY NoOpType DEF Commit
<1>2. op.kind = "update" => inst[op.app] # None
  BY <1>1 DEF TInv, OpInv
<1>3. op.kind = "remove" => inst'[op.app] = None
  BY <1>1 DEF Commit, TInv, TypeOK, OpInv
<1>4. op.kind = "install" /\ ~op.ok => inst' = inst
  BY DEF Commit
<1> QED  BY <1>1, <1>2, <1>3, <1>4 DEF TInv, OpInv

LEMMA RoleStep == TInv /\ NeedsInv /\ LoadedInv /\ RoleInv /\ Step => RoleInv'
<1> SUFFICES ASSUME TInv, NeedsInv, LoadedInv, RoleInv, Step PROVE RoleInv'
  OBVIOUS
<1>0. op # NoOp /\ op \in Operation /\ op.app \in Apps /\ "db" \in Kinds
      /\ op.kind \in {"install", "update", "remove"}
      /\ (op.ok => op.step \in {"save", "commit", "dex"})
      /\ (op.kind = "remove" => op.step \in {"client", "compose", "wipe", "save", "commit"})
  BY StepFrame DEF Kinds, TInv, TypeOK, OpInv
<1>1. \A a \in Apps : inst[a] # None /\ envFile[a]["db"] # None => role[a] \in {envFile[a]["db"], None}
  BY DEF RoleInv, Live
<1>2. \A a \in Apps \ {op.app} : op.env[a] = envFile[a]
  BY <1>0 DEF LoadedInv
\* What an install has come past, and what it says of its app.
<1>3. ASSUME op.kind = "install", op.step \in {"client", "compose", "env", "up"} \/ op.ok,
             op.env[op.app]["db"] # None
      PROVE  role[op.app] = op.env[op.app]["db"]
  BY <1>0, <1>3 DEF RoleInv, Registered
\* Any step that leaves the roles alone.
<1>4. ASSUME UNCHANGED role, envFile' \in {envFile, op.env},
             \A a \in Apps : inst'[a] # None => inst[a] # None,
             op' # NoOp =>
               /\ op'.app = op.app /\ op'.kind = op.kind
               /\ op'.ok \/ op'.step \in {"client", "compose", "env", "up"} =>
                    /\ op'.env[op.app]["db"] = op.env[op.app]["db"]
                    /\ op.ok \/ op.step \in {"client", "compose", "env", "up"}
               /\ op.kind = "install" /\ op'.ok => envFile'[op.app] = op'.env[op.app]
      PROVE  RoleInv'
  <2>1. ASSUME op' # NoOp, op'.kind = "install",
               op'.ok \/ op'.step \in {"client", "compose", "env", "up"},
               op'.env[op'.app]["db"] # None
        PROVE  role'[op'.app] = op'.env[op'.app]["db"]
    BY <1>0, <1>3, <1>4, <2>1
  <2>2. ASSUME NEW a \in Apps, inst'[a] # None, envFile'[a]["db"] # None
        PROVE  role'[a] \in {envFile'[a]["db"], None}
    <3>1. envFile'[a]["db"] = envFile[a]["db"]
      BY <1>0, <1>2, <1>4, <2>2 DEF LoadedInv
    <3> QED  BY <1>1, <1>4, <2>2, <3>1
  <2>3. ASSUME op' # NoOp, op'.kind = "install", op'.ok, envFile'[op'.app]["db"] # None
        PROVE  role'[op'.app] \in {envFile'[op'.app]["db"], None}
    BY <1>4, <2>1, <2>3
  <2> QED  BY <2>1, <2>2, <2>3, NoOpType DEF RoleInv, Live, Registered
<1>5. CASE SetupAppDB
  <2>1. /\ op.kind = "install" /\ inst[op.app] = None /\ UNCHANGED <<inst, envFile>>
        /\ op'.app = op.app /\ op'.kind = op.kind /\ ~op'.ok
        /\ \A a \in Apps \ {op.app} : role'[a] = role[a]
    BY <1>0, <1>5, SetupAppDBDoes DEF LoadedInv
  <2>2. op'.step = "save" \/ (op'.env[op.app]["db"] # None => role'[op.app] = op'.env[op.app]["db"])
    BY <1>0, <1>5, SetupAppDBDoes DEF NeedsInv
  <2>3. op'.step \in {"client", "save"}
    BY <1>5, SetupAppDBDoes
  <2>4. \A a \in Apps : inst'[a] # None /\ envFile'[a]["db"] # None =>
                          role'[a] \in {envFile'[a]["db"], None}
    BY <1>1, <2>1
  <2> QED  BY <2>1, <2>2, <2>3, <2>4 DEF RoleInv, Live, Registered
<1>6. CASE RegisterClient
  <2>1. CASE op'.env = op.env
    BY <1>4, <1>6, <2>1, RegisterClientDoes
  <2>2. CASE op'.env \in Generated("oidc", {clients[op.app], CtrValue(op.app, "oidc")})
    <3>1. op'.env[op.app]["db"] = op.env[op.app]["db"]
      BY <1>0, <2>2, GeneratedType DEF Kinds
    <3> QED  BY <1>4, <1>6, <3>1, RegisterClientDoes
  <2>3. CASE op'.env = Rollback /\ op'.step = "save"
    BY <1>4, <1>6, <2>3, RegisterClientDoes
  <2> QED  BY <1>6, <2>1, <2>2, <2>3, RegisterClientDoes
<1>7. CASE UnregisterClient
  BY <1>0, <1>4, <1>7, GoType DEF UnregisterClient
<1>8. CASE Regenerate
  <2>1. op' = NoOp \/ (op.kind # "remove" /\ Go("env")) \/ (op.kind = "remove" /\ Go("wipe"))
    BY <1>8 DEF Regenerate
  <2>2. op.step = "compose" /\ UNCHANGED <<role, envFile, inst>> /\ ~op.ok
    BY <1>0, <1>8 DEF Regenerate
  <2> QED  BY <1>0, <1>4, <2>1, <2>2, GoType
<1>9. CASE SaveBeforeUp
  <2>1. /\ op'.app = op.app /\ op'.kind = op.kind /\ op'.env = op.env /\ op'.ok = op.ok
        /\ envFile' = op.env /\ UNCHANGED <<role, inst>> /\ op.step = "env"
    BY <1>0, <1>9, GoType DEF SaveBeforeUp
  <2> QED  BY <1>0, <1>4, <2>1
<1>10. CASE Up
  <2>1. op.step = "up" /\ UNCHANGED <<role, envFile, inst>> /\ op.kind # "remove"
        /\ op.env[op.app] = envFile[op.app] /\ ~op.ok
    BY <1>0, <1>10 DEF Up, LoadedInv
  <2>2. CASE Fail
    BY <1>0, <1>4, <2>1, <2>2, FailType
  <2>3. CASE op' = [op EXCEPT !.step = "save", !.ok = TRUE]
    <3>1. /\ op'.app = op.app /\ op'.kind = op.kind /\ op'.env = op.env
      BY <1>0, <2>3 DEF Operation
    <3> QED  BY <1>0, <1>4, <2>1, <3>1
  <2> QED  BY <1>10, <2>2, <2>3 DEF Up
<1>11. CASE Wipe
  <2>1. /\ op'.kind = op.kind /\ op'.app = op.app /\ op.kind = "remove" /\ UNCHANGED <<inst, envFile>>
    BY <1>0, <1>11 DEF Wipe, Operation, TInv, OpInv, FirstSteps
  <2>2. \A a \in Apps : role'[a] \in {role[a], None}
    BY <1>11 DEF Wipe, TInv, TypeOK
  <2> QED  BY <1>1, <2>1, <2>2 DEF RoleInv, Live
<1>12. CASE StepFails
  BY <1>0, <1>4, <1>12, FailType DEF StepFails
<1>13. CASE SaveEnv
  <2>1. /\ op'.app = op.app /\ op'.kind = op.kind /\ op'.env = op.env /\ op'.ok = op.ok
        /\ op'.step = "commit" /\ envFile' \in {envFile, op.env} /\ UNCHANGED <<role, inst>>
        /\ op.step = "save"
    BY <1>0, <1>13, GoType DEF SaveEnv
  <2>2. op.kind = "install" /\ op'.ok => envFile'[op.app] = op'.env[op.app]
    BY <1>0, <2>1 DEF LoadedInv
  <2> QED  BY <1>0, <1>4, <2>1, <2>2
<1>14. CASE Commit
  <2>1. UNCHANGED <<role, envFile>> /\ \A a \in Apps \ {op.app} : inst'[a] = inst[a]
    BY <1>14 DEF Commit, TInv, TypeOK
  <2>2. inst'[op.app] # None => inst[op.app] # None \/ (op.kind = "install" /\ op.ok)
    BY <1>14, CommitEnters
  <2>3. \A a \in Apps : inst'[a] # None /\ envFile[a]["db"] # None =>
                          role[a] \in {envFile[a]["db"], None}
    BY <2>1, <2>2 DEF RoleInv, Live
  <2>4. op' = NoOp \/ (op.ok /\ op'.app = op.app /\ op'.kind = op.kind /\ op'.env = op.env
                        /\ op'.step = "dex")
    BY <1>0, <1>14, GoType DEF Commit
  <2>5. CASE op' = NoOp
    BY <2>1, <2>3, <2>5, NoOpType DEF RoleInv, Live
  <2>6. CASE op.ok /\ op'.app = op.app /\ op'.kind = op.kind /\ op'.env = op.env /\ op'.step = "dex"
    <3>1. op.kind = "install" /\ op.env[op.app]["db"] # None => role[op.app] = op.env[op.app]["db"]
      BY <1>3, <2>6
    <3>2. op.kind = "install" => op.env[op.app] = envFile[op.app]
      BY <1>0, <2>6 DEF LoadedInv
    <3> QED  BY <2>1, <2>3, <2>6, <3>1, <3>2 DEF RoleInv, Live
  <2> QED  BY <2>4, <2>5, <2>6
<1>15. CASE SaveDex
  BY <1>4, <1>15 DEF SaveDex
<1> QED
  BY <1>5, <1>6, <1>7, <1>8, <1>9, <1>10, <1>11, <1>12, <1>13, <1>14, <1>15 DEF Step

LEMMA RoleNext == TInv /\ NeedsInv /\ LoadedInv /\ RoleInv /\ [Next]_vars => RoleInv'
<1> SUFFICES ASSUME TInv, NeedsInv, LoadedInv, RoleInv, [Next]_vars PROVE RoleInv'
  OBVIOUS
<1>1. \A a \in Apps : inst[a] # None /\ envFile[a]["db"] # None => role[a] \in {envFile[a]["db"], None}
  BY DEF RoleInv, Live
<1>2. ASSUME NEW a \in Apps, Install(a) \/ Update(a) \/ Remove(a) PROVE RoleInv'
  <2>1. UNCHANGED <<envFile, inst, role>>
    BY <1>2 DEF Install, Update, Remove
  <2>2. ~op'.ok /\ (op'.kind # "install" \/ op'.step = "db")
    BY <1>2, InstallBegins, UpdateBegins, RemoveBegins
  <2> QED  BY <1>1, <2>1, <2>2 DEF RoleInv, Live, Registered
<1>3. ASSUME UNCHANGED <<op, envFile, inst, role>> PROVE RoleInv'
  BY <1>3 DEF RoleInv, Live, Registered
<1>4. ASSUME NEW a \in Apps, Start(a) \/ Stop(a) \/ PublishVersion(a) \/ FetchDefinition(a)
      PROVE  RoleInv'
  BY <1>3, <1>4 DEF Start, Stop, PublishVersion, FetchDefinition
<1>5. CASE RewriteDexConfig
  BY <1>3, <1>5 DEF RewriteDexConfig
<1>6. CASE Crash
  BY <1>1, <1>6, NoOpType DEF Crash, RoleInv, Live
<1>7. CASE UNCHANGED vars
  BY <1>3, <1>7 DEF vars
<1> QED
  BY <1>2, <1>4, <1>5, <1>6, <1>7, RoleStep DEF Next, Request

-----------------------------------------------------------------------------
\* Clients.
LEMMA ClientStep == TInv /\ NeedsInv /\ LoadedInv /\ ClientInv /\ Step => ClientInv'
<1> SUFFICES ASSUME TInv, NeedsInv, LoadedInv, ClientInv, Step PROVE ClientInv'
  OBVIOUS
<1>0. op # NoOp /\ op \in Operation /\ op.app \in Apps /\ "oidc" \in Kinds
      /\ op.kind \in {"install", "update", "remove"}
      /\ (op.ok => op.step \in {"save", "commit", "dex"})
      /\ (op.kind = "remove" => op.step \in {"client", "compose", "wipe", "save", "commit"})
  BY StepFrame DEF Kinds, TInv, TypeOK, OpInv
<1>1. \A a \in Apps : inst[a] # None /\ envFile[a]["oidc"] # None => clients[a] = envFile[a]["oidc"]
  BY DEF ClientInv, Live
<1>2. \A a \in Apps \ {op.app} : op.env[a] = envFile[a]
  BY <1>0 DEF LoadedInv
<1>3. \A a \in Apps \ {op.app} :
        inst[a] # None /\ envFile[a]["oidc"] # None => op.clients[a] = envFile[a]["oidc"]
  BY <1>0 DEF ClientInv
<1>4. op.env[op.app]["oidc"] # None =>
        /\ op.kind = "update" => clients[op.app] = op.env[op.app]["oidc"]
        /\ op.kind # "remove" /\ (op.ok \/ op.step \in {"compose", "env", "up"}) =>
             /\ clients[op.app] = op.env[op.app]["oidc"]
             /\ op.clients[op.app] = op.env[op.app]["oidc"]
  BY <1>0 DEF ClientInv, Registered
\* Any step that leaves the clients alone.
<1>5. ASSUME UNCHANGED clients, envFile' \in {envFile, op.env},
             \A a \in Apps : inst'[a] # None => inst[a] # None,
             op' # NoOp =>
               /\ op'.app = op.app /\ op'.kind = op.kind /\ op'.clients = op.clients
               /\ op'.env[op.app]["oidc"] \in {op.env[op.app]["oidc"], None}
               /\ op'.ok \/ op'.step \in {"compose", "env", "up"} =>
                    op.kind = "remove" \/ op.ok \/ op.step \in {"compose", "env", "up"}
               /\ op.kind = "install" /\ op'.ok => envFile'[op.app] = op'.env[op.app]
      PROVE  ClientInv'
  <2>1. ASSUME NEW a \in Apps, inst'[a] # None, envFile'[a]["oidc"] # None
        PROVE  clients'[a] = envFile'[a]["oidc"]
    <3>1. CASE envFile'[a]["oidc"] = envFile[a]["oidc"]
      BY <1>1, <1>5, <2>1, <3>1
    <3>2. CASE envFile' = op.env /\ a = op.app /\ op.kind = "update"
      BY <1>4, <1>5, <2>1, <3>2
    <3>3. CASE envFile' = op.env /\ a = op.app /\ op.kind = "remove"
      <4>1. envFile'[a]["oidc"] = envFile[a]["oidc"]
        BY <1>0, <2>1, <3>3 DEF LoadedInv
      <4> QED  BY <3>1, <4>1
    <3>4. CASE envFile' = op.env /\ a = op.app /\ op.kind = "install"
      <4>1. op.step = "dex" /\ op.ok
        BY <1>0, <1>5, <2>1, <3>4 DEF LoadedInv
      <4> QED  BY <1>4, <1>5, <2>1, <3>4, <4>1
    <3> QED  BY <1>0, <1>2, <1>5, <3>1, <3>2, <3>3, <3>4
  <2>2. ASSUME op' # NoOp
        PROVE  /\ \A a \in Apps \ {op'.app} :
                    inst'[a] # None /\ envFile'[a]["oidc"] # None => op'.clients[a] = envFile'[a]["oidc"]
               /\ op'.env[op'.app]["oidc"] # None =>
                    /\ op'.kind = "update" => clients'[op'.app] = op'.env[op'.app]["oidc"]
                    /\ op'.kind # "remove" /\ (op'.ok \/ op'.step \in {"compose", "env", "up"}) =>
                         /\ clients'[op'.app] = op'.env[op'.app]["oidc"]
                         /\ op'.clients[op'.app] = op'.env[op'.app]["oidc"]
    BY <1>2, <1>3, <1>4, <1>5, <2>2
  <2>3. ASSUME op'.kind = "install", op'.ok, envFile'[op'.app]["oidc"] # None
        PROVE  clients'[op'.app] = envFile'[op'.app]["oidc"]
    <3>1. op' # NoOp
      BY <2>3, NoOpType
    <3> QED  BY <1>5, <2>2, <2>3, <3>1
  <2> QED  BY <2>1, <2>2, <2>3 DEF ClientInv, Live, Registered
<1>6. CASE SetupAppDB
  <2>1. CASE op'.env \in Generated("db", {role[op.app], CtrValue(op.app, "db")})
    <3>1. op'.env[op.app]["oidc"] = op.env[op.app]["oidc"]
      BY <1>0, <2>1, GeneratedType DEF Kinds
    <3> QED  BY <1>5, <1>6, <3>1, SetupAppDBDoes
  <2>2. CASE op'.env = op.env
    BY <1>5, <1>6, <2>2, SetupAppDBDoes
  <2>3. CASE op'.env = Rollback
    BY <1>0, <1>5, <1>6, <2>3, SetupAppDBDoes, RollbackType
  <2> QED  BY <1>6, <2>1, <2>2, <2>3, SetupAppDBDoes
<1>7. CASE RegisterClient
  <2>0. /\ op.kind \in {"install", "update"} /\ op.step = "client" /\ ~op.ok /\ ~op'.ok
        /\ op' # NoOp /\ op'.kind = op.kind /\ op'.app = op.app
        /\ UNCHANGED <<inst, envFile>> /\ op'.step \in {"compose", "save"}
    BY <1>7, RegisterClientDoes
  <2>1. ASSUME NEW a \in Apps \ {op.app}, inst'[a] # None, envFile'[a]["oidc"] # None,
               clients'[a] \in {clients[a], op.clients[a]}
        PROVE  clients'[a] = envFile'[a]["oidc"]
    BY <1>1, <1>3, <2>0, <2>1
  <2>2. inst[op.app] # None => op.kind = "update"
    BY <1>0, <2>0 DEF LoadedInv
  <2>3. op.kind = "update" /\ envFile[op.app]["oidc"] # None =>
          op.env[op.app]["oidc"] = envFile[op.app]["oidc"]
    BY <1>0 DEF LoadedInv
  <2>4. CASE HasLogin(op.app, cached[op.app])
    <3>1. PICK env \in Generated("oidc", {clients[op.app], CtrValue(op.app, "oidc")}) :
            /\ clients' = [op.clients EXCEPT ![op.app] = env[op.app]["oidc"]]
            /\ \/ op'.step = "compose" /\ op'.env = env /\ op'.clients = clients'
               \/ op'.step = "save" /\ op'.env = Rollback /\ op'.clients = op.clients
      BY <1>7, <2>4, RegisterClientDoes
    <3>2. /\ clients'[op.app] = env[op.app]["oidc"]
          /\ \A a \in Apps \ {op.app} : clients'[a] = op.clients[a]
      BY <1>0, <3>1 DEF Operation
    <3>3. op.env[op.app]["oidc"] # None => env = op.env
      BY <1>0, GeneratedType
    <3>4. \A a \in Apps : inst'[a] # None /\ envFile'[a]["oidc"] # None =>
                            clients'[a] = envFile'[a]["oidc"]
      BY <2>0, <2>1, <2>2, <2>3, <3>2, <3>3
    <3>5. \A a \in Apps \ {op.app} :
            inst'[a] # None /\ envFile'[a]["oidc"] # None => op'.clients[a] = envFile'[a]["oidc"]
      BY <1>3, <2>0, <3>1, <3>2
    <3>6. op'.step = "compose" => /\ clients'[op.app] = op'.env[op.app]["oidc"]
                                  /\ op'.clients[op.app] = op'.env[op.app]["oidc"]
      BY <3>1, <3>2
    <3>7. op.kind = "update" /\ op'.step = "save" /\ op'.env[op.app]["oidc"] # None =>
            clients'[op.app] = op'.env[op.app]["oidc"]
      BY <1>0, <3>1, <3>2, <3>3, RollbackType
    <3> QED  BY <2>0, <3>4, <3>5, <3>6, <3>7 DEF ClientInv, Live, Registered
  <2>5. CASE ~HasLogin(op.app, cached[op.app])
    <3>1. op.env[op.app]["oidc"] = None
      BY <1>0, <2>5 DEF NeedsInv
    <3>2. clients' \in {clients, op.clients} /\ op'.clients = op.clients
          /\ op'.env \in {op.env, Rollback}
      BY <1>7, <2>5, RegisterClientDoes
    <3>3. op'.env[op.app]["oidc"] = None
      BY <1>0, <3>1, <3>2, RollbackType
    <3>4. \A a \in Apps : inst'[a] # None /\ envFile'[a]["oidc"] # None =>
                            clients'[a] = envFile'[a]["oidc"]
      BY <2>0, <2>1, <2>2, <2>3, <3>1, <3>2
    <3>5. \A a \in Apps \ {op.app} :
            inst'[a] # None /\ envFile'[a]["oidc"] # None => op'.clients[a] = envFile'[a]["oidc"]
      BY <1>3, <2>0, <3>2
    <3> QED  BY <2>0, <3>3, <3>4, <3>5 DEF ClientInv, Live
  <2> QED  BY <2>4, <2>5
<1>8. CASE UnregisterClient
  <2>1. op.kind = "remove" /\ UNCHANGED <<inst, envFile>> /\ clients' = clients
    BY <1>0, <1>8 DEF UnregisterClient, LoadedInv
  <2> QED  BY <1>0, <1>5, <1>8, <2>1, GoType DEF UnregisterClient
<1>9. CASE Regenerate
  <2>1. op' = NoOp \/ Go("env") \/ Go("wipe")
    BY <1>9 DEF Regenerate
  <2>2. op.step = "compose" /\ UNCHANGED <<clients, envFile, inst>> /\ ~op.ok
    BY <1>0, <1>9 DEF Regenerate
  <2> QED  BY <1>0, <1>5, <2>1, <2>2, GoType
<1>10. CASE SaveBeforeUp
  <2>1. /\ op'.app = op.app /\ op'.kind = op.kind /\ op'.env = op.env /\ op'.ok = op.ok
        /\ op'.clients = op.clients
        /\ envFile' = op.env /\ UNCHANGED <<clients, inst>> /\ op.step = "env"
    BY <1>0, <1>10, GoType DEF SaveBeforeUp
  <2> QED  BY <1>0, <1>5, <2>1
<1>11. CASE Up
  <2>1. op.step = "up" /\ UNCHANGED <<clients, envFile, inst>> /\ op.kind # "remove"
        /\ op.env[op.app] = envFile[op.app] /\ ~op.ok
    BY <1>0, <1>11 DEF Up, LoadedInv
  <2>2. CASE Fail
    BY <1>0, <1>5, <2>1, <2>2, FailType, RollbackType
  <2>3. CASE op' = [op EXCEPT !.step = "save", !.ok = TRUE]
    <3>1. op'.app = op.app /\ op'.kind = op.kind /\ op'.env = op.env /\ op'.clients = op.clients
      BY <1>0, <2>3 DEF Operation
    <3> QED  BY <1>0, <1>5, <2>1, <3>1
  <2> QED  BY <1>11, <2>2, <2>3 DEF Up
<1>12. CASE Wipe
  <2>1. /\ op'.kind = op.kind /\ op'.app = op.app /\ op'.env = op.env /\ op'.clients = op.clients
        /\ op.kind = "remove" /\ UNCHANGED <<inst, envFile, clients>>
    BY <1>0, <1>12 DEF Wipe, Operation, TInv, OpInv, FirstSteps
  <2> QED  BY <1>0, <1>5, <2>1
<1>13. CASE StepFails
  BY <1>0, <1>5, <1>13, FailType, RollbackType DEF StepFails
<1>14. CASE SaveEnv
  <2>1. /\ op'.app = op.app /\ op'.kind = op.kind /\ op'.env = op.env /\ op'.ok = op.ok
        /\ op'.clients = op.clients
        /\ op'.step = "commit" /\ envFile' \in {envFile, op.env} /\ UNCHANGED <<clients, inst>>
        /\ op.step = "save"
    BY <1>0, <1>14, GoType DEF SaveEnv
  <2>2. op.kind = "install" /\ op'.ok => envFile'[op.app] = op'.env[op.app]
    BY <1>0, <2>1 DEF LoadedInv
  <2> QED  BY <1>0, <1>5, <2>1, <2>2
<1>15. CASE Commit
  <2>1. UNCHANGED <<clients, envFile>> /\ \A a \in Apps \ {op.app} : inst'[a] = inst[a]
    BY <1>15 DEF Commit, TInv, TypeOK
  <2>2. \A a \in Apps : inst'[a] # None /\ envFile[a]["oidc"] # None => clients[a] = envFile[a]["oidc"]
    BY <1>15, <2>1, CommitEnters DEF ClientInv, Live
  <2>3. op' = NoOp \/ (op.ok /\ op'.app = op.app /\ op'.kind = op.kind /\ op'.env = op.env
                        /\ op'.clients = op.clients /\ op'.step = "dex" /\ op.kind # "remove")
    BY <1>0, <1>15, GoType DEF Commit
  <2>4. CASE op' = NoOp
    BY <2>1, <2>2, <2>4, NoOpType DEF ClientInv, Live
  <2>5. CASE op.ok /\ op'.app = op.app /\ op'.kind = op.kind /\ op'.env = op.env
             /\ op'.clients = op.clients /\ op'.step = "dex" /\ op.kind # "remove"
    <3>1. op.env[op.app] = envFile[op.app]
      BY <1>0, <2>5 DEF LoadedInv
    <3> QED  BY <1>3, <1>4, <2>1, <2>2, <2>5, <3>1 DEF ClientInv, Live, Registered
  <2> QED  BY <2>3, <2>4, <2>5
<1>16. CASE SaveDex
  <2>1. op.step = "dex" /\ op' = NoOp /\ clients' \in {op.clients, clients} /\ UNCHANGED <<inst, envFile>>
    BY <1>16 DEF SaveDex
  <2>2. op.ok /\ op.kind # "remove" /\ op.env[op.app] = envFile[op.app]
    BY <1>0, <2>1 DEF LoadedInv
  <2>3. \A a \in Apps : inst'[a] # None /\ envFile'[a]["oidc"] # None => clients'[a] = envFile'[a]["oidc"]
    BY <1>1, <1>3, <1>4, <2>1, <2>2
  <2> QED  BY <2>1, <2>3, NoOpType DEF ClientInv, Live
<1> QED
  BY <1>6, <1>7, <1>8, <1>9, <1>10, <1>11, <1>12, <1>13, <1>14, <1>15, <1>16 DEF Step

LEMMA ClientNext ==
  TInv /\ NeedsInv /\ NeedsInv' /\ LoadedInv /\ ClientInv /\ [Next]_vars => ClientInv'
<1> SUFFICES ASSUME TInv, NeedsInv, NeedsInv', LoadedInv, ClientInv, [Next]_vars PROVE ClientInv'
  OBVIOUS
<1>0. SecretsOnly(envFile)
  BY DEF TInv, EnvInv
<1>1. \A a \in Apps : inst[a] # None /\ envFile[a]["oidc"] # None => clients[a] = envFile[a]["oidc"]
  BY DEF ClientInv, Live
<1>2. ASSUME UNCHANGED envFile, NEW a \in Apps, inst[a] # None, envFile[a]["oidc"] # None
      PROVE  DexClients(cached')[a] = envFile[a]["oidc"]
  <2>1. HasLogin(a, cached'[a])
    BY <1>2 DEF NeedsInv, HasLogin
  <2> QED  BY <1>0, <1>2, <2>1, DexClientsType
<1>3. ASSUME NEW a \in Apps, Install(a) PROVE ClientInv'
  <2>1. UNCHANGED <<envFile, inst, clients>>
    BY <1>3 DEF Install
  <2>2. ~op'.ok /\ op'.step = "db" /\ op'.kind = "install" /\ op'.app = a
        /\ op'.clients = DexClients(cached')
    BY <1>3, InstallBegins
  <2> QED  BY <1>1, <1>2, <2>1, <2>2 DEF ClientInv, Live, Registered
<1>4. ASSUME NEW a \in Apps, Update(a) PROVE ClientInv'
  <2>1. UNCHANGED <<envFile, inst, clients>> /\ inst[a] # None
    BY <1>4 DEF Update
  <2>2. ~op'.ok /\ op'.step = "client" /\ op'.kind = "update" /\ op'.app = a
        /\ op'.clients = DexClients(cached') /\ op'.env[a]["oidc"] = envFile[a]["oidc"]
    BY <1>4, UpdateBegins
  <2> QED  BY <1>1, <1>2, <2>1, <2>2 DEF ClientInv, Live, Registered
<1>5. ASSUME NEW a \in Apps, Remove(a) PROVE ClientInv'
  <2>1. UNCHANGED <<envFile, inst, clients, cached>>
    BY <1>5 DEF Remove
  <2>2. ~op'.ok /\ op'.step = "client" /\ op'.kind = "remove" /\ op'.app = a
        /\ op'.clients = [DexClients(cached') EXCEPT ![a] = None]
    BY <1>5, <2>1, RemoveBegins
  <2>3. DexClients(cached') \in [Apps -> Secrets]
    BY <1>0, DexClientsType
  <2>4. \A b \in Apps \ {a} : op'.clients[b] = DexClients(cached')[b]
    BY <2>2, <2>3
  <2> QED  BY <1>1, <1>2, <2>1, <2>2, <2>4 DEF ClientInv, Live, Registered
<1>6. ASSUME UNCHANGED <<op, envFile, inst, clients>> PROVE ClientInv'
  BY <1>6 DEF ClientInv, Live, Registered
<1>7. ASSUME NEW a \in Apps, Start(a) \/ Stop(a) \/ PublishVersion(a) \/ FetchDefinition(a)
      PROVE  ClientInv'
  BY <1>6, <1>7 DEF Start, Stop, PublishVersion, FetchDefinition
<1>8. CASE RewriteDexConfig
  <2>1. op' = NoOp /\ UNCHANGED <<cached, envFile, inst>> /\ clients' = DexClients(cached')
    BY <1>8 DEF RewriteDexConfig, Idle
  <2> QED  BY <1>2, <2>1, NoOpType DEF ClientInv, Live
<1>9. CASE Crash
  BY <1>1, <1>9, NoOpType DEF Crash, ClientInv, Live
<1>10. CASE UNCHANGED vars
  BY <1>6, <1>10 DEF vars
<1> QED
  BY <1>3, <1>4, <1>5, <1>7, <1>8, <1>9, <1>10, ClientStep DEF Next, Request

-----------------------------------------------------------------------------
\* Containers.
\* Where the process dies, no app depends on another, so that no removal is
\* refused by docker compose.
Separate == "crash" \in faults => \A a \in Apps : DependsOn[a] = {}

\* A step of an install or an update that changes neither files nor containers.
LEMMA ContainerFrame ==
  ASSUME ContainerInv, op.kind # "remove", UNCHANGED <<ctr, compose, envFile, inst>>,
         op'.kind = op.kind, op'.app = op.app, op'.ok = op.ok
  PROVE  ContainerInv'
<1>1. Live' = Live
  BY DEF Live
<1> QED  BY <1>1 DEF ContainerInv, RunsOnEnv, NoneWithoutService, LeftBehind

\* .env is written, or could not be.
LEMMA ContainerEnv ==
  ASSUME TInv, LoadedInv, ContainerInv, op # NoOp,
         UNCHANGED <<faults, ctr, compose, inst, role, clients>>, envFile' \in {envFile, op.env},
         op'.kind = op.kind, op'.app = op.app, op'.ok = op.ok,
         op.kind = "remove" => op.step = "save" /\ op'.step = "commit"
  PROVE  ContainerInv'
<1>1. Live' = Live
  BY DEF Live
<1>2. NoneWithoutService' /\ LeftBehind'
  BY <1>1 DEF ContainerInv, NoneWithoutService, LeftBehind
<1>3. ASSUME NEW a \in Live, ctr[a] # None, ~(op.kind = "remove" /\ a = op.app),
             NEW k \in {"db", "oidc"}, ctr[a].keys[k] # None
      PROVE  envFile'[a][k] = ctr[a].keys[k]
  <2>1. a \in Apps /\ envFile[a][k] = ctr[a].keys[k]
    BY <1>3 DEF ContainerInv, RunsOnEnv, Live
  <2>2. CASE a # op.app
    BY <2>1, <2>2 DEF LoadedInv
  <2>3. CASE a = op.app /\ op.kind = "install"
    <3>1. op.ok
      BY <1>3, <2>3 DEF LoadedInv, Live
    <3> QED  BY <2>1, <2>3, <3>1 DEF LoadedInv
  <2>4. CASE a = op.app /\ op.kind = "update"
    BY <1>3, <2>1, <2>4 DEF LoadedInv
  <2> QED  BY <1>3, <2>2, <2>3, <2>4 DEF TInv, OpInv
<1>4. RunsOnEnv'
  BY <1>1, <1>3 DEF RunsOnEnv
<1> QED  BY <1>2, <1>4 DEF ContainerInv

\* `up` gives its containers what is in .env.
LEMMA ContainerUp ==
  ASSUME TInv, ContainerInv, NEW x \in Apps, CanUp(x), ctr' = AfterUp(x),
         UNCHANGED <<envFile, compose, inst>>, op.kind # "remove", op'.kind # "remove",
         Live' \subseteq Live \cup {x}
  PROVE  ContainerInv'
<1>1. \A a \in Upped(x) : a \in Apps /\ compose[a] # None
  BY DependsAssumption DEF Upped, CanUp, Valid
<1>2. \A a \in Apps : ctr'[a] = IF a \in Upped(x) THEN NewContainer(a) ELSE ctr[a]
  BY AfterUpType DEF TInv
<1>3. x \in Upped(x) /\ Live' \subseteq Apps
  BY DEF Upped, Live
<1>4. ASSUME NEW a \in Live', ctr'[a] # None, NEW k \in {"db", "oidc"}, ctr'[a].keys[k] # None
      PROVE  envFile'[a][k] = ctr'[a].keys[k]
  <2>1. CASE a \in Upped(x)
    <3>1. ctr'[a].keys = [l \in Kinds |-> IF l \in Uses(a, compose[a]) THEN envFile[a][l] ELSE None]
      <4>1. ctr'[a] = NewContainer(a)
        BY <1>2, <1>3, <2>1
      <4> QED  BY <4>1 DEF NewContainer
    <3>2. ctr'[a].keys[k] = IF k \in Uses(a, compose[a]) THEN envFile[a][k] ELSE None
      BY <3>1 DEF Kinds
    <3> QED  BY <1>4, <3>2
  <2>2. CASE a \notin Upped(x)
    <3>1. a \in Live /\ ctr'[a] = ctr[a]
      BY <1>2, <1>3, <2>2
    <3> QED  BY <1>4, <3>1 DEF ContainerInv, RunsOnEnv
  <2> QED  BY <2>1, <2>2
<1>5. RunsOnEnv'
  BY <1>4 DEF RunsOnEnv
<1>6. ASSUME NEW a \in Live', compose'[a] = None
      PROVE  ctr'[a] = None
  <2>1. a \notin Upped(x) /\ a \in Live /\ ctr'[a] = ctr[a]
    BY <1>1, <1>2, <1>3, <1>6
  <2> QED  BY <1>6, <2>1 DEF ContainerInv, NoneWithoutService
<1> QED  BY <1>5, <1>6 DEF ContainerInv, NoneWithoutService, LeftBehind

LEMMA ContainerStep == TInv /\ LoadedInv /\ ContainerInv /\ Step => ContainerInv'
<1> SUFFICES ASSUME TInv, LoadedInv, ContainerInv, Step PROVE ContainerInv'
  OBVIOUS
<1>0. op # NoOp /\ op \in Operation /\ op.app \in Apps
      /\ op.kind \in {"install", "update", "remove"}
      /\ (op.ok => op.step \in {"save", "commit", "dex"})
      /\ (op.kind = "remove" => op.step \in {"client", "compose", "wipe", "save", "commit"})
      /\ UNCHANGED faults
  BY StepFrame DEF TInv, TypeOK, OpInv
<1>1. CASE SetupAppDB
  BY <1>1, SetupAppDBDoes, ContainerFrame
<1>2. CASE RegisterClient
  BY <1>2, RegisterClientDoes, ContainerFrame
<1>3. CASE UnregisterClient
  <2>1. /\ op.kind = "remove" /\ op.step = "client" /\ op'.kind = op.kind /\ op'.app = op.app
        /\ op'.step = "compose" /\ UNCHANGED <<role, clients, ctr, compose, envFile, inst>>
    BY <1>0, <1>3, GoType DEF UnregisterClient, LoadedInv
  <2>2. Live' = Live
    BY <2>1 DEF Live
  <2> QED  BY <1>0, <2>1, <2>2 DEF ContainerInv, RunsOnEnv, NoneWithoutService, LeftBehind
<1>4. CASE Regenerate
  <2>1. op.step = "compose" /\ UNCHANGED <<role, clients, ctr, envFile, inst>>
    BY <1>4 DEF Regenerate
  <2>2. CASE op' = NoOp /\ UNCHANGED compose
    <3>1. Live' \subseteq Live
      BY <2>1, <2>2, NoOpType DEF Live
    <3> QED  BY <2>1, <2>2, <3>1, NoOpType
             DEF ContainerInv, RunsOnEnv, NoneWithoutService, LeftBehind
  <2>3. CASE compose' = Services /\ Go(IF op.kind = "remove" THEN "wipe" ELSE "env")
    <3>1. /\ op'.kind = op.kind /\ op'.app = op.app /\ op'.ok = op.ok
          /\ op'.step = IF op.kind = "remove" THEN "wipe" ELSE "env"
      BY <1>0, <2>3, GoType
    <3>2. Live' = Live
      BY <2>1, <3>1 DEF Live
    <3>3. \A a \in Live : ~(op.kind = "remove" /\ a = op.app) => compose'[a] # None
      BY <1>0, <2>3 DEF Live, Services, TInv, CachedInv, OpInv
    <3> QED  BY <1>0, <2>1, <3>1, <3>2, <3>3
             DEF ContainerInv, RunsOnEnv, NoneWithoutService, LeftBehind
  <2> QED  BY <1>4, <2>2, <2>3 DEF Regenerate
<1>5. CASE SaveBeforeUp
  BY <1>0, <1>5, GoType, ContainerEnv DEF SaveBeforeUp
<1>6. CASE Up
  <2>1. op.step = "up" /\ op.kind # "remove" /\ ~op.ok /\ UNCHANGED <<compose, envFile, inst>>
    BY <1>0, <1>6 DEF Up
  <2>2. CASE UNCHANGED ctr /\ Fail
    BY <1>0, <2>1, <2>2, FailType, ContainerFrame
  <2>3. CASE CanUp(op.app) /\ ctr' = AfterUp(op.app)
    <3>1. op'.kind = op.kind /\ op'.app = op.app
      <4>1. Fail \/ op' = [op EXCEPT !.step = "save", !.ok = TRUE]
        BY <1>6, <2>3 DEF Up
      <4> QED  BY <1>0, <4>1, FailType DEF Operation
    <3>2. Live' \subseteq Live \cup {op.app}
      BY <2>1, <3>1 DEF Live
    <3> QED  BY <1>0, <2>1, <2>3, <3>1, <3>2, ContainerUp
  <2> QED  BY <1>6, <2>2, <2>3 DEF Up
<1>7. CASE Wipe
  <2>1. /\ op.step = "wipe" /\ op'.kind = op.kind /\ op'.app = op.app /\ op'.step = "save"
        /\ op.kind = "remove" /\ UNCHANGED <<clients, ctr, compose, envFile, inst>>
        /\ role'[op.app] \in {role[op.app], None}
    BY <1>0, <1>7 DEF Wipe, Operation, TInv, TypeOK, OpInv, FirstSteps
  <2>2. Live' = Live
    BY <2>1 DEF Live
  <2> QED  BY <1>0, <2>1, <2>2 DEF ContainerInv, RunsOnEnv, NoneWithoutService, LeftBehind
<1>8. CASE StepFails
  BY <1>0, <1>8, FailType, ContainerFrame DEF StepFails
<1>9. CASE SaveEnv
  BY <1>0, <1>9, GoType, ContainerEnv DEF SaveEnv
<1>10. CASE Commit
  <2>1. UNCHANGED <<ctr, compose, envFile>> /\ \A a \in Apps \ {op.app} : inst'[a] = inst[a]
    BY <1>10 DEF Commit, TInv, TypeOK
  <2>2. op'.kind # "remove"
        /\ (op' = NoOp \/ (op.ok /\ op'.app = op.app /\ op'.kind = op.kind /\ op.kind # "remove"))
    BY <1>0, <1>10, GoType, NoOpType DEF Commit
  <2>3. op.kind = "remove" => inst'[op.app] = None /\ op' = NoOp
    BY <1>0, <1>10 DEF Commit, TInv, TypeOK
  <2>4. \A a \in Live' : a \in Live /\ ~(op.kind = "remove" /\ a = op.app)
    <3> SUFFICES ASSUME NEW a \in Live' PROVE a \in Live /\ ~(op.kind = "remove" /\ a = op.app)
      OBVIOUS
    <3>1. a \in Apps /\ (inst'[a] # None \/ (op'.kind = "install" /\ op'.ok /\ a = op'.app))
      BY DEF Live
    <3>2. CASE a # op.app
      BY <2>1, <2>2, <3>1, <3>2, NoOpType DEF Live
    <3>3. CASE a = op.app /\ inst'[a] # None
      BY <1>0, <1>10, <2>3, <3>3, CommitEnters DEF Live
    <3>4. CASE a = op.app /\ inst'[a] = None
      BY <1>0, <2>2, <3>1, <3>4, NoOpType DEF Live
    <3> QED  BY <3>2, <3>3, <3>4
  <2> QED  BY <2>1, <2>2, <2>4 DEF ContainerInv, RunsOnEnv, NoneWithoutService, LeftBehind
<1>11. CASE SaveDex
  <2>1. op.step = "dex" /\ op' = NoOp /\ UNCHANGED <<ctr, compose, envFile, inst>>
        /\ op.kind # "remove"
    BY <1>0, <1>11 DEF SaveDex
  <2>2. Live' \subseteq Live
    BY <2>1, NoOpType DEF Live
  <2> QED  BY <2>1, <2>2, NoOpType DEF ContainerInv, RunsOnEnv, NoneWithoutService, LeftBehind
<1> QED
  BY <1>1, <1>2, <1>3, <1>4, <1>5, <1>6, <1>7, <1>8, <1>9, <1>10, <1>11 DEF Step

LEMMA ContainerNext ==
  TInv /\ Separate /\ LoadedInv /\ ClientInv /\ RoleInv /\ ContainerInv /\ [Next]_vars
    => ContainerInv'
<1> SUFFICES ASSUME TInv, Separate, LoadedInv, ClientInv, RoleInv, ContainerInv, [Next]_vars
             PROVE  ContainerInv'
  OBVIOUS
<1> USE DEF ContainerInv, RunsOnEnv, NoneWithoutService, LeftBehind
<1>1. ASSUME op = NoOp, UNCHANGED <<inst, envFile, compose>>, op'.kind # "remove", ~op'.ok,
             UNCHANGED ctr
      PROVE  ContainerInv'
  <2>1. Live' \subseteq Live
    BY <1>1 DEF Live
  <2> QED  BY <1>1, <2>1, NoOpType
<1>2. ASSUME NEW a \in Apps, Install(a) PROVE ContainerInv'
  BY <1>1, <1>2, InstallBegins DEF Install
<1>3. ASSUME NEW a \in Apps, Update(a) PROVE ContainerInv'
  BY <1>1, <1>3, UpdateBegins DEF Update
<1>4. ASSUME NEW a \in Apps, Remove(a) PROVE ContainerInv'
  <2>1. /\ op = NoOp /\ op'.kind = "remove" /\ op'.step = "client" /\ op'.app = a
        /\ UNCHANGED <<faults, inst, envFile, compose, role, clients>> /\ inst[a] # None
    BY <1>4, RemoveBegins DEF Remove
  <2>2. /\ \A b \in Apps : ctr'[b] \in {ctr[b], None}
        /\ ctr'[a] # None => ctr'[a] = ctr[a] /\ ~(Valid /\ compose[a] # None)
    BY <1>4 DEF Remove, TInv, TypeOK
  <2>3. Live' = Live /\ a \in Live
    BY <2>1, NoOpType DEF Live
  <2>4. ASSUME ctr'[a] # None PROVE "crash" \notin faults
    <3>1. compose[a] # None
      BY <2>1, <2>2, <2>3, <2>4, NoOpType
    <3>2. \E b \in Apps : DependsOn[b] # {}
      BY <2>2, <2>4, <3>1 DEF Valid
    <3> QED  BY <3>2 DEF Separate
  <2>5. ASSUME ctr'[a] # None
        PROVE  /\ ctr[a].keys["db"] # None => role[a] \in {ctr[a].keys["db"], None}
               /\ ctr[a].keys["oidc"] # None => clients[a] = ctr[a].keys["oidc"]
    <3>1. \A k \in {"db", "oidc"} : ctr[a].keys[k] # None => envFile[a][k] = ctr[a].keys[k]
      BY <2>1, <2>2, <2>3, <2>5, NoOpType
    <3> QED  BY <2>3, <3>1 DEF RoleInv, ClientInv
  <2>6. RunsOnEnv' /\ NoneWithoutService'
    BY <2>1, <2>2, <2>3, NoOpType DEF Live
  <2>7. LeftBehind'
    BY <2>1, <2>2, <2>4, <2>5
  <2> QED  BY <2>6, <2>7
<1>5. ASSUME NEW a \in Apps, Start(a) PROVE ContainerInv'
  <2>1. op = NoOp /\ op' = op /\ UNCHANGED <<envFile, compose, inst>> /\ CanUp(a) /\ ctr' = AfterUp(a)
    BY <1>5 DEF Start, Idle
  <2>2. Live' = Live
    BY <2>1 DEF Live
  <2> QED  BY <2>1, <2>2, NoOpType, ContainerUp
<1>6. ASSUME NEW a \in Apps, Stop(a) PROVE ContainerInv'
  <2>1. op = NoOp /\ op' = op /\ UNCHANGED <<envFile, compose, inst>> /\ ctr[a] # None
        /\ ctr' = [ctr EXCEPT ![a].run = FALSE]
    BY <1>6 DEF Stop, Idle
  <2>2. Live' = Live
    BY <2>1 DEF Live
  <2>3. ctr[a] \in Container /\ ctr \in [Apps -> Container \cup {None}]
    BY <2>1 DEF TInv, TypeOK
  <2>4. /\ \A b \in Apps \ {a} : ctr'[b] = ctr[b]
        /\ ctr'[a].keys = ctr[a].keys
    BY <2>1, <2>3 DEF Container
  <2>5. ASSUME NEW b \in Live, ctr'[b] # None, NEW k \in {"db", "oidc"}, ctr'[b].keys[k] # None
        PROVE  envFile[b][k] = ctr'[b].keys[k]
    <3>1. ctr[b] # None /\ ctr'[b].keys = ctr[b].keys
      BY <2>1, <2>4, <2>5 DEF Live
    <3> QED  BY <2>1, <2>5, <3>1, NoOpType
  <2>6. ASSUME NEW b \in Live, compose[b] = None PROVE ctr'[b] = None
    <3>1. ctr[b] = None
      BY <2>1, <2>6, NoOpType
    <3> QED  BY <2>1, <2>4, <3>1 DEF Live
  <2> QED  BY <2>1, <2>2, <2>5, <2>6, NoOpType
<1>7. ASSUME NEW a \in Apps, PublishVersion(a) \/ FetchDefinition(a) PROVE ContainerInv'
  BY <1>1, <1>7, NoOpType DEF PublishVersion, FetchDefinition, Idle
<1>8. CASE RewriteDexConfig
  BY <1>1, <1>8, NoOpType DEF RewriteDexConfig, Idle
<1>9. CASE Crash
  <2>1. op' = NoOp /\ UNCHANGED <<envFile, compose, inst, ctr>> /\ "crash" \in faults
    BY <1>9 DEF Crash
  <2>2. Live' \subseteq Live
    BY <2>1, NoOpType DEF Live
  <2>3. op.kind = "remove" => ctr[op.app] = None
    BY <2>1
  <2> QED  BY <2>1, <2>2, <2>3, NoOpType
<1>10. CASE UNCHANGED vars
  <2>1. Live' = Live
    BY <1>10 DEF Live, vars
  <2> QED  BY <1>10, <2>1 DEF vars
<1> QED
  BY <1>2, <1>3, <1>4, <1>5, <1>6, <1>7, <1>8, <1>9, <1>10, ContainerStep DEF Next, Request

\* A password of a database and the secret of a login agree wherever they are:
\* a container of an installed app has the ones that Postgres and Dex accept,
\* whichever step fails (install.go:60-300), whether or not .env can be written
\* (handlers_apps.go:593-700), and wherever the process dies.  Proved where
\* nobody installs an app again that is installed, and where the process does not
\* die if apps depend on each other: docker compose may then refuse a removal.
THEOREM SecretsStayInStep ==
  ASSUME \A f \in Faults : /\ "again" \notin f
                           /\ "crash" \in f => \A a \in Apps : DependsOn[a] = {}
  PROVE  Spec => []SecretsAgree
<1>1. Init => SecretsInv
  <2> SUFFICES ASSUME Init PROVE SecretsInv
    OBVIOUS
  <2>1. \A a \in Apps : envFile[a]["db"] = None /\ envFile[a]["oidc"] = None
    <3>1. NoKeys["db"] = None /\ NoKeys["oidc"] = None
      BY DEF NoKeys, Kinds
    <3>2. \A a \in Apps : envFile[a] = NoKeys
      BY DEF Init
    <3> QED  BY <3>1, <3>2
  <2>2. /\ op = NoOp /\ \A a \in Apps : cached[a] = None /\ inst[a] = None
    BY DEF Init
  <2>3. Live = {}
    BY <2>2, NoOpType DEF Live
  <2> QED  BY <2>1, <2>2, <2>3, NoOpType DEF SecretsInv, NeedsInv, LoadedInv, ClientInv, RoleInv,
              ContainerInv, RunsOnEnv, NoneWithoutService, LeftBehind
<1>2. TInv => Fresh /\ Separate
  BY DEF TInv, TypeOK, Fresh, Separate
<1>3. TInv /\ TInv' /\ SecretsInv /\ [Next]_vars => SecretsInv'
  BY <1>2, NeedsNext, LoadedNext, RoleNext, ClientNext, ContainerNext DEF SecretsInv
<1>4. SecretsInv => SecretsAgree
  <2> SUFFICES ASSUME SecretsInv, NEW a \in Installed, ctr[a] # None
               PROVE  /\ ctr[a].keys["db"] # None => role[a] \in {ctr[a].keys["db"], None}
                      /\ ctr[a].keys["oidc"] # None => clients[a] = ctr[a].keys["oidc"]
    BY DEF SecretsAgree
  <2>1. CASE op.kind = "remove" /\ a = op.app
    BY <2>1 DEF SecretsInv, ContainerInv, LeftBehind
  <2>2. CASE ~(op.kind = "remove" /\ a = op.app)
    <3>1. a \in Live
      BY DEF Live, Installed
    <3>2. \A k \in {"db", "oidc"} : ctr[a].keys[k] # None => envFile[a][k] = ctr[a].keys[k]
      BY <2>2, <3>1 DEF SecretsInv, ContainerInv, RunsOnEnv
    <3> QED  BY <3>1, <3>2 DEF SecretsInv, RoleInv, ClientInv
  <2> QED  BY <2>1, <2>2
<1> QED  BY <1>1, <1>3, <1>4, TypesInvariant, PTL DEF Spec

-----------------------------------------------------------------------------
\* What an install leaves behind.

\* What an install has come past, so long as no step has failed.
Begun    == op.ok \/ op.step \in {"db", "client", "compose", "env", "up"}
DbDone   == op.ok \/ op.step \in {"client", "compose", "env", "up"}
Client   == op.ok \/ op.step \in {"compose", "env", "up"}
Listed   == op.ok \/ op.step \in {"env", "up"}
Saved    == op.ok \/ op.step = "up"

\* Each step of an install has done its part whatever it found, and no later one
\* undoes it: what the definition refers to is in the loaded .env, Postgres and
\* Dex know it, the compose file lists the app, and .env and the container follow.
HealInv ==
  op.kind = "install" =>
    LET env == op.env[op.app]
        v   == cached[op.app]
    IN
    /\ Begun => \A k \in {"secret", "prompt", "address"} : env[k] # None
    /\ DbDone /\ NeedsDb(op.app, v) => env["db"] # None /\ role[op.app] = env["db"]
    /\ Client /\ HasLogin(op.app, v) => env["oidc"] # None /\ clients[op.app] = env["oidc"]
    /\ Listed => compose[op.app] = v
    /\ Saved => envFile[op.app] = env
    /\ op.ok =>
         /\ ctr[op.app] # None
         /\ ctr[op.app].keys =
              [k \in Kinds |-> IF k \in Uses(op.app, v) THEN envFile[op.app][k] ELSE None]

\* The step an install takes is its own, and it stays with its app and definition.
LEMMA HealSteps ==
  ASSUME TInv, Step, op'.kind = "install"
  PROVE  /\ op.kind = "install" /\ op'.app = op.app /\ op.app \in Apps /\ op \in Operation
         /\ cached' = cached /\ cached[op.app] \in Versions
         /\ op.step \in FirstSteps \cup {"db"}
         /\ op.ok => op.step \in {"save", "commit", "dex"}
<1>1. op' # NoOp
  BY NoOpType
<1>2. op # NoOp /\ op.kind = "install" /\ op'.app = op.app /\ op.app \in Apps /\ cached' = cached
  BY <1>1, StepFrame
<1> QED  BY <1>2 DEF TInv, TypeOK, OpInv

LEMMA HealStep == TInv /\ HealInv /\ Step => HealInv'
<1> SUFFICES ASSUME TInv, HealInv, Step, op'.kind = "install" PROVE HealInv'
  BY DEF HealInv
<1> USE DEF Begun, DbDone, Client, Listed, Saved
<1>0. /\ op.kind = "install" /\ op'.app = op.app /\ op.app \in Apps /\ op \in Operation
      /\ cached' = cached /\ cached[op.app] \in Versions
      /\ op.step \in FirstSteps \cup {"db"}
      /\ op.ok => op.step \in {"save", "commit", "dex"}
  BY HealSteps
<1>1. ASSUME ~op'.ok, op'.step \notin {"db", "client", "compose", "env", "up"}
      PROVE  HealInv'
  BY <1>1 DEF HealInv
<1>2. CASE SetupAppDB
  <2>1. op.step = "db" /\ ~op.ok /\ op'.ok = op.ok
    BY <1>2, SetupAppDBDoes
  <2>2. CASE /\ op'.step = "client" /\ NeedsDb(op.app, cached[op.app])
             /\ op'.env \in Generated("db", {role[op.app], CtrValue(op.app, "db")})
             /\ role'[op.app] = op'.env[op.app]["db"]
    <3>1. "db" \in Kinds /\ {"secret", "prompt", "address"} \subseteq Kinds \ {"db"}
      BY DEF Kinds
    <3>2. /\ op'.env[op.app]["db"] # None
          /\ \A k \in {"secret", "prompt", "address"} : op'.env[op.app][k] = op.env[op.app][k]
      BY <1>0, <2>2, <3>1, GeneratedType
    <3> QED  BY <1>0, <2>1, <2>2, <3>2 DEF HealInv
  <2>3. CASE /\ op'.step = "client" /\ ~NeedsDb(op.app, cached[op.app])
             /\ op'.env = op.env /\ role' = role
    BY <1>0, <2>1, <2>3 DEF HealInv
  <2>4. CASE op'.step = "save" /\ op'.env = Rollback
    BY <1>1, <2>1, <2>4
  <2> QED  BY <1>2, <2>2, <2>3, <2>4, SetupAppDBDoes
<1>3. CASE RegisterClient
  <2>1. op.step = "client" /\ ~op.ok /\ op'.ok = op.ok /\ UNCHANGED <<role, compose, ctr, envFile>>
    BY <1>3, RegisterClientDoes
  <2>2. CASE /\ HasLogin(op.app, cached[op.app])
             /\ op'.step = "compose"
             /\ op'.env \in Generated("oidc", {clients[op.app], CtrValue(op.app, "oidc")})
             /\ clients' = [op.clients EXCEPT ![op.app] = op'.env[op.app]["oidc"]]
    <3>1. "oidc" \in Kinds /\ {"secret", "prompt", "address", "db"} \subseteq Kinds \ {"oidc"}
      BY DEF Kinds
    <3>2. /\ op'.env[op.app]["oidc"] # None
          /\ \A k \in {"secret", "prompt", "address", "db"} : op'.env[op.app][k] = op.env[op.app][k]
      BY <1>0, <2>2, <3>1, GeneratedType
    <3>3. clients'[op.app] = op'.env[op.app]["oidc"]
      BY <1>0, <2>2 DEF Operation
    <3> QED  BY <1>0, <2>1, <2>2, <3>2, <3>3 DEF HealInv
  <2>3. CASE op'.step = "compose" /\ op'.env = op.env /\ ~HasLogin(op.app, cached[op.app])
    BY <1>0, <2>1, <2>3 DEF HealInv
  <2>4. CASE op'.step = "save"
    BY <1>1, <2>1, <2>4
  <2> QED  BY <1>3, <2>2, <2>3, <2>4, RegisterClientDoes
<1>4. CASE Regenerate
  <2>1. /\ op.step = "compose" /\ ~op.ok /\ compose' = Services
        /\ op'.step = "env" /\ op'.env = op.env /\ op'.ok = op.ok
        /\ UNCHANGED <<role, clients, ctr, envFile>>
    BY <1>0, <1>4, GoType DEF Regenerate
  <2>2. compose'[op.app] = cached[op.app]
    BY <1>0, <2>1 DEF Services
  <2> QED  BY <1>0, <2>1, <2>2 DEF HealInv
<1>5. CASE SaveBeforeUp
  <2>1. /\ op.step = "env" /\ ~op.ok /\ envFile' = op.env
        /\ op'.step = "up" /\ op'.env = op.env /\ op'.ok = op.ok
        /\ UNCHANGED <<role, clients, ctr, compose>>
    BY <1>0, <1>5, GoType DEF SaveBeforeUp
  <2> QED  BY <1>0, <2>1 DEF HealInv
<1>6. CASE Up
  <2>1. op.step = "up" /\ ~op.ok /\ UNCHANGED <<role, clients, compose, envFile>>
    BY <1>0, <1>6 DEF Up
  <2>2. CASE Fail
    <3>1. ~op'.ok /\ op'.step = "save"
      BY <1>0, <2>1, <2>2, FailType
    <3> QED  BY <1>1, <3>1
  <2>3. CASE /\ CanUp(op.app) /\ ctr' = AfterUp(op.app)
             /\ op' = [op EXCEPT !.step = "save", !.ok = TRUE]
    <3>1. op'.step = "save" /\ op'.ok /\ op'.env = op.env
      BY <1>0, <2>3 DEF Operation
    <3>2. ctr'[op.app] = NewContainer(op.app) /\ compose[op.app] # None
      BY <1>0, <2>3, AfterUpType DEF Upped, TInv
    <3>3. compose[op.app] = cached[op.app]
      BY <1>0, <2>1 DEF HealInv
    <3>4. /\ ctr'[op.app] # None
          /\ ctr'[op.app].keys =
               [k \in Kinds |-> IF k \in Uses(op.app, cached[op.app])
                                THEN envFile[op.app][k] ELSE None]
      <4>1. AfterUp(op.app) \in [Apps -> Container \cup {None}]
        BY <1>0, <2>3, AfterUpType DEF TInv
      <4>2. NewContainer(op.app).keys =
               [k \in Kinds |-> IF k \in Uses(op.app, cached[op.app])
                                THEN envFile[op.app][k] ELSE None]
        BY <3>3 DEF NewContainer
      <4>3. NewContainer(op.app) # None
        <5>1. [k \in Kinds |-> IF k \in Uses(op.app, cached[op.app])
                               THEN envFile[op.app][k] ELSE None] \in [Kinds -> Vals]
          BY <1>0 DEF TInv, TypeOK, Env, Vals
        <5>2. NewContainer(op.app) \in Container
          BY <1>0, <3>3, <5>1 DEF NewContainer, Container
        <5> QED  BY <5>2
      <4> QED  BY <3>2, <4>2, <4>3
    <3> QED  BY <1>0, <2>1, <3>1, <3>3, <3>4 DEF HealInv
  <2> QED  BY <1>6, <2>2, <2>3 DEF Up
<1>7. CASE StepFails
  <2>1. ~op'.ok /\ op'.step = "save"
    BY <1>0, <1>7, FailType DEF StepFails
  <2> QED  BY <1>1, <2>1
<1>8. CASE SaveEnv
  <2>1. /\ op.step = "save" /\ op'.step = "commit" /\ op'.env = op.env /\ op'.ok = op.ok
        /\ envFile' \in {op.env, envFile}
        /\ UNCHANGED <<role, clients, compose, ctr>>
    BY <1>0, <1>8, GoType DEF SaveEnv
  <2>2. CASE op.ok
    <3>1. envFile'[op.app] = envFile[op.app] /\ envFile'[op.app] = op.env[op.app]
      BY <1>0, <2>1, <2>2 DEF HealInv
    <3> QED  BY <1>0, <2>1, <2>2, <3>1 DEF HealInv
  <2> QED  BY <1>1, <2>1, <2>2
<1>9. CASE Commit
  <2>1. Go("dex") /\ UNCHANGED <<role, clients, compose, ctr, envFile>> /\ op.step = "commit"
    BY <1>0, <1>9, NoOpType DEF Commit
  <2>2. op'.step = "dex" /\ op'.env = op.env /\ op'.ok = op.ok
    BY <1>0, <2>1, GoType
  <2> QED  BY <1>0, <2>1, <2>2 DEF HealInv
<1>10. CASE SaveDex
  BY <1>10, NoOpType DEF SaveDex
<1>11. CASE UnregisterClient \/ Wipe
  BY <1>0, <1>11 DEF UnregisterClient, Wipe, FirstSteps
<1> QED
  BY <1>2, <1>3, <1>4, <1>5, <1>6, <1>7, <1>8, <1>9, <1>10, <1>11 DEF Step

LEMMA HealNext == TInv /\ HealInv /\ [Next]_vars => HealInv'
<1> SUFFICES ASSUME TInv, HealInv, [Next]_vars PROVE HealInv'
  OBVIOUS
<1>1. ASSUME NEW a \in Apps, Install(a) PROVE HealInv'
  <2>1. /\ op'.app = a /\ op'.kind = "install" /\ op'.step = "db" /\ ~op'.ok
        /\ op'.env[a]["secret"] = Given /\ op'.env[a]["prompt"] = Given
        /\ op'.env[a]["address"] = Given
    BY <1>1, InstallBegins
  <2> QED  BY <2>1 DEF HealInv, Begun, DbDone, Client, Listed, Saved
<1>2. ASSUME NEW a \in Apps, Update(a) \/ Remove(a) PROVE HealInv'
  BY <1>2, UpdateBegins, RemoveBegins DEF HealInv
<1>3. ASSUME NEW a \in Apps, Start(a) \/ Stop(a) \/ PublishVersion(a) \/ FetchDefinition(a)
      PROVE HealInv'
  BY <1>3, NoOpType DEF Start, Stop, PublishVersion, FetchDefinition, Idle, HealInv
<1>4. CASE RewriteDexConfig
  BY <1>4, NoOpType DEF RewriteDexConfig, Idle, HealInv
<1>5. CASE Crash
  BY <1>5, NoOpType DEF Crash, HealInv
<1>6. CASE UNCHANGED vars
  BY <1>6 DEF vars, HealInv, Begun, DbDone, Client, Listed, Saved, NeedsDb, HasLogin, Uses
<1> QED  BY <1>1, <1>2, <1>3, <1>4, <1>5, <1>6, HealStep DEF Next, Request

\* An install that reports success has left the app complete: everything its
\* definition refers to is in .env and in its container, Postgres and Dex know it
\* and the compose file lists it, whatever earlier failures, crashes, removals and
\* installs of the same app have left behind (install.go:60-300,
\* handlers_apps.go:593-700).  No assumption on what goes wrong.
THEOREM InstallLeavesItComplete == Spec => InstallHeals
<1>1. Init => HealInv
  BY NoOpType DEF Init, HealInv
<1>2. TInv /\ HealInv /\ [Next]_vars =>
        [\A a \in Apps :
           op.kind = "install" /\ op.app = a /\ op.step = "commit" /\ op'.step = "dex" =>
             LET c == ctr[a].keys IN
             /\ c = [k \in Kinds |-> IF k \in Uses(a, inst'[a].ver) THEN envFile[a][k] ELSE None]
             /\ \A k \in Uses(a, inst'[a].ver) : c[k] # None
             /\ NeedsDb(a, inst'[a].ver) => role[a] = c["db"]
             /\ HasLogin(a, inst'[a].ver) => clients[a] = c["oidc"]
             /\ compose[a] = inst'[a].ver]_vars
  <2> SUFFICES ASSUME TInv, HealInv, Next, NEW a \in Apps,
                      op.kind = "install", op.app = a, op.step = "commit", op'.step = "dex"
               PROVE  /\ ctr[a].keys =
                           [k \in Kinds |-> IF k \in Uses(a, inst'[a].ver) THEN envFile[a][k] ELSE None]
                      /\ \A k \in Uses(a, inst'[a].ver) : ctr[a].keys[k] # None
                      /\ NeedsDb(a, inst'[a].ver) => role[a] = ctr[a].keys["db"]
                      /\ HasLogin(a, inst'[a].ver) => clients[a] = ctr[a].keys["oidc"]
                      /\ compose[a] = inst'[a].ver
    OBVIOUS
  <2>1. Commit
    <3>1. op # NoOp
      BY NoOpType
    <3> QED  BY <3>1, NoOpType DEF Next, Request, Step, Idle, Crash, Install, Update, Remove,
              Start, Stop, RewriteDexConfig, PublishVersion, FetchDefinition, SetupAppDB,
              RegisterClient, UnregisterClient, Regenerate, SaveBeforeUp, Up, Wipe, StepFails,
              SaveEnv, SaveDex
  <2>2. op.ok
    BY <2>1, NoOpType DEF Commit
  <2>3. inst'[a].ver = cached[a]
    BY <2>1, <2>2 DEF Commit, TInv, TypeOK
  <2>4. /\ \A k \in {"secret", "prompt", "address"} : envFile[a][k] # None
        /\ NeedsDb(a, cached[a]) => envFile[a]["db"] # None /\ role[a] = envFile[a]["db"]
        /\ HasLogin(a, cached[a]) => envFile[a]["oidc"] # None /\ clients[a] = envFile[a]["oidc"]
        /\ compose[a] = cached[a]
        /\ ctr[a].keys = [k \in Kinds |-> IF k \in Uses(a, cached[a]) THEN envFile[a][k] ELSE None]
    BY <2>2 DEF HealInv, Begun, DbDone, Client, Listed, Saved
  <2>5. \A k \in Uses(a, cached[a]) : k \in Kinds /\ envFile[a][k] # None
    BY <2>4 DEF Uses, Kinds
  <2>6. /\ \A k \in Uses(a, cached[a]) : ctr[a].keys[k] = envFile[a][k]
        /\ NeedsDb(a, cached[a]) => "db" \in Uses(a, cached[a])
        /\ HasLogin(a, cached[a]) => "oidc" \in Uses(a, cached[a])
    BY <2>4, <2>5 DEF Uses
  <2> QED  BY <2>3, <2>4, <2>5, <2>6
<1> QED  BY <1>1, <1>2, HealNext, TypesInvariant, PTL DEF Spec, InstallHeals
=============================================================================
