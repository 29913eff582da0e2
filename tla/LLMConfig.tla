------------------------------ MODULE LLMConfig ------------------------------
(***************************************************************************)
(* The configuration of the LLM gateway (internal/llm): one config.yaml    *)
(* with providers, personas and client keys, which llmd reads when it      *)
(* starts and when it gets a SIGHUP.                                       *)
(*                                                                         *)
(* Every request of the web panel and every `stackctl llm` command loads   *)
(* the whole file, changes its own copy, writes the whole file and signals *)
(* llmd. None of them takes the operation lock, so several are under way   *)
(* at once, next to an install or an update of llmd, which seeds the file. *)
(* Between the load and the save lies a bcrypt, or an editor.              *)
(***************************************************************************)
EXTENDS Naturals

CONSTANTS
  Requests,   \* requests of the web panel that may be under way at once
  Commands,   \* commands of the CLI that may be under way at once
  Providers, Personas, Keys,
  Prompts, Blank,  \* system prompts, and the one that clears it
  Upstream,        \* keys of providers, with the one that clears it
  Secrets,    \* generated client keys
  Prefixes,   \* their first 8 hex digits, kept in clear text
  PrefixOf,   \* secret -> prefix
  Default,    \* the key that the seed creates for the other apps
  Seed,       \* the personas that the seed creates, with their prompts
  Start,      \* what the file may contain at the start
  Faults,     \* what may go wrong in this instance
  Budget,     \* bound: changes that are asked for
  None

Procs == Requests \cup Commands

AllFaults == {"crash",   \* a process dies between two steps
              "write",   \* config.yaml cannot be written
              "signal",  \* docker kill fails
              "step"}    \* an install or update fails after the seed

Links    == Providers \cup {"inactive"}
Persona  == [link : Links, prompt : Prompts]
APIKey   == [secret : Secrets, allowed : SUBSET Personas]   \* allowed = {}: all of them

File == [provider : [Providers -> Upstream \cup {None}],
         persona  : [Personas -> Persona \cup {None}],
         key      : [Keys -> APIKey \cup {None}]]

\* What Load returns where there is no config.yaml.
EmptyFile == [provider |-> [q \in Providers |-> None],
              persona  |-> [a \in Personas |-> None],
              key      |-> [k \in Keys |-> None]]

\* Every persona that has a provider has one that exists.
Closed(f) ==
  \A a \in Personas : f.persona[a] # None =>
    f.persona[a].link = "inactive" \/ f.provider[f.persona[a].link] # None

\* llmd looks a key up by its prefix: no two may share one.
Distinct(f) ==
  \A k, l \in Keys : f.key[k] # None /\ f.key[l] # None /\ k # l =>
    PrefixOf[f.key[k].secret] # PrefixOf[f.key[l].secret]

SecretsOf(f) == {f.key[k].secret : k \in {l \in Keys : f.key[l] # None}}

ASSUME ProcsAssumption   == None \notin Procs
ASSUME NoneAssumption    ==
  /\ None \notin File \cup Persona \cup Upstream \cup APIKey \cup Secrets
  /\ \A s \in SUBSET Personas : s # None
ASSUME PromptAssumption  == Blank \in Prompts
ASSUME LinkAssumption    == "inactive" \notin Providers
ASSUME DefaultAssumption == Default \in Keys
ASSUME SeedAssumption    == DOMAIN Seed \subseteq Personas /\ \A a \in DOMAIN Seed : Seed[a] \in Prompts
ASSUME PrefixAssumption  == PrefixOf \in [Secrets -> Prefixes]
ASSUME FaultsAssumption  == Faults \subseteq AllFaults
ASSUME BudgetAssumption  == Budget \in Nat
\* The file has been written by stackctl before.
ASSUME StartAssumption ==
  Start \subseteq {f \in File : Closed(f) /\ \A k \in Keys : f.key[k] = None}

VARIABLES
  file,     \* config.yaml
  loaded,   \* the file as llmd has read it; None while it does not run
  envKey,   \* LLM_API_KEY in .env
  inst,     \* llmd is installed
  owns,     \* LLM_API_KEY is among the EnvKeys of its entry in the state
  op,       \* process -> the change it is making
  seeding,  \* the install or update of llmd under way
  granted,  \* history: secret -> the personas it was created for
  missed,   \* history: llmd missed the signal for the last change
  left      \* bound: changes still to be asked for

vars == <<file, loaded, envKey, inst, owns, op, seeding, granted, missed, left>>

Idle    == [phase |-> "idle", copy |-> EmptyFile]
Change  == [phase : {"idle", "save", "reload"}, copy : File]
NoSeed  == [phase |-> "idle", kind |-> None, copy |-> EmptyFile, key |-> None]
Seeding == [phase : {"idle", "save", "env", "up"}, kind : {"install", "update", None},
            copy : File, key : Secrets \cup {None}]

TypeOK ==
  /\ file \in File
  /\ loaded \in File \cup {None}
  /\ envKey \in Secrets \cup {None}
  /\ inst \in BOOLEAN
  /\ owns \in BOOLEAN
  /\ op \in [Procs -> Change]
  /\ seeding \in Seeding
  /\ granted \in [Secrets -> (SUBSET Personas) \cup {None}]
  /\ missed \in BOOLEAN
  /\ left \in 0 .. Budget

\* llmd has never been installed; its file may have been prepared.
Init ==
  /\ file \in Start
  /\ loaded = None
  /\ envKey = None
  /\ inst = FALSE
  /\ owns = FALSE
  /\ op = [p \in Procs |-> Idle]
  /\ seeding = NoSeed
  /\ granted = [s \in Secrets |-> None]
  /\ missed = FALSE
  /\ left = Budget

\* GenerateAPIKey: a secret nobody has had. Two may share a prefix.
Fresh == {s \in Secrets : granted[s] = None}

-----------------------------------------------------------------------------
\* The changes (llm.go): the set of files one may lead to, empty when refused.

Provided(possible, f) == IF possible THEN {f} ELSE {}

AddProvider(f, q, k) ==
  Provided(f.provider[q] = None, [f EXCEPT !.provider[q] = k])

SetProviderKey(f, q, k) ==
  Provided(f.provider[q] # None, [f EXCEPT !.provider[q] = k])

Referenced(f, q) == \E a \in Personas : f.persona[a] # None /\ f.persona[a].link = q

\* Variant: the personas that use the provider are not looked at.
RemoveProviderInUse(f, q) ==
  Provided(f.provider[q] # None, [f EXCEPT !.provider[q] = None])

RemoveProvider(f, q) ==
  Provided(f.provider[q] # None /\ ~Referenced(f, q), [f EXCEPT !.provider[q] = None])

Linkable(f, l) == l = "inactive" \/ f.provider[l] # None

AddPersona(f, a, l, t) ==
  Provided(f.persona[a] = None /\ Linkable(f, l),
           [f EXCEPT !.persona[a] = [link |-> l, prompt |-> t]])

\* Variant: the persona is struck from the lists of the keys.
RemovePersonaFromKeys(f, a) ==
  Provided(f.persona[a] # None,
           [f EXCEPT !.persona[a] = None,
                     !.key = [k \in Keys |-> IF @[k] = None THEN None
                                             ELSE [@[k] EXCEPT !.allowed = @ \ {a}]]])

\* The keys that name the persona keep its name.
RemovePersona(f, a) ==
  Provided(f.persona[a] # None, [f EXCEPT !.persona[a] = None])

SetPersonaUpstream(f, a, l) ==
  Provided(f.persona[a] # None /\ Linkable(f, l), [f EXCEPT !.persona[a].link = l])

SetPersonaPrompt(f, a, t) ==
  Provided(f.persona[a] # None, [f EXCEPT !.persona[a].prompt = t])

AddAPIKey(f, k, s, A) ==
  Provided(f.key[k] = None /\ PrefixOf[s] \notin {PrefixOf[t] : t \in SecretsOf(f)},
           [f EXCEPT !.key[k] = [secret |-> s, allowed |-> A]])

RemoveAPIKey(f, k) ==
  Provided(f.key[k] # None, [f EXCEPT !.key[k] = None])

-----------------------------------------------------------------------------
\* A change: load and change the copy, save it, signal llmd.

\* A process loads the file and holds one of the copies that g leads to.
Begin(p, g) ==
  /\ op[p] = Idle
  /\ left > 0
  /\ left' = left - 1
  /\ \E f \in g : op' = [op EXCEPT ![p] = [phase |-> "save", copy |-> f]]

Untouched == UNCHANGED <<file, loaded, envKey, inst, owns, seeding, missed>>

\* A change to the copy of the file that p has just read.
Alter(p, g) == Begin(p, g) /\ Untouched /\ UNCHANGED granted

\* A new key, whose clear text is shown to whoever asked for it.
Grant(p, k, A) ==
  \E s \in Fresh :
    /\ Begin(p, AddAPIKey(file, k, s, A))
    /\ granted' = [granted EXCEPT ![s] = A]
    /\ Untouched

ProviderCreate(p) ==
  \E q \in Providers, k \in Upstream : Alter(p, AddProvider(file, q, k))
ProviderSetKey(p) ==
  \E q \in Providers, k \in Upstream : Alter(p, SetProviderKey(file, q, k))
ProviderDelete(p) == \E q \in Providers : Alter(p, RemoveProvider(file, q))

PersonaCreate(p) ==
  \E a \in Personas, l \in Links, t \in Prompts :
    Alter(p, AddPersona(file, a, l, t))
\* One form changes the link and the prompt.
PersonaUpdate(p) ==
  \E a \in Personas, l \in Links, t \in Prompts :
    Alter(p, UNION {SetPersonaPrompt(f, a, t) : f \in SetPersonaUpstream(file, a, l)})
PersonaDeactivate(p) ==
  \E a \in Personas : Alter(p, SetPersonaUpstream(file, a, "inactive"))
PersonaDelete(p) == \E a \in Personas : Alter(p, RemovePersona(file, a))

KeyCreate(p) == \E k \in Keys, A \in SUBSET Personas : Grant(p, k, A)
KeyDelete(p) == \E k \in Keys : Alter(p, RemoveAPIKey(file, k))

Request(p) ==
  \/ ProviderCreate(p) \/ ProviderSetKey(p) \/ ProviderDelete(p)
  \/ PersonaCreate(p) \/ PersonaUpdate(p) \/ PersonaDeactivate(p) \/ PersonaDelete(p)
  \/ KeyCreate(p) \/ KeyDelete(p)

cmdProviderAdd(p) ==
  \E q \in Providers, k \in Upstream : Alter(p, AddProvider(file, q, k))
cmdProviderSetKey(p) ==
  \E q \in Providers, k \in Upstream : Alter(p, SetProviderKey(file, q, k))
cmdProviderRm(p) == \E q \in Providers : Alter(p, RemoveProvider(file, q))

\* The prompt may come from an editor: the copy is held as long as it is open.
cmdPersonaAdd(p) ==
  \E a \in Personas, l \in Links, t \in Prompts :
    Alter(p, AddPersona(file, a, l, t))
\* Ends where the prompt does not change, unless it was asked to clear it.
cmdPersonaEdit(p) ==
  \E a \in Personas, t \in Prompts :
    /\ t = Blank \/ (file.persona[a] # None => file.persona[a].prompt # t)
    /\ Alter(p, SetPersonaPrompt(file, a, t))
cmdPersonaRm(p) == \E a \in Personas : Alter(p, RemovePersona(file, a))
cmdPersonaSet(p) ==
  \E a \in Personas, l \in Links : Alter(p, SetPersonaUpstream(file, a, l))

cmdKeyCreate(p) == \E k \in Keys, A \in SUBSET Personas : Grant(p, k, A)
cmdKeyRevoke(p) == \E k \in Keys : Alter(p, RemoveAPIKey(file, k))

Command(p) ==
  \/ cmdProviderAdd(p) \/ cmdProviderSetKey(p) \/ cmdProviderRm(p)
  \/ cmdPersonaAdd(p) \/ cmdPersonaEdit(p) \/ cmdPersonaRm(p) \/ cmdPersonaSet(p)
  \/ cmdKeyCreate(p) \/ cmdKeyRevoke(p)

\* Variant: the change ends with the save.
SaveSilently(p) ==
  /\ op[p].phase = "save"
  /\ file' = op[p].copy
  /\ op' = [op EXCEPT ![p] = Idle]
  /\ UNCHANGED <<loaded, envKey, inst, owns, seeding, granted, missed, left>>

\* The whole file is replaced in one step, whatever has happened to it since.
Save(p) ==
  /\ op[p].phase = "save"
  /\ file' = op[p].copy
  /\ op' = [op EXCEPT ![p] = [phase |-> "reload", copy |-> EmptyFile]]
  /\ UNCHANGED <<loaded, envKey, inst, owns, seeding, granted, missed, left>>

SaveFails(p) ==
  /\ "write" \in Faults
  /\ op[p].phase = "save"
  /\ op' = [op EXCEPT ![p] = Idle]
  /\ UNCHANGED <<file, loaded, envKey, inst, owns, seeding, granted, missed, left>>

\* llmd reads the file; nothing happens while it does not run.
LoadFile ==
  /\ loaded' = IF loaded = None THEN None ELSE file
  /\ missed' = FALSE

\* Variant: the signal goes to a container of another name.
ReloadNobody(p) ==
  /\ op[p].phase = "reload"
  /\ op' = [op EXCEPT ![p] = Idle]
  /\ UNCHANGED <<file, loaded, envKey, inst, owns, seeding, granted, missed, left>>

Reload(p) ==
  /\ op[p].phase = "reload"
  /\ LoadFile
  /\ op' = [op EXCEPT ![p] = Idle]
  /\ UNCHANGED <<file, envKey, inst, owns, seeding, granted, left>>

ReloadFails(p) ==
  /\ "signal" \in Faults
  /\ op[p].phase = "reload"
  /\ op' = [op EXCEPT ![p] = Idle]
  /\ missed' = TRUE
  /\ UNCHANGED <<file, loaded, envKey, inst, owns, seeding, granted, left>>

\* `stackctl llm reload`, which an administrator may call at any time.
cmdLLMReload ==
  /\ LoadFile
  /\ UNCHANGED <<file, envKey, inst, owns, op, seeding, granted, left>>

Crash(p) ==
  /\ "crash" \in Faults
  /\ op[p] # Idle
  /\ op' = [op EXCEPT ![p] = Idle]
  /\ missed' = (missed \/ op[p].phase = "reload")
  /\ UNCHANGED <<file, loaded, envKey, inst, owns, seeding, granted, left>>

-----------------------------------------------------------------------------
\* Install, update and removal of llmd, one at a time under the operation lock.

Personas0(f) ==
  IF \A a \in Personas : f.persona[a] = None
    THEN [f EXCEPT !.persona = [a \in Personas |->
            IF a \in DOMAIN Seed THEN [link |-> "inactive", prompt |-> Seed[a]] ELSE None]]
    ELSE f

\* seedLLMConfig up to the save: a file with keys is left alone; LLM_API_KEY is
\* used again if .env has one.
SeedLoad(kind) ==
  /\ seeding = NoSeed
  /\ inst = (kind = "update")
  /\ \/ /\ SecretsOf(file) # {}
        /\ seeding' = [NoSeed EXCEPT !.phase = "env", !.kind = kind]
        /\ UNCHANGED granted
     \/ /\ SecretsOf(file) = {}
        /\ envKey # None
        /\ \E f \in AddAPIKey(Personas0(file), Default, envKey, {}) :
             seeding' = [phase |-> "save", kind |-> kind, copy |-> f, key |-> None]
        /\ UNCHANGED granted
     \/ /\ SecretsOf(file) = {}
        /\ envKey = None
        /\ \E s \in Fresh : \E f \in AddAPIKey(Personas0(file), Default, s, {}) :
             /\ seeding' = [phase |-> "save", kind |-> kind, copy |-> f, key |-> s]
             /\ granted' = [granted EXCEPT ![s] = {}]
  /\ UNCHANGED <<file, loaded, envKey, inst, owns, op, missed, left>>

\* Variant: the seed signals llmd, as the other changes do.
SeedSaveSignals ==
  /\ seeding.phase = "save"
  /\ file' = seeding.copy
  /\ seeding' = [seeding EXCEPT !.phase = "reload", !.copy = EmptyFile]
  /\ UNCHANGED <<loaded, envKey, inst, owns, op, granted, missed, left>>

\* No signal: "the container does not run yet".
SeedSave ==
  /\ seeding.phase = "save"
  /\ file' = seeding.copy
  /\ seeding' = [seeding EXCEPT !.phase = "env", !.copy = EmptyFile]
  /\ UNCHANGED <<loaded, envKey, inst, owns, op, granted, missed, left>>

NewEnvKey == IF seeding.key = None THEN envKey ELSE seeding.key

\* The operation ends; the caller writes its .env, into which the seed has put
\* the key. The rollback of an install does not know of it yet.
SeedFails ==
  /\ "write" \in Faults
  /\ seeding.phase = "save"
  /\ envKey' = NewEnvKey
  /\ seeding' = NoSeed
  /\ UNCHANGED <<file, loaded, inst, owns, op, granted, missed, left>>

WriteEnv ==
  /\ seeding.phase = "env"
  /\ envKey' = NewEnvKey
  /\ seeding' = [seeding EXCEPT !.phase = "up"]
  /\ UNCHANGED <<file, loaded, inst, owns, op, granted, missed, left>>

\* A failed install takes the new keys out of .env again, an update keeps them.
\* Neither puts config.yaml back.
StepFails ==
  /\ "step" \in Faults
  /\ seeding.phase \in {"env", "up"}
  /\ envKey' = IF seeding.kind = "update" THEN NewEnvKey
               ELSE IF seeding.key = None THEN envKey ELSE None
  /\ owns' = (owns \/ (seeding.kind = "update" /\ seeding.key # None))
  /\ missed' = (missed \/ loaded \notin {None, file})
  /\ seeding' = NoSeed
  /\ UNCHANGED <<file, loaded, inst, op, granted, left>>

\* compose up starts a container, or replaces one whose image has changed; it
\* leaves alone one that runs from the same image.
Up ==
  /\ seeding.phase = "up"
  /\ \/ loaded' = file /\ missed' = FALSE
     \/ /\ loaded # None
        /\ missed' = (missed \/ loaded # file)
        /\ UNCHANGED loaded
  /\ inst' = TRUE
  /\ owns' = (seeding.key # None \/ (seeding.kind = "update" /\ owns))
  /\ seeding' = NoSeed
  /\ UNCHANGED <<file, envKey, op, granted, left>>

SeedCrash ==
  /\ "crash" \in Faults
  /\ seeding # NoSeed
  /\ missed' = (missed \/ loaded \notin {None, file})
  /\ seeding' = NoSeed
  /\ UNCHANGED <<file, loaded, envKey, inst, owns, op, granted, left>>

\* The EnvKeys of the entry leave .env; config.yaml only if the data is wiped.
Remove(wipe) ==
  /\ seeding = NoSeed
  /\ inst
  /\ loaded' = None
  /\ envKey' = IF owns THEN None ELSE envKey
  /\ file' = IF wipe THEN EmptyFile ELSE file
  /\ inst' = FALSE
  /\ owns' = FALSE
  /\ missed' = FALSE
  /\ UNCHANGED <<op, seeding, granted, left>>

\* The container is stopped and started, by an administrator or by Docker.
Stop ==
  /\ inst /\ loaded # None
  /\ loaded' = None
  /\ UNCHANGED <<file, envKey, inst, owns, op, seeding, granted, missed, left>>
StartLlmd ==
  /\ inst /\ loaded = None
  /\ loaded' = file
  /\ missed' = FALSE
  /\ UNCHANGED <<file, envKey, inst, owns, op, seeding, granted, left>>

-----------------------------------------------------------------------------
Installer ==
  \/ \E kind \in {"install", "update"} : SeedLoad(kind)
  \/ SeedSave \/ SeedFails \/ WriteEnv \/ StepFails \/ Up \/ SeedCrash
  \/ \E wipe \in BOOLEAN : Remove(wipe)
  \/ Stop \/ StartLlmd

Next ==
  \/ \E p \in Requests : Request(p)
  \/ \E p \in Commands : Command(p)
  \/ \E p \in Procs : Save(p) \/ SaveFails(p) \/ Reload(p) \/ ReloadFails(p) \/ Crash(p)
  \/ cmdLLMReload
  \/ Installer

\* A process that has begun goes on.
Fairness ==
  /\ \A p \in Procs : WF_vars(Save(p)) /\ WF_vars(Reload(p))
  /\ WF_vars(SeedSave) /\ WF_vars(WriteEnv) /\ WF_vars(Up)

Spec == Init /\ [][Next]_vars /\ Fairness

-----------------------------------------------------------------------------
\* No interleaving of whole-file writes leaves a persona linked to a provider that
\* has been deleted, or two keys with the prefix by which llmd finds them, neither
\* on disk nor in llmd: each is checked against the copy that is written with it
\* (llm.go:116-129, 221-238).
FileConsistent ==
  /\ Closed(file) /\ Distinct(file)
  /\ loaded # None => Closed(loaded) /\ Distinct(loaded)

\* A key opens the personas it was created for and no others: neither the removal
\* of a persona (an empty list would mean all of them) nor a lost update widens
\* it.
AccessAsGranted ==
  \A k \in Keys : file.key[k] # None =>
    file.key[k].allowed = granted[file.key[k].secret]

\* llmd works with an older file only while somebody still owes it the signal,
\* or has failed to give it: of the unlocked writers the last to signal comes
\* after the last to write.
StaleOnlyUntilSignalled ==
  loaded \notin {None, file} =>
    \/ \E p \in Procs : op[p].phase = "reload"
    \/ seeding.phase \in {"env", "up"}
    \/ missed

\* A change that is written reaches llmd, unless its signal was lost.
ChangesArrive ==
  (loaded \notin {None, file} /\ ~missed) ~> (loaded \in {None, file} \/ missed)

\* On a server where nobody has changed the configuration, an installed llmd
\* accepts the LLM_API_KEY that .env gives to the other apps (llm_hook.go:50-52,
\* install.go:582-583).
DefaultKeyShared ==
  inst /\ seeding = NoSeed /\ left = Budget =>
    envKey # None /\ envKey \in SecretsOf(file)
=============================================================================
