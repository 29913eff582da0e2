--------------------------- MODULE LLMConfig_proofs ---------------------------
(***************************************************************************)
(* Theorems about LLMConfig: although every writer replaces the whole file *)
(* by a copy it read earlier, the file stays consistent, no key opens more *)
(* than it was created for, and llmd works with an older file only while   *)
(* somebody still owes it a signal, for any number of writers.             *)
(***************************************************************************)
EXTENDS LLMConfig, TLAPS

USE NoneAssumption

-----------------------------------------------------------------------------
\* Files.

\* A file that may be written: references have targets, prefixes differ.
Whole(f) == f \in File /\ Closed(f) /\ Distinct(f)

\* Each key opens what it was created for.
Granted(f, g) ==
  \A k \in Keys : f.key[k] # None => f.key[k].allowed = g[f.key[k].secret]

Sound(f, g) == Whole(f) /\ Granted(f, g)

\* g is consistent like f, and has no key that f does not have.
Derives(f, g) == Whole(g) /\ \A k \in Keys : g.key[k] \in {f.key[k], None}

\* What a file with fewer keys has is still distinct.
LEMMA FewerKeysDistinct ==
  ASSUME NEW f \in File, NEW g \in File, Distinct(f),
         \A k \in Keys : g.key[k] \in {f.key[k], None}
  PROVE  Distinct(g)
BY DEF Distinct

\* Derivation is a chain.
LEMMA DerivesChain ==
  ASSUME NEW f, NEW g, NEW h, Derives(f, g), Derives(g, h)
  PROVE  Derives(f, h)
BY DEF Derives

\* What derives from a sound file is sound.
LEMMA DerivesSound ==
  ASSUME NEW f, NEW g, NEW m, Sound(f, m), Derives(f, g)
  PROVE  Sound(g, m)
BY DEF Derives, Sound, Granted

\* The file that is not there is consistent.
LEMMA EmptyFileWhole == Whole(EmptyFile)
BY DEF Whole, EmptyFile, File, Closed, Distinct

\* A file that differs in its providers only, and has those that are in use.
LEMMA ProvidersDerive ==
  ASSUME NEW f, Whole(f), NEW P \in [Providers -> Upstream \cup {None}],
         \A a \in Personas : f.persona[a] # None =>
           f.persona[a].link = "inactive" \/ P[f.persona[a].link] # None
  PROVE  Derives(f, [f EXCEPT !.provider = P])
<1> DEFINE g == [f EXCEPT !.provider = P]
<1>1. g \in File /\ g.key = f.key /\ g.persona = f.persona /\ g.provider = P
  BY DEF Whole, File
<1>2. Closed(g)
  BY <1>1 DEF Closed
<1>3. \A k \in Keys : g.key[k] \in {f.key[k], None}
  BY <1>1
<1>4. Distinct(g)
  BY <1>1, <1>3, FewerKeysDistinct DEF Whole
<1> QED  BY <1>1, <1>2, <1>3, <1>4 DEF Derives, Whole

\* A file that differs in one persona only, which is gone or has its provider.
LEMMA PersonaDerives ==
  ASSUME NEW f, Whole(f), NEW a \in Personas, NEW m \in Persona \cup {None},
         m # None => Linkable(f, m.link)
  PROVE  Derives(f, [f EXCEPT !.persona[a] = m])
<1> DEFINE g == [f EXCEPT !.persona[a] = m]
<1>1. /\ g \in File /\ g.key = f.key /\ g.provider = f.provider
      /\ g.persona = [f.persona EXCEPT ![a] = m]
  BY DEF Whole, File
<1>2. Closed(g)
  BY <1>1 DEF Closed, Linkable, Whole, File
<1>3. \A k \in Keys : g.key[k] \in {f.key[k], None}
  BY <1>1
<1>4. f \in File /\ Distinct(f)
  BY DEF Whole
<1> HIDE DEF g
<1>5. Distinct(g)
  BY <1>1, <1>3, <1>4, FewerKeysDistinct
<1> QED  BY <1>1, <1>2, <1>3, <1>5 DEF Derives, Whole, g

-----------------------------------------------------------------------------
\* The changes: what each leads to derives from the file, or has one new key.

LEMMA AddProviderDerives ==
  ASSUME NEW f, Whole(f), NEW q \in Providers, NEW u \in Upstream,
         NEW g \in AddProvider(f, q, u)
  PROVE  Derives(f, g)
<1> DEFINE P == [f.provider EXCEPT ![q] = u]
<1>1. P \in [Providers -> Upstream \cup {None}] /\ f \in File /\ Closed(f)
  BY DEF Whole, File
<1>2. g = [f EXCEPT !.provider = P]
  BY DEF AddProvider, Provided
<1>3. \A a \in Personas : f.persona[a] # None =>
        f.persona[a].link = "inactive" \/ P[f.persona[a].link] # None
  BY <1>1 DEF Closed, File, Persona, Links
<1> QED  BY <1>1, <1>2, <1>3, ProvidersDerive

LEMMA SetProviderKeyDerives ==
  ASSUME NEW f, Whole(f), NEW q \in Providers, NEW u \in Upstream,
         NEW g \in SetProviderKey(f, q, u)
  PROVE  Derives(f, g)
<1> DEFINE P == [f.provider EXCEPT ![q] = u]
<1>1. P \in [Providers -> Upstream \cup {None}] /\ f \in File /\ Closed(f)
  BY DEF Whole, File
<1>2. g = [f EXCEPT !.provider = P]
  BY DEF SetProviderKey, Provided
<1>3. \A a \in Personas : f.persona[a] # None =>
        f.persona[a].link = "inactive" \/ P[f.persona[a].link] # None
  BY <1>1 DEF Closed, File, Persona, Links
<1> QED  BY <1>1, <1>2, <1>3, ProvidersDerive

LEMMA RemoveProviderDerives ==
  ASSUME NEW f, Whole(f), NEW q \in Providers, NEW g \in RemoveProvider(f, q)
  PROVE  Derives(f, g)
<1> DEFINE P == [f.provider EXCEPT ![q] = None]
<1>1. P \in [Providers -> Upstream \cup {None}] /\ f \in File /\ Closed(f)
  BY DEF Whole, File
<1>2. g = [f EXCEPT !.provider = P] /\ ~Referenced(f, q)
  BY DEF RemoveProvider, Provided
<1>3. \A a \in Personas : f.persona[a] # None =>
        f.persona[a].link = "inactive" \/ P[f.persona[a].link] # None
  BY <1>1, <1>2 DEF Closed, File, Persona, Links, Referenced
<1> QED  BY <1>1, <1>2, <1>3, ProvidersDerive

LEMMA AddPersonaDerives ==
  ASSUME NEW f, Whole(f), NEW a \in Personas, NEW l \in Links, NEW t \in Prompts,
         NEW g \in AddPersona(f, a, l, t)
  PROVE  Derives(f, g)
<1> DEFINE m == [link |-> l, prompt |-> t]
<1>1. g = [f EXCEPT !.persona[a] = m] /\ Linkable(f, m.link)
  BY DEF AddPersona, Provided
<1>2. m \in Persona
  BY DEF Persona
<1> QED  BY <1>1, <1>2, PersonaDerives

LEMMA RemovePersonaDerives ==
  ASSUME NEW f, Whole(f), NEW a \in Personas, NEW g \in RemovePersona(f, a)
  PROVE  Derives(f, g)
<1>1. g = [f EXCEPT !.persona[a] = None]
  BY DEF RemovePersona, Provided
<1> QED  BY <1>1, PersonaDerives

LEMMA SetPersonaUpstreamDerives ==
  ASSUME NEW f, Whole(f), NEW a \in Personas, NEW l \in Links,
         NEW g \in SetPersonaUpstream(f, a, l)
  PROVE  Derives(f, g)
<1> DEFINE m == [f.persona[a] EXCEPT !.link = l]
<1>1. g = [f EXCEPT !.persona[a] = m] /\ Linkable(f, l) /\ f.persona[a] \in Persona
  BY DEF SetPersonaUpstream, Provided, Whole, File
<1>2. m \in Persona /\ m.link = l
  BY <1>1 DEF Persona
<1> QED  BY <1>1, <1>2, PersonaDerives

LEMMA SetPersonaPromptDerives ==
  ASSUME NEW f, Whole(f), NEW a \in Personas, NEW t \in Prompts,
         NEW g \in SetPersonaPrompt(f, a, t)
  PROVE  Derives(f, g)
<1> DEFINE m == [f.persona[a] EXCEPT !.prompt = t]
<1>1. g = [f EXCEPT !.persona[a] = m] /\ f.persona[a] # None /\ f.persona[a] \in Persona
  BY DEF SetPersonaPrompt, Provided, Whole, File
<1>2. m \in Persona /\ m.link = f.persona[a].link
  BY <1>1 DEF Persona
<1>3. Linkable(f, m.link)
  BY <1>1, <1>2 DEF Whole, Closed, Linkable
<1> QED  BY <1>1, <1>2, <1>3, PersonaDerives

LEMMA RemoveAPIKeyDerives ==
  ASSUME NEW f, Whole(f), NEW k \in Keys, NEW g \in RemoveAPIKey(f, k)
  PROVE  Derives(f, g)
<1>1. g = [f EXCEPT !.key[k] = None]
  BY DEF RemoveAPIKey, Provided
<1>2. /\ g \in File /\ g.persona = f.persona /\ g.provider = f.provider
      /\ \A l \in Keys : g.key[l] \in {f.key[l], None}
  BY <1>1 DEF Whole, File
<1>3. Closed(g) /\ Distinct(g)
  BY <1>2, FewerKeysDistinct DEF Whole, Closed
<1> QED  BY <1>2, <1>3 DEF Derives, Whole

\* A new key: no other has its prefix.
LEMMA AddAPIKeyWhole ==
  ASSUME NEW f, Whole(f), NEW k \in Keys, NEW s \in Secrets, NEW A \in SUBSET Personas,
         NEW g \in AddAPIKey(f, k, s, A)
  PROVE  /\ Whole(g)
         /\ g.key[k] = [secret |-> s, allowed |-> A]
         /\ \A l \in Keys \ {k} : g.key[l] = f.key[l]
<1> DEFINE n == [secret |-> s, allowed |-> A]
<1>1. g = [f EXCEPT !.key[k] = n] /\ PrefixOf[s] \notin {PrefixOf[t] : t \in SecretsOf(f)}
  BY DEF AddAPIKey, Provided
<1>2. n \in APIKey
  BY DEF APIKey
<1>3. /\ g \in File /\ g.persona = f.persona /\ g.provider = f.provider
      /\ g.key[k] = n /\ \A l \in Keys \ {k} : g.key[l] = f.key[l]
  BY <1>1, <1>2 DEF Whole, File
<1>4. Closed(g)
  BY <1>3 DEF Whole, Closed
<1>5. \A l \in Keys : f.key[l] # None => PrefixOf[f.key[l].secret] # PrefixOf[s]
  BY <1>1 DEF SecretsOf
<1>6. Distinct(g)
  BY <1>3, <1>5 DEF Whole, Distinct
<1> QED  BY <1>3, <1>4, <1>6 DEF Whole

\* The seed's personas have no provider yet.
LEMMA Personas0Derives ==
  ASSUME NEW f, Whole(f)
  PROVE  Derives(f, Personas0(f))
<1> DEFINE M == [a \in Personas |->
                   IF a \in DOMAIN Seed THEN [link |-> "inactive", prompt |-> Seed[a]] ELSE None]
           g == [f EXCEPT !.persona = M]
<1>1. M \in [Personas -> Persona \cup {None}]
  BY SeedAssumption DEF Persona, Links
<1>2. g \in File /\ g.key = f.key /\ g.persona = M
  BY <1>1 DEF Whole, File
<1>3. \A a \in Personas : M[a] # None => M[a].link = "inactive"
  OBVIOUS
<1>4. Closed(g)
  BY <1>2, <1>3 DEF Closed
<1>5. Distinct(g)
  BY <1>2, FewerKeysDistinct DEF Whole
<1>6. Derives(f, g)
  BY <1>2, <1>4, <1>5 DEF Derives, Whole
<1>7. Derives(f, f)
  BY DEF Derives
<1> QED  BY <1>6, <1>7 DEF Personas0

-----------------------------------------------------------------------------
\* A change leads to what derives from the file, or grants one new key.

LEMMA RequestDerives ==
  ASSUME Whole(file), NEW p \in Procs, Request(p)
  PROVE  \/ \E G : Alter(p, G) /\ \A g \in G : Derives(file, g)
         \/ \E k \in Keys, A \in SUBSET Personas : Grant(p, k, A)
<1>1. CASE ProviderCreate(p)
  BY <1>1, AddProviderDerives DEF ProviderCreate
<1>2. CASE ProviderSetKey(p)
  BY <1>2, SetProviderKeyDerives DEF ProviderSetKey
<1>3. CASE ProviderDelete(p)
  BY <1>3, RemoveProviderDerives DEF ProviderDelete
<1>4. CASE PersonaCreate(p)
  BY <1>4, AddPersonaDerives DEF PersonaCreate
<1>5. CASE PersonaUpdate(p)
  <2>1. PICK a \in Personas, l \in Links, t \in Prompts :
          Alter(p, UNION {SetPersonaPrompt(f, a, t) : f \in SetPersonaUpstream(file, a, l)})
    BY <1>5 DEF PersonaUpdate
  <2>2. ASSUME NEW f \in SetPersonaUpstream(file, a, l), NEW g \in SetPersonaPrompt(f, a, t)
        PROVE  Derives(file, g)
    <3>1. Derives(file, f)
      BY SetPersonaUpstreamDerives
    <3>2. Derives(f, g)
      BY <3>1, SetPersonaPromptDerives DEF Derives
    <3> QED  BY <3>1, <3>2, DerivesChain
  <2> QED  BY <2>1, <2>2
<1>6. CASE PersonaDeactivate(p)
  BY <1>6, SetPersonaUpstreamDerives DEF PersonaDeactivate, Links
<1>7. CASE PersonaDelete(p)
  BY <1>7, RemovePersonaDerives DEF PersonaDelete
<1>8. CASE KeyCreate(p)
  BY <1>8 DEF KeyCreate
<1>9. CASE KeyDelete(p)
  BY <1>9, RemoveAPIKeyDerives DEF KeyDelete
<1> QED
  BY <1>1, <1>2, <1>3, <1>4, <1>5, <1>6, <1>7, <1>8, <1>9 DEF Request

LEMMA CommandDerives ==
  ASSUME Whole(file), NEW p \in Procs, Command(p)
  PROVE  \/ \E G : Alter(p, G) /\ \A g \in G : Derives(file, g)
         \/ \E k \in Keys, A \in SUBSET Personas : Grant(p, k, A)
<1>1. CASE cmdProviderAdd(p)
  BY <1>1, AddProviderDerives DEF cmdProviderAdd
<1>2. CASE cmdProviderSetKey(p)
  BY <1>2, SetProviderKeyDerives DEF cmdProviderSetKey
<1>3. CASE cmdProviderRm(p)
  BY <1>3, RemoveProviderDerives DEF cmdProviderRm
<1>4. CASE cmdPersonaAdd(p)
  BY <1>4, AddPersonaDerives DEF cmdPersonaAdd
<1>5. CASE cmdPersonaEdit(p)
  BY <1>5, SetPersonaPromptDerives DEF cmdPersonaEdit
<1>6. CASE cmdPersonaRm(p)
  BY <1>6, RemovePersonaDerives DEF cmdPersonaRm
<1>7. CASE cmdPersonaSet(p)
  BY <1>7, SetPersonaUpstreamDerives DEF cmdPersonaSet
<1>8. CASE cmdKeyCreate(p)
  BY <1>8 DEF cmdKeyCreate
<1>9. CASE cmdKeyRevoke(p)
  BY <1>9, RemoveAPIKeyDerives DEF cmdKeyRevoke
<1> QED
  BY <1>1, <1>2, <1>3, <1>4, <1>5, <1>6, <1>7, <1>8, <1>9 DEF Command

-----------------------------------------------------------------------------
\* The invariant: not the file alone but every copy of it that somebody holds,
\* any of which may become the file, is sound; and so is the key in .env, from
\* which the seed may make one.
IInv ==
  /\ TypeOK
  /\ Sound(file, granted)
  /\ loaded # None => Sound(loaded, granted)
  /\ \A p \in Procs : Sound(op[p].copy, granted)
  /\ Sound(seeding.copy, granted)
  /\ envKey # None => granted[envKey] = {}
  /\ seeding.key # None => granted[seeding.key] = {}

\* A grant to a secret that nobody has had disturbs no copy.
LEMMA GrantKeepsSound ==
  ASSUME NEW f, NEW g \in [Secrets -> (SUBSET Personas) \cup {None}], Sound(f, g),
         NEW s \in Secrets, g[s] = None, NEW A
  PROVE  Sound(f, [g EXCEPT ![s] = A])
BY DEF Sound, Granted, Whole, File, APIKey

\* A file with a key of its own that was granted is sound.
LEMMA NewKeySound ==
  ASSUME NEW f, NEW g \in [Secrets -> (SUBSET Personas) \cup {None}], Sound(f, g),
         NEW k \in Keys, NEW s \in Secrets, NEW A \in SUBSET Personas, g[s] = A,
         NEW h \in AddAPIKey(f, k, s, A)
  PROVE  Sound(h, g)
<1>1. Whole(f)
  BY DEF Sound
<1>2. /\ Whole(h)
      /\ h.key[k] = [secret |-> s, allowed |-> A]
      /\ \A l \in Keys \ {k} : h.key[l] = f.key[l]
  BY <1>1, AddAPIKeyWhole
<1> QED  BY <1>1, <1>2 DEF Sound, Granted

LEMMA EmptyFileSound ==
  ASSUME NEW g
  PROVE  Sound(EmptyFile, g)
BY EmptyFileWhole DEF Sound, Granted, EmptyFile

LEMMA IdleChange == Idle \in Change
BY EmptyFileWhole DEF Idle, Change, Whole

LEMMA NoSeedSeeding == NoSeed \in Seeding
BY EmptyFileWhole DEF NoSeed, Seeding, Whole

LEMMA IInvInit == Init => IInv
<1> SUFFICES ASSUME Init PROVE IInv
  OBVIOUS
<1>1. TypeOK
  <2>1. file \in File
    BY StartAssumption DEF Init
  <2>2. op \in [Procs -> Change]
    BY IdleChange DEF Init
  <2>3. left \in 0 .. Budget
    BY BudgetAssumption DEF Init
  <2>4. seeding \in Seeding
    BY NoSeedSeeding DEF Init
  <2> QED  BY <2>1, <2>2, <2>3, <2>4 DEF Init, TypeOK
<1>2. Sound(file, granted)
  BY StartAssumption DEF Init, Sound, Granted, Whole, Distinct
<1> QED  BY <1>1, <1>2, EmptyFileSound DEF Init, IInv, Idle, NoSeed

LEMMA IInvStep == IInv /\ [Next]_vars => IInv'
<1> SUFFICES ASSUME IInv, [Next]_vars PROVE IInv'
  OBVIOUS
<1> USE DEF IInv
<1>1. ASSUME NEW p \in Procs, NEW G, Alter(p, G), \A g \in G : Derives(file, g)
      PROVE  IInv'
  <2>1. PICK f \in G : /\ op' = [op EXCEPT ![p] = [phase |-> "save", copy |-> f]]
                        /\ left > 0 /\ left' = left - 1
    BY <1>1 DEF Alter, Begin
  <2>2. UNCHANGED <<file, loaded, envKey, inst, owns, seeding, missed, granted>>
    BY <1>1 DEF Alter, Untouched
  <2>3. Sound(f, granted) /\ f \in File
    BY <1>1, <2>1, DerivesSound DEF Derives, Whole
  <2>4. TypeOK'
    BY <2>1, <2>2, <2>3, BudgetAssumption DEF TypeOK, Change
  <2>5. \A q \in Procs : Sound(op'[q].copy, granted)
    BY <2>1, <2>3 DEF TypeOK
  <2> QED  BY <2>2, <2>4, <2>5
<1>2. ASSUME NEW p \in Procs, NEW k \in Keys, NEW A \in SUBSET Personas, Grant(p, k, A)
      PROVE  IInv'
  <2>1. PICK s \in Fresh :
          /\ Begin(p, AddAPIKey(file, k, s, A))
          /\ granted' = [granted EXCEPT ![s] = A]
          /\ Untouched
    BY <1>2 DEF Grant
  <2>2. PICK f \in AddAPIKey(file, k, s, A) :
          /\ op' = [op EXCEPT ![p] = [phase |-> "save", copy |-> f]]
          /\ left > 0 /\ left' = left - 1
    BY <2>1 DEF Begin
  <2>3. UNCHANGED <<file, loaded, envKey, inst, owns, seeding, missed>>
    BY <2>1 DEF Untouched
  <2>4. s \in Secrets /\ granted[s] = None
    BY DEF Fresh
  <2>5. granted' \in [Secrets -> (SUBSET Personas) \cup {None}] /\ granted'[s] = A
    BY <2>1, <2>4 DEF TypeOK
  <2>6. /\ Sound(file, granted')
        /\ loaded # None => Sound(loaded, granted')
        /\ \A q \in Procs : Sound(op[q].copy, granted')
        /\ Sound(seeding.copy, granted')
    BY <2>1, <2>4, GrantKeepsSound DEF TypeOK
  <2>7. Sound(f, granted') /\ f \in File
    BY <2>2, <2>4, <2>5, <2>6, NewKeySound DEF Sound, Whole
  <2>8. TypeOK'
    BY <2>2, <2>3, <2>5, <2>7, BudgetAssumption DEF TypeOK, Change
  <2>9. \A q \in Procs : Sound(op'[q].copy, granted')
    BY <2>2, <2>6, <2>7 DEF TypeOK
  <2>10. /\ envKey # None => granted'[envKey] = {}
         /\ seeding.key # None => granted'[seeding.key] = {}
    BY <2>1, <2>4 DEF TypeOK, Seeding
  <2> QED  BY <2>3, <2>6, <2>8, <2>9, <2>10
<1>3. ASSUME NEW p \in Procs, Request(p) \/ Command(p)
      PROVE  IInv'
  BY <1>1, <1>2, <1>3, RequestDerives, CommandDerives DEF Sound
<1>4. ASSUME NEW p \in Procs, Save(p)
      PROVE  IInv'
  <2>1. TypeOK'
    BY <1>4, EmptyFileWhole DEF Save, TypeOK, Change, Whole
  <2>2. \A q \in Procs : Sound(op'[q].copy, granted)
    BY <1>4, EmptyFileSound DEF Save, TypeOK
  <2> QED  BY <1>4, <2>1, <2>2 DEF Save
<1>5. ASSUME NEW p \in Procs, SaveFails(p) \/ Reload(p) \/ ReloadFails(p) \/ Crash(p)
      PROVE  IInv'
  <2>1. op' = [op EXCEPT ![p] = Idle] /\ UNCHANGED <<file, envKey, seeding, granted>>
    BY <1>5 DEF SaveFails, Reload, ReloadFails, Crash
  <2>2. loaded' \in {loaded, file}
    BY <1>5 DEF SaveFails, Reload, ReloadFails, Crash, LoadFile
  <2>3. TypeOK'
    BY <1>5, IdleChange DEF SaveFails, Reload, ReloadFails, Crash, LoadFile, TypeOK
  <2>4. \A q \in Procs : Sound(op'[q].copy, granted)
    BY <2>1, EmptyFileSound DEF TypeOK, Idle
  <2> QED  BY <2>1, <2>2, <2>3, <2>4
<1>6. CASE cmdLLMReload
  <2>1. TypeOK'
    BY <1>6 DEF cmdLLMReload, LoadFile, TypeOK
  <2> QED  BY <1>6, <2>1 DEF cmdLLMReload, LoadFile
<1>7. ASSUME NEW kind \in {"install", "update"}, SeedLoad(kind)
      PROVE  IInv'
  <2>1. UNCHANGED <<file, loaded, envKey, inst, owns, op, missed, left>>
    BY <1>7 DEF SeedLoad
  <2>2. CASE seeding' = [NoSeed EXCEPT !.phase = "env", !.kind = kind] /\ UNCHANGED granted
    <3>1. seeding'.copy = EmptyFile /\ seeding'.key = None /\ seeding' \in Seeding
      BY <2>2, NoSeedSeeding DEF NoSeed, Seeding
    <3> QED  BY <2>1, <2>2, <3>1, EmptyFileSound DEF TypeOK
  <2>3. Sound(Personas0(file), granted)
    BY Personas0Derives, DerivesSound DEF Sound
  <2>4. ASSUME envKey # None, NEW f \in AddAPIKey(Personas0(file), Default, envKey, {}),
               seeding' = [phase |-> "save", kind |-> kind, copy |-> f, key |-> None],
               UNCHANGED granted
        PROVE  IInv'
    <3>1. Sound(f, granted)
      BY <2>3, <2>4, NewKeySound, DefaultAssumption DEF TypeOK
    <3>2. seeding' \in Seeding
      BY <2>4, <3>1 DEF Seeding, Sound, Whole
    <3> QED  BY <2>1, <2>4, <3>1, <3>2 DEF TypeOK
  <2>5. ASSUME NEW s \in Fresh, NEW f \in AddAPIKey(Personas0(file), Default, s, {}),
               seeding' = [phase |-> "save", kind |-> kind, copy |-> f, key |-> s],
               granted' = [granted EXCEPT ![s] = {}]
        PROVE  IInv'
    <3>1. s \in Secrets /\ granted[s] = None
      BY DEF Fresh
    <3>2. granted' \in [Secrets -> (SUBSET Personas) \cup {None}] /\ granted'[s] = {}
      BY <2>5, <3>1 DEF TypeOK
    <3>3. /\ Sound(file, granted')
          /\ Sound(Personas0(file), granted')
          /\ loaded # None => Sound(loaded, granted')
          /\ \A q \in Procs : Sound(op[q].copy, granted')
      BY <2>3, <2>5, <3>1, GrantKeepsSound DEF TypeOK
    <3>4. Sound(f, granted')
      BY <3>1, <3>2, <3>3, NewKeySound, DefaultAssumption
    <3>5. seeding' \in Seeding
      BY <2>5, <3>1, <3>4 DEF Seeding, Sound, Whole
    <3>6. envKey # None => granted'[envKey] = {}
      BY <2>5, <3>1 DEF TypeOK
    <3> QED  BY <2>1, <2>5, <3>2, <3>3, <3>4, <3>5, <3>6 DEF TypeOK
  <2> QED  BY <1>7, <2>2, <2>4, <2>5 DEF SeedLoad
<1>8. CASE SeedSave
  <2>1. seeding' \in Seeding /\ seeding'.copy = EmptyFile /\ seeding'.key = seeding.key
    BY <1>8, EmptyFileWhole DEF SeedSave, TypeOK, Seeding, Whole
  <2> QED  BY <1>8, <2>1, EmptyFileSound DEF SeedSave, TypeOK, Sound, Whole
<1>9. CASE SeedFails \/ WriteEnv \/ StepFails \/ Up \/ SeedCrash
  <2>1. UNCHANGED <<file, op, granted, left>>
    BY <1>9 DEF SeedFails, WriteEnv, StepFails, Up, SeedCrash
  <2>2. loaded' \in {loaded, file}
    BY <1>9 DEF SeedFails, WriteEnv, StepFails, Up, SeedCrash
  <2>3. /\ seeding' \in Seeding /\ seeding'.copy \in {seeding.copy, EmptyFile}
        /\ seeding'.key \in {seeding.key, None}
    BY <1>9, NoSeedSeeding
    DEF SeedFails, WriteEnv, StepFails, Up, SeedCrash, TypeOK, Seeding, NoSeed
  <2>4. envKey' \in {envKey, seeding.key, None}
    BY <1>9 DEF SeedFails, WriteEnv, StepFails, Up, SeedCrash, NewEnvKey
  <2>5. inst' \in BOOLEAN /\ owns' \in BOOLEAN /\ missed' \in BOOLEAN
    BY <1>9 DEF SeedFails, WriteEnv, StepFails, Up, SeedCrash, TypeOK
  <2>6. seeding.key \in Secrets \cup {None}
    BY DEF TypeOK, Seeding
  <2> QED  BY <2>1, <2>2, <2>3, <2>4, <2>5, <2>6, EmptyFileSound DEF TypeOK
<1>10. ASSUME NEW wipe \in BOOLEAN, Remove(wipe)
       PROVE  IInv'
  BY <1>10, EmptyFileSound DEF Remove, TypeOK, Sound, Whole
<1>11. CASE Stop \/ StartLlmd
  BY <1>11 DEF Stop, StartLlmd, TypeOK
<1>12. CASE UNCHANGED vars
  BY <1>12 DEF vars, TypeOK
<1> QED
  BY <1>3, <1>4, <1>5, <1>6, <1>7, <1>8, <1>9, <1>10, <1>11, <1>12
  DEF Next, Installer, Procs

\* However the writers interleave, every file that is written, is read by llmd or
\* is still in a process's hand is sound (llm.go:49-64).
THEOREM Invariant == Spec => []IInv
BY IInvInit, IInvStep, PTL DEF Spec

\* The file, every copy of it and what llmd has read keep their types, for any
\* number of requests, commands and installs of llmd at once (llm.go:49-64).
THEOREM TypeCorrect == Spec => []TypeOK
<1>1. IInv => TypeOK
  BY DEF IInv
<1> QED  BY <1>1, Invariant, PTL

\* Whichever of the unlocked writers comes last: no persona is linked to a
\* provider that is not there, and no two keys share the prefix by which llmd
\* finds them (llm.go:116-129, 221-238).
THEOREM FileStaysConsistent == Spec => []FileConsistent
<1>1. IInv => FileConsistent
  BY DEF IInv, FileConsistent, Sound, Whole
<1> QED  BY <1>1, Invariant, PTL

\* No removal of a persona, no lost update and no seed widens a key
\* (llm.go:170-178).
THEOREM KeysAsGranted == Spec => []AccessAsGranted
<1>1. IInv => AccessAsGranted
  BY DEF IInv, AccessAsGranted, Sound, Granted
<1> QED  BY <1>1, Invariant, PTL

-----------------------------------------------------------------------------
\* Staleness: each step that makes llmd's file old leaves somebody with a signal
\* to give, and each that takes a signal away gives it or is remembered.
LEMMA StaleStep ==
  TypeOK /\ StaleOnlyUntilSignalled /\ [Next]_vars => StaleOnlyUntilSignalled'
<1> SUFFICES ASSUME TypeOK, StaleOnlyUntilSignalled, [Next]_vars
             PROVE  StaleOnlyUntilSignalled'
  OBVIOUS
<1> USE DEF StaleOnlyUntilSignalled
<1>1. ASSUME NEW p \in Procs, NEW G, Begin(p, G), Untouched
      PROVE  StaleOnlyUntilSignalled'
  <2>1. \A q \in Procs : op[q].phase = "reload" => op'[q].phase = "reload"
    BY <1>1 DEF Begin, Idle, TypeOK
  <2> QED  BY <1>1, <2>1 DEF Untouched
<1>2. ASSUME NEW p \in Procs, Request(p) \/ Command(p)
      PROVE  StaleOnlyUntilSignalled'
  BY <1>1, <1>2
  DEF Request, Command, Alter, Grant, ProviderCreate, ProviderSetKey, ProviderDelete,
      PersonaCreate, PersonaUpdate, PersonaDeactivate, PersonaDelete, KeyCreate, KeyDelete,
      cmdProviderAdd, cmdProviderSetKey, cmdProviderRm, cmdPersonaAdd, cmdPersonaEdit,
      cmdPersonaRm, cmdPersonaSet, cmdKeyCreate, cmdKeyRevoke
<1>3. ASSUME NEW p \in Procs, Save(p)
      PROVE  StaleOnlyUntilSignalled'
  BY <1>3 DEF Save, TypeOK
<1>4. ASSUME NEW p \in Procs, SaveFails(p) \/ Crash(p)
      PROVE  StaleOnlyUntilSignalled'
  BY <1>4 DEF SaveFails, Crash, TypeOK, Idle
<1>5. ASSUME NEW p \in Procs, Reload(p) \/ ReloadFails(p)
      PROVE  StaleOnlyUntilSignalled'
  BY <1>5 DEF Reload, ReloadFails, LoadFile
<1>6. CASE cmdLLMReload
  BY <1>6 DEF cmdLLMReload, LoadFile
<1>7. ASSUME NEW kind \in {"install", "update"}, SeedLoad(kind)
      PROVE  StaleOnlyUntilSignalled'
  BY <1>7 DEF SeedLoad, NoSeed
<1>8. CASE SeedSave
  BY <1>8 DEF SeedSave, TypeOK, Seeding
<1>9. CASE SeedFails
  BY <1>9 DEF SeedFails
<1>10. CASE WriteEnv
  BY <1>10 DEF WriteEnv, TypeOK, Seeding
<1>11. CASE StepFails \/ Up \/ SeedCrash
  BY <1>11 DEF StepFails, Up, SeedCrash
<1>12. ASSUME NEW wipe \in BOOLEAN, Remove(wipe)
       PROVE  StaleOnlyUntilSignalled'
  BY <1>12 DEF Remove
<1>13. CASE Stop \/ StartLlmd
  BY <1>13 DEF Stop, StartLlmd
<1>14. CASE UNCHANGED vars
  BY <1>14 DEF vars
<1> QED
  BY <1>2, <1>3, <1>4, <1>5, <1>6, <1>7, <1>8, <1>9, <1>10, <1>11, <1>12, <1>13, <1>14
  DEF Next, Installer, Procs

\* Of the unlocked writers the last to signal comes after the last to write:
\* llmd is never left with an older file unless a signal was lost
\* (llm.go:49-64, reload.go:14-28).
THEOREM StaleOnlyWhileOwed == Spec => []StaleOnlyUntilSignalled
<1>1. Init => StaleOnlyUntilSignalled
  BY DEF Init, StaleOnlyUntilSignalled
<1> QED  BY <1>1, TypeCorrect, StaleStep, PTL DEF Spec
=============================================================================
