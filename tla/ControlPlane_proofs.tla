------------------------- MODULE ControlPlane_proofs -------------------------
(***************************************************************************)
(* ControlPlane for any number of apps, requests, runs, jobs and versions: *)
(* every variable keeps its type, and a restore under way always has an    *)
(* archive to take the files from; operations never overlap, at most one   *)
(* job runs, its page resolves, and a verdict stands.                      *)
(***************************************************************************)
EXTENDS ControlPlane, SequenceTheorems, TLAPS

\* A restore under way has an archive to restore from.
RestoreHasArchive ==
  \A p \in Procs : op[p].kind = "restore" => archive # None

TypeInv == TypeOK /\ RestoreHasArchive

\* The values processes and apps start from are well typed.
LEMMA RestType == Rest \in Local /\ EmptyState \in State /\ Absent \in AppState
  BY VersionAssumption
  DEF Rest, Local, EmptyState, State, AppState, Absent, Version, AllKinds

\* The invariant holds initially.
LEMMA InitTypeInv == Init => TypeInv
  <1> SUFFICES ASSUME Init PROVE TypeInv
      OBVIOUS
  <1>1. RestoreHasArchive
        BY ScopeAssumption DEF Init, RestoreHasArchive, Rest, AllKinds
  <1>2. /\ catalog \in [Apps -> 1 .. MaxVersion]
        /\ cache \in [Apps -> Version]
        BY VersionAssumption DEF Init, Version
  <1>3. /\ disk \in State
        /\ mem \in State
        /\ op \in [Procs -> Local]
        /\ archive \in Archive \cup {None}
        BY RestType DEF Init
  <1>4. /\ pc \in [Procs -> PC]
        /\ jobs \in [JobIds -> JobStatus]
        BY DEF Init, PC, JobStatus
  <1>5. order \in Seq(JobIds)
        BY DEF Init
  <1>6. owner \in Procs \cup {None} /\ up \in BOOLEAN /\ exiting \in BOOLEAN
        BY DEF Init
  <1>7. TypeOK
        BY <1>2, <1>3, <1>4, <1>5, <1>6 DEF TypeOK
  <1>. QED  BY <1>1, <1>7 DEF TypeInv

\* Entering on an operation and leaving it keep the types of pc and op.
LEMMA EnterType ==
  ASSUME TypeInv, NEW p \in Procs, NEW label \in PC,
         NEW k \in AllKinds \cup {"autoupdate"}, NEW a \in Apps \cup {None},
         NEW d \in Version, Enter(p, label, k, a, d)
  PROVE  /\ pc' \in [Procs -> PC]
         /\ op' \in [Procs -> Local]
         /\ op'[p].kind = k
         /\ \A q \in Procs \ {p} : op'[q] = op[q]
  <1>1. pc' \in [Procs -> PC]
        BY DEF TypeInv, TypeOK, Enter, Goto
  <1>2. [Rest EXCEPT !.kind = k, !.app = a, !.def = d] \in Local
        BY RestType DEF Local, Rest
  <1>. QED  BY <1>1, <1>2 DEF TypeInv, TypeOK, Enter, Rest

\* Leaving resets one process to well-typed values.
LEMMA LeaveType ==
  ASSUME TypeInv, NEW p \in Procs, Leave(p)
  PROVE  /\ pc' \in [Procs -> PC]
         /\ op' \in [Procs -> Local]
         /\ \A q \in Procs : op'[q].kind = "restore" => op[q].kind = "restore"
  <1>1. pc' \in [Procs -> PC]
        BY DEF TypeInv, TypeOK, Leave, Goto, PC
  <1>2. op' \in [Procs -> Local]
        BY RestType DEF TypeInv, TypeOK, Leave
  <1>3. Rest.kind # "restore"
        BY ScopeAssumption DEF Rest, AllKinds
  <1>. QED  BY <1>1, <1>2, <1>3 DEF TypeInv, TypeOK, Leave

\* A new job, with the eviction it causes, keeps the store well typed.
LEMMA CreateJobType ==
  ASSUME TypeInv, NEW j \in JobIds, CreateJob(j)
  PROVE  jobs' \in [JobIds -> JobStatus] /\ order' \in Seq(JobIds)
  <1>1. jobs' \in [JobIds -> JobStatus]
        BY DEF TypeInv, TypeOK, CreateJob, JobStatus
  <1>2. Append(order, j) \in Seq(JobIds) /\ Append(order, j) # <<>>
        BY AppendProperties DEF TypeInv, TypeOK
  <1>3. Tail(Append(order, j)) \in Seq(JobIds)
        BY <1>2, HeadTailProperties
  <1>. QED  BY <1>1, <1>2, <1>3 DEF CreateJob

\* What Install and Update make of the state is a state.
LEMMA AppliedType ==
  ASSUME TypeInv, NEW p \in Procs
  PROVE  Applied(p) \in State
  <1> DEFINE l == op[p]
             e == l.work[l.app]
  <1>1. l.work \in State /\ l.app \in Apps \cup {None} /\ l.def \in Version
        BY DEF TypeInv, TypeOK, Local
  <1>2. CASE l.app \in Apps
    <2>1. e \in AppState
          BY <1>1, <1>2 DEF State
    <2> DEFINE n == [e EXCEPT !.ver = l.def,
                              !.auto = l.kind \in {"install", "infra"} \/ @]
    <2>2. n \in AppState
          BY <1>1, <2>1 DEF AppState
    <2>3. Applied(p) = [l.work EXCEPT ![l.app] = n]
          BY <1>1, <1>2 DEF Applied, State
    <2>. QED  BY <1>1, <2>2, <2>3 DEF State
  <1>3. CASE l.app \notin Apps
        BY <1>1, <1>3 DEF Applied, State
  <1>. QED  BY <1>2, <1>3

\* The assignments of StartInfraJob, PickInfra and AutoNext to the local variables.
LEMMA InfraAssignType ==
  ASSUME op \in [Procs -> Local], NEW p \in Procs, NEW j \in JobIds,
         NEW S \in SUBSET Apps, op' = [op EXCEPT ![p].job = j, ![p].todo = S]
  PROVE  op' \in [Procs -> Local]
  BY DEF Local

\* The assignments of PickInfra to the worker's locals.
LEMMA PickAssignType ==
  ASSUME op \in [Procs -> Local], NEW p \in Procs, NEW a \in Apps,
         NEW d \in Version,
         op' = [op EXCEPT ![p].app = a, ![p].todo = @ \ {a}, ![p].def = d]
  PROVE  op' \in [Procs -> Local] /\ op'[p].kind = op[p].kind
  BY DEF Local

\* The assignments of AutoNext to the run's locals.
LEMMA AutoAssignType ==
  ASSUME op \in [Procs -> Local], NEW u \in Procs, NEW a \in Apps,
         NEW d \in Version,
         op' = [op EXCEPT ![u].todo = @ \ {a}, ![u].app = a, ![u].def = d]
  PROVE  op' \in [Procs -> Local] /\ \A q \in Procs : op'[q].kind = op[q].kind
  BY DEF Local

\* Steps of TypeInv, by groups of actions.
LEMMA BeginTypeInv ==
  ASSUME TypeInv, NEW p \in Requests, Begin(p)
  PROVE  TypeInv'
  <1> p \in Procs
      BY DEF Procs
  <1> USE DEF TypeInv, TypeOK, RestoreHasArchive, fileVars, webVars, jobVars
  <1>6. \A a \in Apps : catalog[a] \in Version
        BY VersionAssumption DEF Version
  <1>1. ASSUME NEW a \in Apps, BeginInstall(p, a) PROVE TypeInv'
    <2>1. CASE cache[a] # 0
      <3>1. Enter(p, "want", "install", a, cache[a])
            BY <1>1, <2>1 DEF BeginInstall
      <3>. QED  BY <1>1, <3>1, EnterType DEF BeginInstall, AllKinds, PC
    <2>2. CASE cache[a] = 0
      <3>1. Enter(p, "dl", "install", a, catalog[a])
            BY <1>1, <2>2 DEF BeginInstall
      <3>. QED  BY <1>1, <1>6, <3>1, EnterType DEF BeginInstall, AllKinds, PC
    <2>. QED  BY <2>1, <2>2
  <1>2. ASSUME NEW a \in Apps, BeginUpdate(p, a) PROVE TypeInv'
    <2>1. Enter(p, "dl", "update", a, catalog[a])
          BY <1>2 DEF BeginUpdate
    <2>2. /\ pc' \in [Procs -> PC]
          /\ op' \in [Procs -> Local]
          /\ op'[p].kind = "update"
          /\ \A q \in Procs \ {p} : op'[q] = op[q]
          BY <1>6, <2>1, EnterType DEF AllKinds, PC
    <2>. QED  BY <1>2, <2>2 DEF BeginUpdate
  <1>3. ASSUME NEW a \in Apps, BeginSync(p, a) PROVE TypeInv'
    <2>1. Enter(p, "dl", "sync", a, catalog[a])
          BY <1>3 DEF BeginSync
    <2>2. /\ pc' \in [Procs -> PC]
          /\ op' \in [Procs -> Local]
          /\ op'[p].kind = "sync"
          /\ \A q \in Procs \ {p} : op'[q] = op[q]
          BY <1>6, <2>1, EnterType DEF AllKinds, PC
    <2>. QED  BY <1>3, <2>2 DEF BeginSync
  <1>4. ASSUME NEW k \in AllKinds, NEW a \in Apps, BeginOnApp(p, k, a)
        PROVE  TypeInv'
    <2>1. 0 \in Version /\ k # "restore"
          BY <1>4, VersionAssumption DEF Version, BeginOnApp
    <2>. QED  BY <1>4, <2>1, EnterType DEF BeginOnApp, PC
  <1>5. ASSUME NEW k \in AllKinds, BeginOnServer(p, k) PROVE TypeInv'
    <2>1. 0 \in Version
          BY VersionAssumption DEF Version
    <2>. QED  BY <1>5, <2>1, EnterType DEF BeginOnServer, PC
  <1>. QED  BY <1>1, <1>2, <1>3, <1>4, <1>5 DEF Begin

\* Download, lock and release.
LEMMA LockTypeInv ==
  ASSUME TypeInv, NEW p \in Procs,
         StoreDefinition(p) \/ TryLock(p) \/ Refused(p) \/ Release(p)
  PROVE  TypeInv'
  <1> USE DEF TypeInv, TypeOK, RestoreHasArchive, fileVars, webVars, jobVars
  <1>1. CASE StoreDefinition(p)
    <2>1. cache' \in [Apps -> Version]
          BY <1>1 DEF StoreDefinition, Local
    <2>2. CASE op[p].kind = "sync"
      <3>1. Leave(p)
            BY <1>1, <2>2 DEF StoreDefinition
      <3>. QED  BY <1>1, <2>1, <3>1, LeaveType DEF StoreDefinition
    <2>3. CASE op[p].kind # "sync"
      <3>1. UNCHANGED op /\ pc' \in [Procs -> PC]
            BY <1>1, <2>3 DEF StoreDefinition, Goto, PC
      <3>. QED  BY <1>1, <2>1, <3>1 DEF StoreDefinition
    <2>. QED  BY <2>2, <2>3
  <1>2. CASE TryLock(p)
        BY <1>2 DEF TryLock, Goto, PC
  <1>3. CASE Refused(p)
        BY <1>3, LeaveType DEF Refused
  <1>4. CASE Release(p)
        BY <1>4, LeaveType DEF Release
  <1>. QED  BY <1>1, <1>2, <1>3, <1>4

\* Start and end of jobs.
LEMMA JobTypeInv ==
  ASSUME TypeInv, NEW p \in Procs,
         StartJob(p) \/ StartInfraJob(p) \/ FinishJob(p)
  PROVE  TypeInv'
  <1> USE DEF TypeInv, TypeOK, RestoreHasArchive, fileVars, webVars, jobVars
  <1>1. CASE StartJob(p)
    <2>1. PICK j \in JobIds : CreateJob(j) /\ op' = [op EXCEPT ![p].job = j]
          BY <1>1 DEF StartJob
    <2>2. op' \in [Procs -> Local]
          BY <2>1 DEF Local
    <2>3. pc' \in [Procs -> PC]
          BY <1>1 DEF StartJob, Goto, PC
    <2>. QED  BY <1>1, <2>1, <2>2, <2>3, CreateJobType DEF StartJob
  <1>2. CASE StartInfraJob(p)
    <2> DEFINE missing == {a \in InfraApps : mem[a].ver = 0}
    <2>1. pc' \in [Procs -> PC]
          BY <1>2 DEF StartInfraJob, Goto, PC
    <2>2. CASE missing = {}
          BY <1>2, <2>1, <2>2 DEF StartInfraJob
    <2>3. CASE missing # {}
      <3>1. missing \in SUBSET Apps
            BY AppsAssumption
      <3>2. PICK j \in JobIds, S \in SUBSET Apps :
              /\ CreateJob(j)
              /\ op' = [op EXCEPT ![p].job = j, ![p].todo = S]
            BY <1>2, <2>3, <3>1 DEF StartInfraJob
      <3>3. op' \in [Procs -> Local]
            BY <3>2, InfraAssignType
      <3>4. jobs' \in [JobIds -> JobStatus] /\ order' \in Seq(JobIds)
            BY <3>2, CreateJobType
      <3>5. \A q \in Procs : op'[q].kind = op[q].kind
            BY <3>2 DEF Local
      <3>. QED  BY <1>2, <2>1, <3>3, <3>4, <3>5 DEF StartInfraJob
    <2>. QED  BY <2>2, <2>3
  <1>3. CASE FinishJob(p)
        BY <1>3 DEF FinishJob, Goto, JobStatus, PC
  <1>. QED  BY <1>1, <1>2, <1>3

\* Operations on apps.
LEMMA AppTypeInv ==
  ASSUME TypeInv, NEW p \in Procs,
         PickInfra(p) \/ Snapshot(p) \/ StartOrStop(p) \/ ApplyAppOp(p)
           \/ CommitChange(p) \/ GiveUp(p)
  PROVE  TypeInv'
  <1> USE DEF TypeInv, TypeOK, RestoreHasArchive, fileVars, webVars, jobVars
  <1>1. CASE PickInfra(p)
    <2>1. pc' \in [Procs -> PC]
          BY <1>1 DEF PickInfra, Goto, PC
    <2>2. ASSUME NEW a \in Apps, NEW d \in Version,
                 op' = [op EXCEPT ![p].app = a, ![p].todo = @ \ {a}, ![p].def = d]
          PROVE  op' \in [Procs -> Local] /\ op'[p].kind = op[p].kind
          BY <2>2, PickAssignType
    <2>3. ASSUME NEW a \in op[p].todo
          PROVE  a \in Apps /\ cache[a] \in Version /\ catalog[a] \in Version
          BY <2>3, VersionAssumption DEF Local, Version
    <2>4. ASSUME op' = [op EXCEPT ![p].ok = FALSE]
          PROVE  op' \in [Procs -> Local] /\ op'[p].kind = op[p].kind
          BY <2>4 DEF Local
    <2>5. op' \in [Procs -> Local] /\ op'[p].kind = op[p].kind
      <3>1. CASE op' = [op EXCEPT ![p].ok = FALSE]
            BY <3>1, <2>4
      <3>2. CASE \E a \in op[p].todo :
                   op' = [op EXCEPT ![p].app = a, ![p].todo = @ \ {a},
                            ![p].def = IF cache[a] # 0 THEN cache[a] ELSE catalog[a]]
        <4>1. PICK a \in op[p].todo :
                op' = [op EXCEPT ![p].app = a, ![p].todo = @ \ {a},
                         ![p].def = IF cache[a] # 0 THEN cache[a] ELSE catalog[a]]
              BY <3>2
        <4> DEFINE d == IF cache[a] # 0 THEN cache[a] ELSE catalog[a]
        <4>2. d \in Version /\ a \in Apps
              BY <2>3
        <4> HIDE DEF d
        <4>3. op' = [op EXCEPT ![p].app = a, ![p].todo = @ \ {a}, ![p].def = d]
              BY <4>1 DEF d
        <4>. QED  BY <2>2, <4>2, <4>3
      <3>. QED  BY <1>1, <3>1, <3>2 DEF PickInfra
    <2>6. \A q \in Procs \ {p} : op'[q] = op[q]
          BY <1>1 DEF PickInfra
    <2>. QED  BY <1>1, <2>1, <2>5, <2>6 DEF PickInfra
  <1>2. CASE Snapshot(p)
        BY <1>2 DEF Snapshot, Goto, Local, PC
  <1>3. CASE StartOrStop(p)
        BY <1>3 DEF StartOrStop, Goto, PC
  <1>4. CASE ApplyAppOp(p)
    <2>1. PICK ok \in BOOLEAN :
            /\ Commit(IF ok THEN Applied(p) ELSE op[p].work)
            /\ op' = [op EXCEPT ![p].ok = ok]
            /\ Goto(p, IF ok /\ op[p].todo # {} THEN "pick" ELSE "fin")
          BY <1>4 DEF ApplyAppOp
    <2>2. op' \in [Procs -> Local] /\ \A q \in Procs : op'[q].kind = op[q].kind
          BY <2>1 DEF Local
    <2>3. pc' \in [Procs -> PC]
          BY <2>1 DEF Goto, PC
    <2>4. (IF ok THEN Applied(p) ELSE op[p].work) \in State
          BY AppliedType DEF Local
    <2>5. mem' \in State /\ disk' \in State
          BY <2>1, <2>4 DEF Commit
    <2>. QED  BY <1>4, <2>2, <2>3, <2>5 DEF ApplyAppOp
  <1>5. CASE CommitChange(p)
    <2> DEFINE a == op[p].app
               Changed == IF op[p].kind = "remove"
                          THEN {[op[p].work EXCEPT ![a] = Absent]}
                          ELSE {[op[p].work EXCEPT ![a].auto = on] : on \in BOOLEAN}
    <2>1. op[p].work \in State
          BY DEF Local
    <2>2. ASSUME NEW on \in BOOLEAN
          PROVE  [op[p].work EXCEPT ![a].auto = on] \in State
          BY <2>1 DEF State, AppState
    <2>3. [op[p].work EXCEPT ![a] = Absent] \in State
          BY <2>1, RestType DEF State
    <2>4. \A s \in Changed : s \in State
          BY <2>2, <2>3
    <2>5. mem' \in State /\ disk' \in State
          BY <1>5, <2>4 DEF CommitChange, Commit
    <2>6. pc' \in [Procs -> PC]
          BY <1>5 DEF CommitChange, Goto, PC
    <2>. QED  BY <1>5, <2>5, <2>6 DEF CommitChange
  <1>6. CASE GiveUp(p)
        BY <1>6 DEF GiveUp, Goto, PC
  <1>. QED  BY <1>1, <1>2, <1>3, <1>4, <1>5, <1>6

\* Backup, restore and self-update.
LEMMA BackupTypeInv ==
  ASSUME TypeInv, NEW p \in Procs,
         Backup(p) \/ RestoreFiles(p) \/ EndRestore(p) \/ SelfUpdate(p)
  PROVE  TypeInv'
  <1> USE DEF TypeInv, TypeOK, RestoreHasArchive, fileVars, webVars, jobVars
  <1>1. CASE Backup(p)
    <2>1. PICK ok \in BOOLEAN :
            /\ archive' = IF ok THEN [state |-> disk, cache |-> cache] ELSE archive
            /\ op' = [op EXCEPT ![p].ok = ok]
          BY <1>1 DEF Backup
    <2>2. op' \in [Procs -> Local] /\ \A q \in Procs : op'[q].kind = op[q].kind
          BY <2>1 DEF Local
    <2>3. [state |-> disk, cache |-> cache] \in Archive
          BY DEF Archive
    <2>4. archive' \in Archive \cup {None} /\ (archive # None => archive' # None)
          BY <2>1, <2>3, ArchiveAssumption
    <2>5. pc' \in [Procs -> PC]
          BY <1>1 DEF Backup, Goto, PC
    <2>. QED  BY <1>1, <2>2, <2>4, <2>5 DEF Backup
  <1>2. CASE RestoreFiles(p)
    <2>1. archive \in Archive
          BY <1>2 DEF RestoreFiles
    <2>. QED  BY <1>2, <2>1 DEF RestoreFiles, Archive, Goto, PC
  <1>3. CASE EndRestore(p)
    <2>1. PICK ok \in BOOLEAN : op' = [op EXCEPT ![p].ok = ok, ![p].exit = ok]
          BY <1>3 DEF EndRestore
    <2>2. op' \in [Procs -> Local] /\ \A q \in Procs : op'[q].kind = op[q].kind
          BY <2>1 DEF Local
    <2>. QED  BY <1>3, <2>2 DEF EndRestore, Goto, PC
  <1>4. CASE SelfUpdate(p)
    <2>1. PICK ok \in BOOLEAN, exit \in BOOLEAN :
            op' = [op EXCEPT ![p].ok = ok, ![p].exit = exit]
          BY <1>4 DEF SelfUpdate
    <2>2. op' \in [Procs -> Local] /\ \A q \in Procs : op'[q].kind = op[q].kind
          BY <2>1 DEF Local
    <2>. QED  BY <1>4, <2>2 DEF SelfUpdate, Goto, PC
  <1>. QED  BY <1>1, <1>2, <1>3, <1>4

\* The nightly run.
LEMMA AutoTypeInv ==
  ASSUME TypeInv, NEW u \in Procs,
         AutoLoad(u) \/ AutoSync(u) \/ AutoNext(u) \/ AutoApply(u)
           \/ AutoDone(u) \/ Kill(u)
  PROVE  TypeInv'
  <1> USE DEF TypeInv, TypeOK, RestoreHasArchive, fileVars, webVars, jobVars
  <1>1. CASE AutoLoad(u)
    <2>1. [Rest EXCEPT !.kind = "autoupdate", !.work = disk] \in Local
          BY RestType DEF Local, Rest
    <2>2. op'[u].kind = "autoupdate"
          BY <1>1, RestType DEF AutoLoad, Rest
    <2>3. op' \in [Procs -> Local] /\ \A q \in Procs \ {u} : op'[q] = op[q]
          BY <1>1, <2>1 DEF AutoLoad
    <2>. QED  BY <1>1, <2>2, <2>3 DEF AutoLoad, Goto, PC
  <1>2. CASE AutoSync(u)
    <2>1. cache' \in [Apps -> Version]
          BY <1>2, VersionAssumption DEF AutoSync, Version
    <2>2. Due(op[u].work, cache') \in SUBSET Apps
          BY DEF Due
    <2>3. PICK S \in SUBSET Apps : op' = [op EXCEPT ![u].todo = S]
          BY <1>2, <2>2 DEF AutoSync
    <2>4. op' \in [Procs -> Local] /\ \A q \in Procs : op'[q].kind = op[q].kind
          BY <2>3 DEF Local
    <2>. QED  BY <1>2, <2>1, <2>4 DEF AutoSync, Goto, PC
  <1>3. CASE AutoNext(u)
    <2>1. PICK a \in op[u].todo :
            \/ /\ op' = [op EXCEPT ![u].todo = @ \ {a}, ![u].app = a,
                                   ![u].def = catalog[a]]
               /\ Goto(u, "dlHeld")
            \/ /\ op' = [op EXCEPT ![u].todo = @ \ {a}]
               /\ UNCHANGED pc
          BY <1>3 DEF AutoNext
    <2>2. a \in Apps /\ catalog[a] \in Version
          BY VersionAssumption DEF Local, Version
    <2>3. op' \in [Procs -> Local] /\ \A q \in Procs : op'[q].kind = op[q].kind
      <3>1. CASE op' = [op EXCEPT ![u].todo = @ \ {a}]
            BY <3>1 DEF Local
      <3>2. CASE op' = [op EXCEPT ![u].todo = @ \ {a}, ![u].app = a,
                                  ![u].def = catalog[a]]
        <4> DEFINE d == catalog[a]
        <4>1. d \in Version /\ a \in Apps
              BY <2>2
        <4> HIDE DEF d
        <4>2. op' = [op EXCEPT ![u].todo = @ \ {a}, ![u].app = a, ![u].def = d]
              BY <3>2 DEF d
        <4>. QED  BY <4>1, <4>2, AutoAssignType
      <3>. QED  BY <2>1, <3>1, <3>2
    <2>4. pc' \in [Procs -> PC]
          BY <2>1 DEF Goto, PC
    <2>. QED  BY <1>3, <2>3, <2>4 DEF AutoNext
  <1>4. CASE AutoApply(u)
    <2>1. PICK ok \in BOOLEAN :
            LET s == IF ok THEN Applied(u) ELSE op[u].work
            IN /\ op' = [op EXCEPT ![u].work = s]
               /\ disk' = s \/ UNCHANGED disk
          BY <1>4 DEF AutoApply
    <2> DEFINE s == IF ok THEN Applied(u) ELSE op[u].work
    <2>2. s \in State
          BY AppliedType DEF Local
    <2>3. op' = [op EXCEPT ![u].work = s] /\ disk' \in {s, disk}
          BY <2>1
    <2> HIDE DEF s
    <2>4. op' \in [Procs -> Local] /\ \A q \in Procs : op'[q].kind = op[q].kind
          BY <2>2, <2>3 DEF Local
    <2>5. disk' \in State
          BY <2>2, <2>3
    <2>. QED  BY <1>4, <2>4, <2>5 DEF AutoApply, Goto, PC
  <1>5. CASE AutoDone(u)
        BY <1>5 DEF AutoDone, Goto, PC
  <1>6. CASE Kill(u)
        BY <1>6, LeaveType DEF Kill
  <1>. QED  BY <1>1, <1>2, <1>3, <1>4, <1>5, <1>6

\* The web process and the catalog server.
LEMMA ServiceTypeInv ==
  ASSUME TypeInv,
         WebDown \/ Boot \/ (\E a \in Apps : Publish(a)) \/ UNCHANGED vars
  PROVE  TypeInv'
  <1> USE DEF TypeInv, TypeOK, RestoreHasArchive, fileVars, webVars, jobVars
  <1>1. CASE WebDown
    <2>1. op' \in [Procs -> Local] /\ pc' \in [Procs -> PC]
          BY <1>1, RestType DEF WebDown, PC
    <2>2. \A q \in Procs : op'[q].kind = "restore" => op[q].kind = "restore"
          BY <1>1, ScopeAssumption DEF WebDown, Rest, AllKinds
    <2>3. jobs' \in [JobIds -> JobStatus] /\ order' \in Seq(JobIds)
          BY <1>1 DEF WebDown, JobStatus
    <2>. QED  BY <1>1, RestType, <2>1, <2>2, <2>3 DEF WebDown
  <1>2. CASE Boot
        BY <1>2 DEF Boot
  <1>3. CASE \E a \in Apps : Publish(a)
    <2>1. PICK a \in Apps : Publish(a)
          BY <1>3
    <2>2. catalog' \in [Apps -> 1 .. MaxVersion]
          BY <2>1, VersionAssumption DEF Publish
    <2>. QED  BY <2>1, <2>2 DEF Publish
  <1>4. CASE UNCHANGED vars
        BY <1>4 DEF vars
  <1>. QED  BY <1>1, <1>2, <1>3, <1>4

\* Every step preserves the invariant.
LEMMA StepTypeInv == TypeInv /\ [Next]_vars => TypeInv'
  <1> SUFFICES ASSUME TypeInv, [Next]_vars PROVE TypeInv'
      OBVIOUS
  <1>1. ASSUME NEW p \in Requests, Begin(p) \/ WebStep(p) PROVE TypeInv'
    <2>1. p \in Procs
          BY DEF Procs
    <2>. QED  BY <1>1, <2>1, BeginTypeInv, LockTypeInv, JobTypeInv, AppTypeInv,
                 BackupTypeInv DEF WebStep
  <1>2. ASSUME NEW u \in Updaters, AutoLoad(u) \/ AutoStep(u) \/ Kill(u)
        PROVE  TypeInv'
    <2>1. u \in Procs
          BY DEF Procs
    <2>. QED  BY <1>2, <2>1, LockTypeInv, AutoTypeInv DEF AutoStep
  <1>. QED  BY <1>1, <1>2, ServiceTypeInv DEF Next, Exit, Crash

\* Every variable keeps its type, whatever the operations, faults and restarts.
THEOREM TypeCorrect == Spec => []TypeOK
  <1>1. Spec => []TypeInv
        BY InitTypeInv, StepTypeInv, PTL DEF Spec
  <1>2. TypeInv => TypeOK
        BY DEF TypeInv
  <1>. QED  BY <1>1, <1>2, PTL

-----------------------------------------------------------------------------
\* The operation lock and the job store.

\* Where a worker can be while its job runs.
Working == {"pick", "dlHeld", "ready", "op", "run", "overlaid", "fin"}

\* Which kinds of operation download outside the lock and which under it; only
\* handlers that start a worker have a job; an updater updates.
KindsFit ==
  \A p \in Procs :
    /\ pc[p] = "dl" => op[p].kind \in {"install", "update", "sync"}
    /\ pc[p] = "dlHeld" => op[p].kind \in {"infra", "autoupdate"}
    /\ op[p].job # None => op[p].kind \in AsyncKinds
    /\ p \in Updaters /\ pc[p] # "idle" => op[p].kind = "autoupdate"

\* p is at work on something that is done as a job.
AtWork(p) == pc[p] \in Working /\ (pc[p] = "op" => op[p].kind \in AsyncKinds)

\* A worker between its first and its last step has a running job.
WorkerHasJob ==
  \A p \in Requests : AtWork(p) =>
    op[p].job \in JobIds /\ jobs[op[p].job] = "running"

\* The running job is the last one that was created.
RunningIsNewest ==
  \A j \in JobIds : jobs[j] = "running" =>
    order # <<>> /\ order[Len(order)] = j

LockInv ==
  /\ TypeInv
  /\ LockProtocol
  /\ KindsFit
  /\ OneRunningJob
  /\ WorkerHasJob
  /\ RunningIsNewest

\* Nobody holds the lock and no job exists at first.
LEMMA InitLockInv == Init => LockInv
  <1> SUFFICES ASSUME Init PROVE LockInv
      OBVIOUS
  <1>1. TypeInv
        BY InitTypeInv
  <1>2. LockProtocol
        BY ProcsAssumption DEF Init, LockProtocol, Critical, Procs
  <1>3. KindsFit
        BY DEF Init, KindsFit, Rest
  <1>4. OneRunningJob /\ RunningIsNewest
        BY DEF Init, OneRunningJob, RunningIsNewest
  <1>5. WorkerHasJob
        BY DEF Init, WorkerHasJob, AtWork, Working, Procs
  <1>. QED  BY <1>1, <1>2, <1>3, <1>4, <1>5 DEF LockInv

\* A process that owns the lock takes a step and keeps it.
LEMMA InsideStep ==
  ASSUME LockInv, TypeInv', NEW p \in Procs,
         Critical(p), Critical(p)',
         UNCHANGED <<owner, jobs, order>>,
         \A q \in Procs \ {p} : pc'[q] = pc[q] /\ op'[q] = op[q],
         op'[p].kind = op[p].kind, op'[p].job = op[p].job,
         pc'[p] = "dlHeld" => op[p].kind \in {"infra", "autoupdate"},
         AtWork(p) /\ op[p].job # None => pc'[p] \in Working,
         AtWork(p)' => AtWork(p) \/ p \in Updaters
  PROVE  LockInv'
  <1> USE DEF LockInv
  <1>1. owner = p
        BY DEF LockProtocol
  <1>2. LockProtocol'
    <2>1. \A q \in Procs \ {p} : Critical(q)' <=> Critical(q)
          BY DEF Critical
    <2>. QED  BY <1>1, <2>1 DEF LockProtocol
  <1>3. KindsFit'
        BY DEF KindsFit, Critical
  <1>4. OneRunningJob'
    <2> SUFFICES ASSUME NEW j \in JobIds, jobs[j] = "running"
                 PROVE  p \in Requests /\ op'[p].job = j /\ pc'[p] \in Working
        BY <1>1 DEF OneRunningJob, Working
    <2>1. p \in Requests /\ op[p].job = j /\ pc[p] \in Working /\ j # None
          BY <1>1, JobsAssumption DEF OneRunningJob, Working
    <2>2. op[p].kind \in AsyncKinds
          BY <2>1 DEF KindsFit
    <2>. QED  BY <2>1, <2>2 DEF AtWork
  <1>5. WorkerHasJob'
    <2> SUFFICES ASSUME NEW q \in Requests, AtWork(q)'
                 PROVE  op'[q].job \in JobIds /\ jobs[op'[q].job] = "running"
        BY DEF WorkerHasJob
    <2>1. q \in Procs /\ q \notin Updaters
          BY ProcsAssumption DEF Procs
    <2>2. AtWork(q) /\ op'[q].job = op[q].job
          BY <2>1 DEF AtWork
    <2>. QED  BY <2>2 DEF WorkerHasJob
  <1>6. RunningIsNewest'
        BY DEF RunningIsNewest
  <1>. QED  BY <1>2, <1>3, <1>4, <1>5, <1>6

\* A process that does not own the lock takes a step and still does not.
LEMMA OutsideStep ==
  ASSUME LockInv, TypeInv', NEW p \in Procs,
         ~Critical(p), ~Critical(p)',
         UNCHANGED <<owner, jobs, order>>,
         \A q \in Procs \ {p} : pc'[q] = pc[q] /\ op'[q] = op[q],
         op'[p].job # None => op'[p].kind \in AsyncKinds,
         pc'[p] = "dl" => op'[p].kind \in {"install", "update", "sync"},
         p \in Updaters /\ pc'[p] # "idle" => op'[p].kind = "autoupdate"
  PROVE  LockInv'
  <1> USE DEF LockInv
  <1>1. owner # p
        BY DEF LockProtocol
  <1>2. LockProtocol'
    <2>1. \A q \in Procs \ {p} : Critical(q)' <=> Critical(q)
          BY DEF Critical
    <2>. QED  BY <1>1, <2>1 DEF LockProtocol
  <1>3. KindsFit'
        BY DEF KindsFit, Critical
  <1>4. OneRunningJob'
        BY <1>1, ProcsAssumption DEF OneRunningJob, Procs
  <1>5. WorkerHasJob'
    <2>1. ~AtWork(p)'
          BY DEF AtWork, Critical, Working
    <2>2. \A q \in Requests \ {p} : AtWork(q)' => AtWork(q) /\ op'[q].job = op[q].job
          BY DEF AtWork, Procs
    <2>. QED  BY <2>1, <2>2 DEF WorkerHasJob
  <1>6. RunningIsNewest'
        BY DEF RunningIsNewest
  <1>. QED  BY <1>2, <1>3, <1>4, <1>5, <1>6

-----------------------------------------------------------------------------
\* Requests up to the lock.

\* A request that enters does not own the lock, and has no job yet.
LEMMA EnterOutside ==
  ASSUME LockInv, NEW p \in Procs, pc[p] = "idle", NEW label \in {"dl", "want"},
         NEW k, NEW a, NEW d, Enter(p, label, k, a, d)
  PROVE  /\ ~Critical(p) /\ ~Critical(p)'
         /\ \A q \in Procs \ {p} : pc'[q] = pc[q] /\ op'[q] = op[q]
         /\ pc'[p] = label /\ op'[p].kind = k /\ op'[p].job = None
  BY DEF LockInv, TypeInv, TypeOK, Enter, Goto, Critical, Rest

\* A process that leaves is outside the lock and forgets its job.
LEMMA LeaveOutside ==
  ASSUME LockInv, NEW p \in Procs, Leave(p)
  PROVE  /\ ~Critical(p)'
         /\ \A q \in Procs \ {p} : pc'[q] = pc[q] /\ op'[q] = op[q]
         /\ pc'[p] = "idle" /\ op'[p].job = None
  BY DEF LockInv, TypeInv, TypeOK, Leave, Goto, Critical, Rest

\* A request begins: it is still outside the lock.
LEMMA BeginLockInv ==
  ASSUME LockInv, TypeInv', NEW p \in Requests, Begin(p)
  PROVE  LockInv'
  <1>1. p \in Procs /\ p \notin Updaters
        BY ProcsAssumption DEF Procs
  <1>2. UNCHANGED <<owner, jobs, order>>
        BY DEF Begin, BeginInstall, BeginUpdate, BeginSync, BeginOnApp,
               BeginOnServer, jobVars
  <1>3. PICK label \in {"dl", "want"}, k \in AllKinds, a \in Apps \cup {None},
             d \in Version :
          /\ pc[p] = "idle"
          /\ Enter(p, label, k, a, d)
          /\ label = "dl" => k \in {"install", "update", "sync"}
    <2>1. \A a \in Apps : cache[a] \in Version /\ catalog[a] \in Version
          BY VersionAssumption DEF LockInv, TypeInv, TypeOK, Version
    <2>2. 0 \in Version
          BY VersionAssumption DEF Version
    <2>3. CASE \E a \in Apps : BeginInstall(p, a)
          BY <2>1, <2>3 DEF BeginInstall, AllKinds
    <2>4. CASE \E a \in Apps : BeginUpdate(p, a)
          BY <2>1, <2>4 DEF BeginUpdate, AllKinds
    <2>5. CASE \E a \in Apps : BeginSync(p, a)
          BY <2>1, <2>5 DEF BeginSync, AllKinds
    <2>6. CASE \E k \in AllKinds, a \in Apps : BeginOnApp(p, k, a)
          BY <2>2, <2>6 DEF BeginOnApp
    <2>7. CASE \E k \in AllKinds : BeginOnServer(p, k)
          BY <2>2, <2>7 DEF BeginOnServer
    <2>. QED  BY <2>3, <2>4, <2>5, <2>6, <2>7 DEF Begin
  <1>4. /\ ~Critical(p) /\ ~Critical(p)'
        /\ \A q \in Procs \ {p} : pc'[q] = pc[q] /\ op'[q] = op[q]
        /\ pc'[p] = label /\ op'[p].kind = k /\ op'[p].job = None
        BY <1>1, <1>3, EnterOutside
  <1>. QED  BY <1>1, <1>2, <1>3, <1>4, OutsideStep

\* The catalog cache is written, before the lock or under it.
LEMMA StoreLockInv ==
  ASSUME LockInv, TypeInv', NEW p \in Procs, StoreDefinition(p)
  PROVE  LockInv'
  <1>1. UNCHANGED <<owner, jobs, order>>
        BY DEF StoreDefinition, jobVars
  <1>2. CASE op[p].kind = "sync"
    <2>1. Leave(p) /\ pc[p] \in {"dl", "dlHeld"}
          BY <1>2 DEF StoreDefinition
    <2>2. ~Critical(p)
          BY <1>2, <2>1 DEF LockInv, KindsFit, Critical
    <2>. QED  BY <1>1, <2>1, <2>2, LeaveOutside, OutsideStep
  <1>3. CASE pc[p] = "dl" /\ op[p].kind # "sync"
    <2>1. Goto(p, "want") /\ UNCHANGED op
          BY <1>3 DEF StoreDefinition, LockInv, KindsFit
    <2>2. /\ ~Critical(p) /\ ~Critical(p)'
          /\ \A q \in Procs \ {p} : pc'[q] = pc[q]
          /\ pc'[p] = "want"
          BY <1>3, <2>1 DEF LockInv, TypeInv, TypeOK, Goto, Critical
    <2>3. /\ op[p].job # None => op[p].kind \in AsyncKinds
          /\ p \in Updaters => op[p].kind = "autoupdate"
          BY <1>3 DEF LockInv, KindsFit
    <2>. QED  BY <1>1, <2>1, <2>2, <2>3, OutsideStep
  <1>4. CASE pc[p] = "dlHeld"
    <2>1. PICK label \in {"ready", "op"} :
            /\ Goto(p, label) /\ UNCHANGED op
            /\ label = "op" => op[p].kind \notin AsyncKinds
          BY <1>4 DEF StoreDefinition, LockInv, KindsFit, AsyncKinds
    <2>2. /\ Critical(p) /\ Critical(p)'
          /\ \A q \in Procs \ {p} : pc'[q] = pc[q]
          /\ pc'[p] = label
          BY <1>4, <2>1 DEF LockInv, TypeInv, TypeOK, Goto, Critical
    <2>3. AtWork(p) /\ pc'[p] \in Working
          BY <1>4, <2>2 DEF AtWork, Working
    <2>. QED  BY <1>1, <2>1, <2>2, <2>3, InsideStep
  <1>. QED  BY <1>2, <1>3, <1>4 DEF StoreDefinition

\* A request that finds the lock taken gives up.
LEMMA RefusedLockInv ==
  ASSUME LockInv, TypeInv', NEW p \in Procs, Refused(p)
  PROVE  LockInv'
  <1>1. ~Critical(p) /\ Leave(p) /\ UNCHANGED <<owner, jobs, order>>
        BY DEF Refused, Critical, jobVars
  <1>. QED  BY <1>1, LeaveOutside, OutsideStep

\* The nightly run loads its state before the lock.
LEMMA AutoLoadLockInv ==
  ASSUME LockInv, TypeInv', NEW u \in Updaters, AutoLoad(u)
  PROVE  LockInv'
  <1>1. u \in Procs
        BY DEF Procs
  <1>2. /\ ~Critical(u) /\ ~Critical(u)'
        /\ \A q \in Procs \ {u} : pc'[q] = pc[q] /\ op'[q] = op[q]
        /\ pc'[u] = "want" /\ op'[u].kind = "autoupdate" /\ op'[u].job = None
        /\ UNCHANGED <<owner, jobs, order>>
        BY <1>1 DEF LockInv, TypeInv, TypeOK, AutoLoad, Goto, Critical, Rest, jobVars
  <1>. QED  BY <1>1, <1>2, OutsideStep

-----------------------------------------------------------------------------
\* The lock changes hands.

\* The lock is taken: the new owner is the only process inside, and no job runs.
LEMMA TryLockLockInv ==
  ASSUME LockInv, TypeInv', NEW p \in Procs, TryLock(p)
  PROVE  LockInv'
  <1> USE DEF LockInv
  <1>1. /\ pc[p] = "want" /\ owner = None /\ owner' = p
        /\ pc'[p] = "held" /\ \A q \in Procs \ {p} : pc'[q] = pc[q]
        /\ UNCHANGED <<op, jobs, order>>
        BY DEF TryLock, Goto, TypeInv, TypeOK, jobVars
  <1>2. LockProtocol'
    <2>1. \A q \in Procs : ~Critical(q)
          BY <1>1, ProcsAssumption DEF LockProtocol, Procs
    <2>2. \A q \in Procs \ {p} : ~Critical(q)'
          BY <1>1, <2>1 DEF Critical
    <2>3. Critical(p)'
          BY <1>1 DEF Critical
    <2>. QED  BY <1>1, <2>2, <2>3 DEF LockProtocol
  <1>3. KindsFit'
        BY <1>1 DEF KindsFit
  <1>4. \A j \in JobIds : jobs[j] # "running"
        BY <1>1, ProcsAssumption DEF OneRunningJob, Procs
  <1>5. WorkerHasJob'
    <2>1. ~AtWork(p)'
          BY <1>1 DEF AtWork, Working
    <2>2. \A q \in Requests \ {p} : AtWork(q)' => AtWork(q)
          BY <1>1 DEF AtWork, Procs
    <2>. QED  BY <1>1, <2>1, <2>2 DEF WorkerHasJob
  <1>. QED  BY <1>1, <1>2, <1>3, <1>4, <1>5 DEF OneRunningJob, RunningIsNewest

\* The owner lets go, and no job of its own is left running.
LEMMA FreeLock ==
  ASSUME LockInv, TypeInv', NEW p \in Procs, Leave(p),
         owner' = IF owner = p THEN None ELSE owner,
         UNCHANGED <<jobs, order>>,
         pc[p] = "rel" \/ p \in Updaters
  PROVE  LockInv'
  <1> USE DEF LockInv
  <1>1. /\ ~Critical(p)'
        /\ \A q \in Procs \ {p} : pc'[q] = pc[q] /\ op'[q] = op[q]
        /\ pc'[p] = "idle" /\ op'[p].job = None
        BY LeaveOutside
  <1>2. LockProtocol'
    <2>1. \A q \in Procs \ {p} : Critical(q)' <=> Critical(q)
          BY <1>1 DEF Critical
    <2>. QED  BY <1>1, <2>1, ProcsAssumption DEF LockProtocol, Procs
  <1>3. KindsFit'
        BY <1>1 DEF KindsFit
  <1>4. OneRunningJob'
    <2> SUFFICES ASSUME NEW j \in JobIds, jobs[j] = "running"
                 PROVE  /\ owner' = owner /\ owner \in Requests \ {p}
                        /\ op[owner].job = j /\ pc[owner] \in Working
        BY <1>1 DEF OneRunningJob, Working, Procs
    <2>1. owner \in Requests /\ op[owner].job = j /\ pc[owner] \in Working
          BY DEF OneRunningJob, Working
    <2>2. owner # p
          BY <2>1, ProcsAssumption DEF Working
    <2>. QED  BY <2>1, <2>2
  <1>5. WorkerHasJob'
    <2>1. ~AtWork(p)'
          BY <1>1 DEF AtWork, Working
    <2>2. \A q \in Requests \ {p} : AtWork(q)' => AtWork(q) /\ op'[q] = op[q]
          BY <1>1 DEF AtWork, Procs
    <2>. QED  BY <2>1, <2>2 DEF WorkerHasJob
  <1>6. RunningIsNewest'
        BY DEF RunningIsNewest
  <1>. QED  BY <1>2, <1>3, <1>4, <1>5, <1>6

\* The owner releases; its job has its verdict by then.
LEMMA ReleaseLockInv ==
  ASSUME LockInv, TypeInv', NEW p \in Procs, Release(p)
  PROVE  LockInv'
  <1>1. pc[p] = "rel" /\ owner' = None /\ Leave(p) /\ UNCHANGED <<jobs, order>>
        BY DEF Release, jobVars
  <1>2. owner = p
        BY <1>1 DEF LockInv, LockProtocol, Critical
  <1>. QED  BY <1>1, <1>2, FreeLock

\* A nightly run is killed, and the kernel drops its lock.
LEMMA KillLockInv ==
  ASSUME LockInv, TypeInv', NEW u \in Updaters, Kill(u)
  PROVE  LockInv'
  <1>1. u \in Procs /\ Leave(u) /\ UNCHANGED <<jobs, order>>
        BY DEF Kill, jobVars, Procs
  <1>. QED  BY <1>1, FreeLock DEF Kill

-----------------------------------------------------------------------------
\* Jobs.

\* The new job is the last of order, and nobody else's status changes except
\* by eviction.
LEMMA CreateJobEffect ==
  ASSUME LockInv, NEW j \in JobIds, CreateJob(j)
  PROVE  /\ jobs[j] = "unused" /\ jobs'[j] = "running"
         /\ \A i \in JobIds \ {j} : jobs'[i] \in {jobs[i], "unused"}
         /\ \A i \in JobIds \ {j} : jobs'[i] = "running" => jobs[i] = "running"
         /\ order' # <<>> /\ order'[Len(order')] = j
  <1> USE DEF LockInv, TypeInv, TypeOK
  <1>1. /\ jobs[j] = "unused" /\ jobs'[j] = "running"
        /\ \A i \in JobIds \ {j} : jobs'[i] \in {jobs[i], "unused"}
        /\ \A i \in JobIds \ {j} : jobs'[i] = "running" => jobs[i] = "running"
        BY DEF CreateJob
  <1> DEFINE longer == Append(order, j)
  <1>2. /\ longer \in Seq(JobIds) /\ longer # <<>>
        /\ Len(longer) = Len(order) + 1 /\ Len(order) \in Nat
        /\ longer[Len(longer)] = j
        BY AppendProperties
  <1>3. CASE order' = longer
        BY <1>1, <1>2, <1>3
  <1>4. CASE Len(longer) > MaxRetained /\ order' = Tail(longer)
    <2> HIDE DEF longer
    <2>1. /\ Tail(longer) \in Seq(JobIds)
          /\ Len(Tail(longer)) = Len(longer) - 1
          /\ \A i \in 1 .. Len(Tail(longer)) : Tail(longer)[i] = longer[i + 1]
          BY <1>2, HeadTailProperties
    <2>2. Len(longer) - 1 \in 1 .. Len(Tail(longer))
          BY <1>2, <1>4, <2>1, JobsAssumption
    <2>3. order'[Len(order')] = j
          BY <1>2, <1>4, <2>1, <2>2
    <2>4. Len(Tail(longer)) # 0
          BY <1>2, <2>1, <2>2
    <2>5. Tail(longer) # <<>>
          BY <2>1, <2>4, EmptySeq
    <2>. QED  BY <1>1, <1>4, <2>3, <2>5
  <1>. QED  BY <1>3, <1>4 DEF CreateJob

\* The owner of the lock creates a job and starts to work on it.
LEMMA CreateStep ==
  ASSUME LockInv, TypeInv', NEW p \in Requests, NEW j \in JobIds,
         pc[p] = "held", CreateJob(j), UNCHANGED owner,
         pc'[p] \in {"pick", "ready", "run"},
         \A q \in Procs \ {p} : pc'[q] = pc[q] /\ op'[q] = op[q],
         op'[p].kind = op[p].kind, op[p].kind \in AsyncKinds, op'[p].job = j
  PROVE  LockInv'
  <1> USE DEF LockInv
  <1>1. p \in Procs /\ p \notin Updaters /\ owner = p
        BY ProcsAssumption DEF LockProtocol, Critical, Procs
  <1>2. LockProtocol'
    <2>1. \A q \in Procs \ {p} : Critical(q)' <=> Critical(q)
          BY DEF Critical
    <2>2. Critical(p)'
          BY DEF Critical
    <2>. QED  BY <1>1, <2>1, <2>2 DEF LockProtocol
  <1>3. KindsFit'
        BY <1>1 DEF KindsFit
  <1>4. \A i \in JobIds : jobs[i] # "running"
        BY <1>1 DEF OneRunningJob
  <1>5. \A i \in JobIds : jobs'[i] = "running" => i = j
        BY <1>4, CreateJobEffect
  <1>6. OneRunningJob'
        BY <1>1, <1>5 DEF OneRunningJob
  <1>7. WorkerHasJob'
    <2>1. \A q \in Requests \ {p} : ~AtWork(q)'
          BY <1>1 DEF LockProtocol, AtWork, Critical, Working, Procs
    <2>. QED  BY <2>1, CreateJobEffect DEF WorkerHasJob
  <1>8. RunningIsNewest'
        BY <1>5, CreateJobEffect DEF RunningIsNewest
  <1>. QED  BY <1>2, <1>3, <1>6, <1>7, <1>8

\* The handler of an app, a backup or the system starts its job.
LEMMA StartJobLockInv ==
  ASSUME LockInv, TypeInv', NEW p \in Requests, StartJob(p)
  PROVE  LockInv'
  <1>1. p \in Procs
        BY DEF Procs
  <1>2. PICK j \in JobIds : CreateJob(j) /\ op' = [op EXCEPT ![p].job = j]
        BY DEF StartJob
  <1>3. /\ pc'[p] \in {"ready", "run"}
        /\ \A q \in Procs \ {p} : pc'[q] = pc[q]
        BY <1>1 DEF StartJob, Goto, LockInv, TypeInv, TypeOK
  <1>4. /\ op'[p].job = j /\ op'[p].kind = op[p].kind
        /\ \A q \in Procs \ {p} : op'[q] = op[q]
        BY <1>1, <1>2 DEF LockInv, TypeInv, TypeOK, Local
  <1>5. pc[p] = "held" /\ op[p].kind \in AsyncKinds /\ UNCHANGED owner
        BY DEF StartJob
  <1>. QED  BY <1>2, <1>3, <1>4, <1>5, CreateStep

\* The handler of the infrastructure job starts it, or leaves.
LEMMA StartInfraLockInv ==
  ASSUME LockInv, TypeInv', NEW p \in Requests, StartInfraJob(p)
  PROVE  LockInv'
  <1> DEFINE missing == {a \in InfraApps : mem[a].ver = 0}
  <1>1. p \in Procs
        BY DEF Procs
  <1>2. pc[p] = "held" /\ op[p].kind \in AsyncKinds /\ UNCHANGED owner
        BY DEF StartInfraJob, AsyncKinds
  <1>3. CASE missing = {}
    <2>1. /\ pc'[p] = "rel" /\ \A q \in Procs \ {p} : pc'[q] = pc[q]
          /\ UNCHANGED <<op, jobs, order>>
          BY <1>1, <1>3 DEF StartInfraJob, Goto, LockInv, TypeInv, TypeOK, jobVars
    <2>2. Critical(p) /\ Critical(p)' /\ ~AtWork(p) /\ ~AtWork(p)'
          BY <1>2, <2>1 DEF Critical, AtWork, Working
    <2>. QED  BY <1>1, <1>2, <2>1, <2>2, InsideStep
  <1>4. CASE missing # {}
    <2>1. PICK j \in JobIds :
            /\ CreateJob(j)
            /\ op' = [op EXCEPT ![p].job = j, ![p].todo = missing]
            /\ Goto(p, "pick")
          BY <1>4 DEF StartInfraJob
    <2>2. pc'[p] = "pick" /\ \A q \in Procs \ {p} : pc'[q] = pc[q]
          BY <1>1, <2>1 DEF Goto, LockInv, TypeInv, TypeOK
    <2> HIDE DEF missing
    <2>3. /\ op'[p].job = j /\ op'[p].kind = op[p].kind
          /\ \A q \in Procs \ {p} : op'[q] = op[q]
          BY <1>1, <2>1 DEF LockInv, TypeInv, TypeOK, Local
    <2>. QED  BY <1>2, <2>1, <2>2, <2>3, CreateStep
  <1>. QED  BY <1>3, <1>4

\* A worker gives its job a verdict and goes to its release.
LEMMA FinishJobLockInv ==
  ASSUME LockInv, TypeInv', NEW p \in Requests, FinishJob(p)
  PROVE  LockInv'
  <1> USE DEF LockInv
  <1>1. p \in Procs /\ p \notin Updaters
        BY ProcsAssumption DEF Procs
  <1>2. /\ pc[p] = "fin" /\ pc'[p] = "rel" /\ UNCHANGED <<owner, op, order>>
        /\ \A q \in Procs \ {p} : pc'[q] = pc[q]
        BY <1>1 DEF FinishJob, Goto, TypeInv, TypeOK
  <1>3. owner = p
        BY <1>1, <1>2 DEF LockProtocol, Critical
  <1>4. LockProtocol'
    <2>1. \A q \in Procs : Critical(q)' <=> Critical(q)
          BY <1>2 DEF Critical
    <2>. QED  BY <1>2, <2>1 DEF LockProtocol
  <1>5. KindsFit'
        BY <1>1, <1>2 DEF KindsFit
  <1>6. \A j \in JobIds : jobs'[j] # "running"
    <2>1. \A j \in JobIds : jobs[j] = "running" => j = op[p].job
          BY <1>3 DEF OneRunningJob
    <2>. QED  BY <2>1 DEF FinishJob, TypeInv, TypeOK
  <1>7. WorkerHasJob'
    <2>1. \A q \in Requests : ~AtWork(q)'
          BY <1>1, <1>2, <1>3 DEF LockProtocol, AtWork, Critical, Working, Procs
    <2>. QED  BY <2>1 DEF WorkerHasJob
  <1>. QED  BY <1>4, <1>5, <1>6, <1>7 DEF OneRunningJob, RunningIsNewest

-----------------------------------------------------------------------------
\* Work under the lock.

\* The infrastructure job goes to its next service, or is done.
LEMMA PickInfraLockInv ==
  ASSUME LockInv, TypeInv', NEW p \in Requests, PickInfra(p)
  PROVE  LockInv'
  <1>1. p \in Procs
        BY DEF Procs
  <1>2. /\ pc[p] = "pick" /\ op[p].kind = "infra"
        /\ UNCHANGED <<owner, jobs, order>>
        BY DEF PickInfra, jobVars
  <1>3. /\ pc'[p] \in {"ready", "dlHeld", "fin"}
        /\ \A q \in Procs \ {p} : pc'[q] = pc[q] /\ op'[q] = op[q]
        BY <1>1 DEF PickInfra, Goto, LockInv, TypeInv, TypeOK
  <1>4. op'[p].kind = op[p].kind /\ op'[p].job = op[p].job
        BY <1>1 DEF PickInfra, LockInv, TypeInv, TypeOK, Local
  <1>5. Critical(p) /\ Critical(p)' /\ AtWork(p) /\ pc'[p] \in Working
        BY <1>2, <1>3 DEF Critical, AtWork, Working
  <1>. QED  BY <1>1, <1>2, <1>3, <1>4, <1>5, InsideStep

\* The owner clones the state.
LEMMA SnapshotLockInv ==
  ASSUME LockInv, TypeInv', NEW p \in Requests, Snapshot(p)
  PROVE  LockInv'
  <1>1. p \in Procs
        BY DEF Procs
  <1>2. /\ pc'[p] = "op" /\ UNCHANGED <<owner, jobs, order>>
        /\ \A q \in Procs \ {p} : pc'[q] = pc[q] /\ op'[q] = op[q]
        /\ op'[p].kind = op[p].kind /\ op'[p].job = op[p].job
        BY <1>1 DEF Snapshot, Goto, LockInv, TypeInv, TypeOK, Local, jobVars
  <1>3. CASE pc[p] = "ready"
    <2>1. Critical(p) /\ Critical(p)' /\ AtWork(p) /\ pc'[p] \in Working
          BY <1>2, <1>3 DEF Critical, AtWork, Working
    <2>. QED  BY <1>1, <1>2, <2>1, InsideStep
  <1>4. CASE pc[p] = "held" /\ op[p].kind \in {"remove", "toggle"}
    <2>1. Critical(p) /\ Critical(p)' /\ ~AtWork(p) /\ ~AtWork(p)'
          BY <1>2, <1>4 DEF Critical, AtWork, Working, AsyncKinds
    <2>. QED  BY <1>1, <1>2, <2>1, InsideStep
  <1>. QED  BY <1>3, <1>4 DEF Snapshot

\* Start and stop of an app go straight to the release.
LEMMA StartOrStopLockInv ==
  ASSUME LockInv, TypeInv', NEW p \in Requests, StartOrStop(p)
  PROVE  LockInv'
  <1>1. p \in Procs
        BY DEF Procs
  <1>2. /\ pc[p] = "held" /\ pc'[p] = "rel" /\ UNCHANGED <<owner, op, jobs, order>>
        /\ \A q \in Procs \ {p} : pc'[q] = pc[q]
        BY <1>1 DEF StartOrStop, Goto, LockInv, TypeInv, TypeOK, jobVars
  <1>3. Critical(p) /\ Critical(p)' /\ ~AtWork(p) /\ ~AtWork(p)'
        BY <1>2 DEF Critical, AtWork, Working
  <1>. QED  BY <1>1, <1>2, <1>3, InsideStep

\* An install or update runs and commits.
LEMMA ApplyLockInv ==
  ASSUME LockInv, TypeInv', NEW p \in Requests, ApplyAppOp(p)
  PROVE  LockInv'
  <1>1. p \in Procs
        BY DEF Procs
  <1>2. PICK ok \in BOOLEAN :
          /\ op' = [op EXCEPT ![p].ok = ok]
          /\ Goto(p, IF ok /\ op[p].todo # {} THEN "pick" ELSE "fin")
        BY DEF ApplyAppOp
  <1>3. /\ pc'[p] \in {"pick", "fin"} /\ UNCHANGED <<owner, jobs, order>>
        /\ \A q \in Procs \ {p} : pc'[q] = pc[q] /\ op'[q] = op[q]
        BY <1>1, <1>2 DEF ApplyAppOp, Goto, LockInv, TypeInv, TypeOK, jobVars
  <1>4. op'[p].kind = op[p].kind /\ op'[p].job = op[p].job
        BY <1>1, <1>2 DEF LockInv, TypeInv, TypeOK, Local
  <1>5. pc[p] = "op" /\ op[p].kind \in AsyncKinds
        BY DEF ApplyAppOp, AsyncKinds
  <1>6. Critical(p) /\ Critical(p)' /\ AtWork(p) /\ pc'[p] \in Working
        BY <1>3, <1>5 DEF Critical, AtWork, Working
  <1>. QED  BY <1>1, <1>3, <1>4, <1>6, InsideStep

\* A locked handler commits its change, or gives up.
LEMMA ChangeLockInv ==
  ASSUME LockInv, TypeInv', NEW p \in Requests, CommitChange(p) \/ GiveUp(p)
  PROVE  LockInv'
  <1>1. p \in Procs
        BY DEF Procs
  <1>2. /\ pc'[p] = "rel" /\ UNCHANGED <<owner, op, jobs, order>>
        /\ \A q \in Procs \ {p} : pc'[q] = pc[q]
        BY <1>1 DEF CommitChange, GiveUp, Goto, LockInv, TypeInv, TypeOK, jobVars
  <1>3. pc[p] = "op" /\ op[p].kind \notin AsyncKinds
        BY DEF CommitChange, GiveUp, AsyncKinds
  <1>4. Critical(p) /\ Critical(p)' /\ ~AtWork(p) /\ ~AtWork(p)'
        BY <1>2, <1>3 DEF Critical, AtWork, Working
  <1>. QED  BY <1>1, <1>2, <1>4, InsideStep

\* Backup, restore and self-update go on with their job.
LEMMA BackupLockInv ==
  ASSUME LockInv, TypeInv', NEW p \in Requests,
         Backup(p) \/ RestoreFiles(p) \/ EndRestore(p) \/ SelfUpdate(p)
  PROVE  LockInv'
  <1>1. p \in Procs
        BY DEF Procs
  <1>2. /\ pc[p] \in {"run", "overlaid"} /\ pc'[p] \in {"overlaid", "fin"}
        /\ UNCHANGED <<owner, jobs, order>>
        /\ \A q \in Procs \ {p} : pc'[q] = pc[q]
        BY <1>1 DEF Backup, RestoreFiles, EndRestore, SelfUpdate, Goto, LockInv,
                    TypeInv, TypeOK, jobVars
  <1>3. /\ op'[p].kind = op[p].kind /\ op'[p].job = op[p].job
        /\ \A q \in Procs \ {p} : op'[q] = op[q]
    <2>1. CASE \E ok \in BOOLEAN : op' = [op EXCEPT ![p].ok = ok]
          BY <1>1, <2>1 DEF LockInv, TypeInv, TypeOK, Local
    <2>2. CASE \E ok \in BOOLEAN, exit \in BOOLEAN :
                 op' = [op EXCEPT ![p].ok = ok, ![p].exit = exit]
          BY <1>1, <2>2 DEF LockInv, TypeInv, TypeOK, Local
    <2>3. CASE UNCHANGED op
          BY <2>3
    <2>. QED  BY <2>1, <2>2, <2>3 DEF Backup, RestoreFiles, EndRestore, SelfUpdate
  <1>4. Critical(p) /\ Critical(p)' /\ AtWork(p) /\ pc'[p] \in Working
        BY <1>2 DEF Critical, AtWork, Working
  <1>. QED  BY <1>1, <1>2, <1>3, <1>4, InsideStep

\* The nightly run works under the lock it owns.
LEMMA AutoLockInv ==
  ASSUME LockInv, TypeInv', NEW u \in Updaters,
         AutoSync(u) \/ AutoNext(u) \/ AutoApply(u) \/ AutoDone(u)
  PROVE  LockInv'
  <1>1. u \in Procs
        BY DEF Procs
  <1>2. /\ pc[u] \in {"held", "pick", "op"} /\ pc'[u] \in {"pick", "dlHeld", "rel"}
        /\ UNCHANGED <<owner, jobs, order>>
        /\ \A q \in Procs \ {u} : pc'[q] = pc[q] /\ op'[q] = op[q]
        BY <1>1 DEF AutoSync, AutoNext, AutoApply, AutoDone, Goto, LockInv,
                    TypeInv, TypeOK, jobVars
  <1>3. op'[u].kind = op[u].kind /\ op'[u].job = op[u].job
    <2> USE DEF LockInv, TypeInv, TypeOK, Local
    <2>1. CASE AutoSync(u)
          BY <1>1, <2>1 DEF AutoSync
    <2>2. CASE AutoNext(u)
      <3>1. PICK a \in op[u].todo :
              \/ op' = [op EXCEPT ![u].todo = @ \ {a}, ![u].app = a,
                                 ![u].def = catalog[a]]
              \/ op' = [op EXCEPT ![u].todo = @ \ {a}]
            BY <2>2 DEF AutoNext
      <3>2. CASE op' = [op EXCEPT ![u].todo = @ \ {a}]
            BY <1>1, <3>2
      <3>3. CASE op' = [op EXCEPT ![u].todo = @ \ {a}, ![u].app = a,
                                  ![u].def = catalog[a]]
            BY <1>1, <3>3
      <3>. QED  BY <3>1, <3>2, <3>3
    <2>3. CASE AutoApply(u)
          BY <1>1, <2>3 DEF AutoApply
    <2>4. CASE AutoDone(u)
          BY <2>4 DEF AutoDone
    <2>. QED  BY <2>1, <2>2, <2>3, <2>4
  <1>4. Critical(u) /\ Critical(u)'
        BY <1>2 DEF Critical
  <1>5. op[u].kind = "autoupdate" /\ op[u].job = None
        BY <1>1, <1>2 DEF LockInv, KindsFit, AsyncKinds
  <1>. QED  BY <1>1, <1>2, <1>3, <1>4, <1>5, InsideStep

-----------------------------------------------------------------------------
\* The web process goes and comes back.

\* The web process ends: its lock and its jobs go with it.
LEMMA WebDownLockInv ==
  ASSUME LockInv, TypeInv', WebDown
  PROVE  LockInv'
  <1> USE DEF LockInv
  <1>1. /\ \A q \in Requests : pc'[q] = "idle" /\ op'[q] = Rest
        /\ \A q \in Updaters : pc'[q] = pc[q] /\ op'[q] = op[q]
        /\ \A j \in JobIds : jobs'[j] = "unused"
        BY ProcsAssumption DEF WebDown, Procs
  <1>2. LockProtocol'
    <2>1. \A q \in Requests : ~Critical(q)' /\ owner' # q
          BY <1>1, ProcsAssumption DEF WebDown, Critical, Procs
    <2>2. \A q \in Updaters : Critical(q)' <=> owner' = q
          BY <1>1, ProcsAssumption DEF WebDown, LockProtocol, Critical, Procs
    <2>. QED  BY <2>1, <2>2 DEF LockProtocol, Procs
  <1>3. KindsFit'
        BY <1>1, ProcsAssumption DEF KindsFit, Rest, Procs
  <1>4. WorkerHasJob'
        BY <1>1 DEF WorkerHasJob, AtWork, Working
  <1>. QED  BY <1>1, <1>2, <1>3, <1>4 DEF OneRunningJob, RunningIsNewest

\* A step that touches neither the lock, the processes nor the jobs.
LEMMA UntouchedLockInv ==
  ASSUME LockInv, TypeInv', UNCHANGED <<owner, pc, op, jobs, order>>
  PROVE  LockInv'
  BY DEF LockInv, LockProtocol, Critical, KindsFit, OneRunningJob, WorkerHasJob,
         AtWork, RunningIsNewest

\* Every step preserves the invariant.
LEMMA StepLockInv == LockInv /\ [Next]_vars => LockInv'
  <1> SUFFICES ASSUME LockInv, [Next]_vars PROVE LockInv'
      OBVIOUS
  <1>1. TypeInv'
        BY StepTypeInv DEF LockInv
  <1>2. ASSUME NEW p \in Requests, Begin(p) \/ WebStep(p) PROVE LockInv'
    <2>1. p \in Procs
          BY DEF Procs
    <2>. QED  BY <1>1, <1>2, <2>1, BeginLockInv, StoreLockInv, TryLockLockInv,
                 RefusedLockInv, ReleaseLockInv, StartJobLockInv,
                 StartInfraLockInv, FinishJobLockInv, PickInfraLockInv,
                 SnapshotLockInv, StartOrStopLockInv, ApplyLockInv,
                 ChangeLockInv, BackupLockInv DEF WebStep
  <1>3. ASSUME NEW u \in Updaters, AutoLoad(u) \/ AutoStep(u) \/ Kill(u)
        PROVE  LockInv'
    <2>1. u \in Procs
          BY DEF Procs
    <2>. QED  BY <1>1, <1>3, <2>1, AutoLoadLockInv, StoreLockInv, TryLockLockInv,
                 RefusedLockInv, ReleaseLockInv, AutoLockInv, KillLockInv
              DEF AutoStep
  <1>4. CASE WebDown
        BY <1>1, <1>4, WebDownLockInv
  <1>5. CASE Boot \/ (\E a \in Apps : Publish(a)) \/ UNCHANGED vars
        BY <1>1, <1>5, UntouchedLockInv DEF Boot, Publish, vars, jobVars
  <1>. QED  BY <1>2, <1>3, <1>4, <1>5 DEF Next, Exit, Crash

-----------------------------------------------------------------------------
\* The inductive invariant of the lock and the jobs holds in every state: the
\* processes between acquire and release are the owner and nobody else, and the
\* running job is the newest one and its worker owns the lock.
THEOREM LockInvariant == Spec => []LockInv
  BY InitLockInv, StepLockInv, PTL DEF Spec

\* The lock protocol holds whatever the handlers, workers, runs and faults do:
\* nobody works without the lock, nobody idle keeps it, no two operations
\* overlap.
THEOREM LockHeldByWorker == Spec => []LockProtocol
  BY LockInvariant, PTL DEF LockInv

\* At most one job is ever running, and its worker owns the lock.
THEOREM AtMostOneJobRuns == Spec => []OneRunningJob
  BY LockInvariant, PTL DEF LockInv

\* Eviction never takes the running job, for any MaxRetained >= 1.
THEOREM RunningJobResolves == Spec => []RunningJobRetained
  <1>1. LockInv => RunningJobRetained
    <2> SUFFICES ASSUME LockInv, NEW j \in JobIds, jobs[j] = "running"
                 PROVE  j \in Retained
        BY DEF RunningJobRetained
    <2>1. order \in Seq(JobIds) /\ order # <<>> /\ order[Len(order)] = j
          BY DEF LockInv, RunningIsNewest, TypeInv, TypeOK
    <2>2. Len(order) \in DOMAIN order
          BY <2>1
    <2>. QED  BY <2>1, <2>2 DEF Retained
  <1>. QED  BY <1>1, LockInvariant, PTL

\* A job that was shown as succeeded or failed is never shown otherwise.
THEOREM VerdictsStand == Spec => JobVerdictStands
  <1>1. LockInv /\ [Next]_vars =>
          [\A j \in JobIds : jobs[j] \in {"ok", "failed"} =>
             jobs'[j] \in {jobs[j], "unused"}]_vars
    <2> SUFFICES ASSUME LockInv, Next, NEW j \in JobIds, jobs[j] \in {"ok", "failed"}
                 PROVE  jobs'[j] \in {jobs[j], "unused"}
        OBVIOUS
    <2>1. ASSUME NEW i \in JobIds, CreateJob(i)
          PROVE  jobs'[j] \in {jobs[j], "unused"}
          BY <2>1, CreateJobEffect
    <2>2. ASSUME NEW p \in Requests, FinishJob(p) PROVE jobs'[j] = jobs[j]
      <3>1. p \in Procs /\ AtWork(p)
            BY <2>2 DEF FinishJob, AtWork, Working, Procs
      <3>2. op[p].job # j
            BY <3>1 DEF LockInv, WorkerHasJob
      <3>. QED  BY <2>2, <3>2 DEF FinishJob, LockInv, TypeInv, TypeOK
    <2>3. CASE WebDown
          BY <2>3 DEF WebDown
    <2>4. CASE UNCHANGED jobs
          BY <2>4
    <2>5. ASSUME NEW p \in Requests, Begin(p) PROVE UNCHANGED jobs
          BY <2>5 DEF Begin, BeginInstall, BeginUpdate, BeginSync, BeginOnApp,
                      BeginOnServer, jobVars
    <2>6. ASSUME NEW p \in Requests, WebStep(p)
          PROVE  \/ UNCHANGED jobs
                 \/ FinishJob(p)
                 \/ \E i \in JobIds : CreateJob(i)
      <3>1. CASE StoreDefinition(p) \/ TryLock(p) \/ Refused(p) \/ Release(p)
            BY <3>1 DEF StoreDefinition, TryLock, Refused, Release, jobVars
      <3>2. CASE StartJob(p) \/ StartInfraJob(p)
            BY <3>2 DEF StartJob, StartInfraJob, jobVars
      <3>3. CASE PickInfra(p) \/ Snapshot(p) \/ StartOrStop(p) \/ ApplyAppOp(p)
                   \/ CommitChange(p) \/ GiveUp(p)
            BY <3>3 DEF PickInfra, Snapshot, StartOrStop, ApplyAppOp,
                        CommitChange, GiveUp, jobVars
      <3>4. CASE Backup(p) \/ RestoreFiles(p) \/ EndRestore(p) \/ SelfUpdate(p)
            BY <3>4 DEF Backup, RestoreFiles, EndRestore, SelfUpdate, jobVars
      <3>. QED  BY <2>6, <3>1, <3>2, <3>3, <3>4 DEF WebStep
    <2>7. ASSUME NEW u \in Updaters, AutoLoad(u) \/ AutoStep(u) \/ Kill(u)
          PROVE  UNCHANGED jobs
          BY <2>7 DEF AutoLoad, AutoStep, Kill, StoreDefinition, TryLock, Refused,
                      Release, AutoSync, AutoNext, AutoApply, AutoDone, jobVars
    <2>8. CASE Boot \/ \E a \in Apps : Publish(a)
          BY <2>8 DEF Boot, Publish, jobVars
    <2>. QED  BY <2>1, <2>2, <2>3, <2>4, <2>5, <2>6, <2>7, <2>8
              DEF Next, Exit, Crash
  <1>. QED  BY <1>1, LockInvariant, PTL DEF Spec, JobVerdictStands
=============================================================================
