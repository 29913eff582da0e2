--------------------- MODULE ControlPlaneRefines_proofs ---------------------
(***************************************************************************)
(* The web server by itself, no autoupdate run and no restore beside it    *)
(* and no write failing: its memory is always what state.yaml says, and it *)
(* implements ClaimedStore.  The runs of MCLostUpdate and                  *)
(* MCRestoreOverwritten show why each condition is needed.                 *)
(***************************************************************************)
EXTENDS ControlPlane_proofs

WebOnly == Updaters = {} /\ "restore" \notin Kinds /\ "save" \notin Faults

OneAppKinds == {"install", "update", "remove", "toggle"}

\* What p works with fits what it claims: a copy of the present state, and an
\* app of its own.
Fits(p) ==
  /\ op[p].kind \notin {"restore", "autoupdate"}
  /\ pc[p] = "op" => op[p].work = mem
  /\ op[p].kind \in OneAppKinds => op[p].app \in Apps
  /\ op[p].kind = "infra" =>
       /\ op[p].todo \in SUBSET InfraApps
       /\ pc[p] \in {"dlHeld", "ready", "op"} => op[p].app \in InfraApps

DownIsIdle == ~up => \A p \in Procs : pc[p] = "idle"

WebInv ==
  /\ LockInv
  /\ MemoryIsDisk
  /\ DownIsIdle
  /\ \A p \in Procs : Fits(p)

\* The web server is down at first, with nothing in memory or on disk.
LEMMA InitWebInv == Init => WebInv
  <1> SUFFICES ASSUME Init PROVE WebInv
      OBVIOUS
  <1>1. MemoryIsDisk /\ DownIsIdle
        BY DEF Init, MemoryIsDisk, DownIsIdle
  <1>2. \A p \in Procs : Fits(p)
        BY ScopeAssumption DEF Init, Fits, Rest, AllKinds, OneAppKinds
  <1>. QED  BY <1>1, <1>2, InitLockInv DEF WebInv

\* One process goes on, and the state stays.
LEMMA QuietStep ==
  ASSUME WebInv, LockInv', NEW p \in Procs, up, UNCHANGED <<mem, disk, up>>,
         \A q \in Procs \ {p} : pc'[q] = pc[q] /\ op'[q] = op[q],
         Fits(p)'
  PROVE  WebInv'
  <1>1. \A q \in Procs : Fits(q)'
        BY DEF WebInv, Fits
  <1>. QED  BY <1>1 DEF WebInv, MemoryIsDisk, DownIsIdle

\* The owner of the lock commits a state of its own.
LEMMA CommitStep ==
  ASSUME WebInv, LockInv', NEW p \in Procs, Critical(p), up, up', mem' = disk',
         pc'[p] # "op",
         \A q \in Procs \ {p} : pc'[q] = pc[q] /\ op'[q] = op[q],
         op'[p].kind = op[p].kind, op'[p].app = op[p].app, op'[p].todo = op[p].todo,
         pc'[p] \notin {"dlHeld", "ready"}
  PROVE  WebInv'
  <1>1. \A q \in Procs \ {p} : pc[q] # "op"
        BY DEF WebInv, LockInv, LockProtocol, Critical
  <1>2. \A q \in Procs \ {p} : Fits(q)'
        BY <1>1 DEF WebInv, Fits
  <1>3. Fits(p)'
        BY DEF WebInv, Fits
  <1>. QED  BY <1>2, <1>3 DEF WebInv, MemoryIsDisk, DownIsIdle

\* A process that leaves has no clone left to fit.
LEMMA LeaveFits ==
  ASSUME WebInv, NEW p \in Procs, Leave(p)
  PROVE  Fits(p)' /\ \A q \in Procs \ {p} : pc'[q] = pc[q] /\ op'[q] = op[q]
  <1>1. pc'[p] = "idle" /\ op'[p] = Rest
        BY DEF WebInv, LockInv, TypeInv, TypeOK, Leave, Goto
  <1>2. Rest.kind \notin AllKinds \cup {"autoupdate"}
        BY ScopeAssumption DEF Rest
  <1>3. Fits(p)'
        BY <1>1, <1>2 DEF Fits, OneAppKinds, AllKinds
  <1>. QED  BY <1>3 DEF WebInv, LockInv, TypeInv, TypeOK, Leave, Goto

\* A request begins: state and memory stay, and it has no clone yet.
LEMMA BeginWebInv ==
  ASSUME WebOnly, WebInv, LockInv', NEW p \in Requests, Begin(p)
  PROVE  WebInv'
  <1> p \in Procs
      BY DEF Procs
  <1>1. up /\ UNCHANGED <<mem, disk, up>>
        BY DEF Begin, BeginInstall, BeginUpdate, BeginSync, BeginOnApp,
               BeginOnServer, webVars, fileVars
  <1>2. PICK label, k, a, d :
          /\ label \in {"dl", "want"} /\ k \in Kinds
          /\ Enter(p, label, k, a, d)
          /\ k # "restore"
          /\ k \in OneAppKinds => a \in Apps
    <2> USE DEF WebOnly, OneAppKinds
    <2>1. CASE \E a \in Apps : BeginInstall(p, a)
          BY <2>1 DEF BeginInstall
    <2>2. CASE \E a \in Apps : BeginUpdate(p, a)
          BY <2>2 DEF BeginUpdate
    <2>3. CASE \E a \in Apps : BeginSync(p, a)
          BY <2>3 DEF BeginSync
    <2>4. CASE \E k \in AllKinds, a \in Apps : BeginOnApp(p, k, a)
          BY <2>4 DEF BeginOnApp
    <2>5. CASE \E k \in AllKinds : BeginOnServer(p, k)
          BY <2>5 DEF BeginOnServer
    <2>. QED  BY <2>1, <2>2, <2>3, <2>4, <2>5 DEF Begin
  <1>3. /\ pc'[p] = label /\ op'[p].kind = k /\ op'[p].app = a /\ op'[p].todo = {}
        /\ \A q \in Procs \ {p} : pc'[q] = pc[q] /\ op'[q] = op[q]
        BY <1>2 DEF WebInv, LockInv, TypeInv, TypeOK, Enter, Goto, Rest
  <1>4. k # "autoupdate"
        BY <1>2, ScopeAssumption DEF AllKinds
  <1>5. Fits(p)'
        BY <1>2, <1>3, <1>4 DEF Fits
  <1>. QED  BY <1>1, <1>3, <1>5, QuietStep

\* A step that leaves the local variables of p alone and does not take it to
\* where they matter more.
LEMMA SameLocals ==
  ASSUME WebInv, NEW p \in Procs, UNCHANGED <<mem, op>>,
         pc'[p] # "op",
         pc'[p] \in {"dlHeld", "ready"} => pc[p] \in {"dlHeld", "ready", "op"}
  PROVE  Fits(p)'
  BY DEF WebInv, Fits

\* Steps up to the lock and the release change no state.
LEMMA LockWebInv ==
  ASSUME WebInv, LockInv', NEW p \in Procs,
         StoreDefinition(p) \/ TryLock(p) \/ Refused(p) \/ Release(p)
  PROVE  WebInv'
  <1> USE DEF WebInv, LockInv, TypeInv, TypeOK
  <1>1. up /\ UNCHANGED <<mem, disk, up>>
        BY DEF DownIsIdle, StoreDefinition, TryLock, Refused, Release, webVars,
               fileVars
  <1>2. CASE Refused(p) \/ Release(p)
        BY <1>1, <1>2, LeaveFits, QuietStep DEF Refused, Release
  <1>3. CASE TryLock(p)
    <2>1. /\ pc'[p] = "held" /\ UNCHANGED op
          /\ \A q \in Procs \ {p} : pc'[q] = pc[q]
          BY <1>3 DEF TryLock, Goto
    <2>. QED  BY <1>1, <2>1, SameLocals, QuietStep
  <1>4. CASE StoreDefinition(p)
    <2>1. CASE op[p].kind = "sync"
          BY <1>1, <1>4, <2>1, LeaveFits, QuietStep DEF StoreDefinition
    <2>2. CASE op[p].kind # "sync"
      <3>1. op[p].kind # "autoupdate" /\ pc[p] \in {"dl", "dlHeld"}
            BY <1>4 DEF StoreDefinition, Fits
      <3>2. /\ pc'[p] \in {"ready", "want"} /\ UNCHANGED op
            /\ \A q \in Procs \ {p} : pc'[q] = pc[q]
            /\ pc'[p] = "ready" => pc[p] = "dlHeld"
            BY <1>4, <2>2, <3>1 DEF StoreDefinition, Goto, KindsFit
      <3>. QED  BY <1>1, <3>2, SameLocals, QuietStep
    <2>. QED  BY <2>1, <2>2
  <1>. QED  BY <1>2, <1>3, <1>4

\* Steps on the job store change no state.
LEMMA JobWebInv ==
  ASSUME WebInv, LockInv', NEW p \in Procs,
         StartJob(p) \/ StartInfraJob(p) \/ FinishJob(p)
  PROVE  WebInv'
  <1> USE DEF WebInv, LockInv, TypeInv, TypeOK
  <1>1. up /\ UNCHANGED <<mem, disk, up>>
        BY DEF DownIsIdle, StartJob, StartInfraJob, FinishJob, webVars, fileVars
  <1>2. CASE StartJob(p)
    <2>1. PICK j \in JobIds : op' = [op EXCEPT ![p].job = j]
          BY <1>2 DEF StartJob
    <2>2. /\ op'[p].kind = op[p].kind /\ op'[p].app = op[p].app
          /\ \A q \in Procs \ {p} : op'[q] = op[q]
          BY <2>1 DEF Local
    <2>3. /\ op[p].kind # "infra" /\ pc'[p] # "op"
          /\ \A q \in Procs \ {p} : pc'[q] = pc[q]
          BY <1>2 DEF StartJob, Goto
    <2>4. Fits(p)'
          BY <2>2, <2>3 DEF Fits
    <2>. QED  BY <1>1, <2>2, <2>3, <2>4, QuietStep
  <1>3. CASE StartInfraJob(p)
    <2> DEFINE missing == {a \in InfraApps : mem[a].ver = 0}
    <2>1. /\ op[p].kind = "infra" /\ pc'[p] \in {"rel", "pick"}
          /\ \A q \in Procs \ {p} : pc'[q] = pc[q]
          BY <1>3 DEF StartInfraJob, Goto
    <2>2. CASE UNCHANGED op
          BY <1>1, <2>1, <2>2, SameLocals, QuietStep
    <2>3. CASE \E j \in JobIds :
                 op' = [op EXCEPT ![p].job = j, ![p].todo = missing]
      <3>1. missing \in SUBSET InfraApps
            OBVIOUS
      <3> HIDE DEF missing
      <3>2. /\ op'[p].kind = op[p].kind /\ op'[p].todo = missing
            /\ \A q \in Procs \ {p} : op'[q] = op[q]
            BY <2>3 DEF Local
      <3>3. Fits(p)'
            BY <2>1, <3>1, <3>2 DEF Fits, OneAppKinds
      <3>. QED  BY <1>1, <2>1, <3>2, <3>3, QuietStep
    <2>. QED  BY <1>3, <2>2, <2>3 DEF StartInfraJob
  <1>4. CASE FinishJob(p)
    <2>1. /\ pc'[p] = "rel" /\ UNCHANGED op
          /\ \A q \in Procs \ {p} : pc'[q] = pc[q]
          BY <1>4 DEF FinishJob, Goto
    <2>. QED  BY <1>1, <2>1, SameLocals, QuietStep
  <1>. QED  BY <1>2, <1>3, <1>4

\* The infrastructure job turns to its next service without a commit.
LEMMA PickInfraWebInv ==
  ASSUME WebInv, LockInv', NEW p \in Procs, PickInfra(p)
  PROVE  WebInv'
  <1> USE DEF WebInv, LockInv, TypeInv, TypeOK
  <1>1. up /\ UNCHANGED <<mem, disk, up>>
        BY DEF DownIsIdle, PickInfra, webVars, fileVars
  <1>2. /\ op[p].kind = "infra" /\ pc'[p] \in {"ready", "dlHeld", "fin"}
        /\ \A q \in Procs \ {p} : pc'[q] = pc[q] /\ op'[q] = op[q]
        BY DEF PickInfra, Goto
  <1>3. op[p].todo \in SUBSET InfraApps
        BY <1>2 DEF Fits
  <1>4. CASE \E a \in op[p].todo :
               op' = [op EXCEPT ![p].app = a, ![p].todo = @ \ {a},
                        ![p].def = IF cache[a] # 0 THEN cache[a] ELSE catalog[a]]
    <2>1. PICK a \in op[p].todo :
            op' = [op EXCEPT ![p].app = a, ![p].todo = @ \ {a},
                     ![p].def = IF cache[a] # 0 THEN cache[a] ELSE catalog[a]]
          BY <1>4
    <2>2. /\ op'[p].kind = op[p].kind /\ op'[p].app = a
          /\ op'[p].todo = op[p].todo \ {a}
          BY <2>1 DEF Local
    <2>3. Fits(p)'
          BY <1>2, <1>3, <2>2 DEF Fits, OneAppKinds
    <2>. QED  BY <1>1, <1>2, <2>3, QuietStep
  <1>5. CASE op' = [op EXCEPT ![p].ok = FALSE] /\ pc'[p] = "fin"
    <2>1. op'[p].kind = op[p].kind /\ op'[p].todo = op[p].todo
          BY <1>5 DEF Local
    <2>2. Fits(p)'
          BY <1>2, <1>3, <1>5, <2>1 DEF Fits, OneAppKinds
    <2>. QED  BY <1>1, <1>2, <2>2, QuietStep
  <1>. QED  BY <1>4, <1>5 DEF PickInfra, Goto

\* A clone taken under the lock is the memory, which is the file.
LEMMA SnapshotWebInv ==
  ASSUME WebInv, LockInv', NEW p \in Procs, Snapshot(p)
  PROVE  WebInv'
  <1> USE DEF WebInv, LockInv, TypeInv, TypeOK
  <1>1. up /\ UNCHANGED <<mem, disk, up>>
        BY DEF DownIsIdle, Snapshot, webVars, fileVars
  <1>2. /\ pc'[p] = "op" /\ op'[p].work = mem
        /\ op'[p].kind = op[p].kind /\ op'[p].app = op[p].app
        /\ op'[p].todo = op[p].todo
        /\ \A q \in Procs \ {p} : pc'[q] = pc[q] /\ op'[q] = op[q]
        BY DEF Snapshot, Goto, Local
  <1>3. op[p].kind = "infra" => pc[p] = "ready"
        BY DEF Snapshot
  <1>4. Fits(p)'
        BY <1>1, <1>2, <1>3 DEF Fits
  <1>. QED  BY <1>1, <1>2, <1>4, QuietStep

\* An install or update commits its clone to memory and file alike.
LEMMA ApplyWebInv ==
  ASSUME WebOnly, WebInv, LockInv', NEW p \in Procs, ApplyAppOp(p)
  PROVE  WebInv'
  <1> USE DEF WebInv, LockInv, TypeInv, TypeOK
  <1>1. PICK ok \in BOOLEAN :
          /\ Commit(IF ok THEN Applied(p) ELSE op[p].work)
          /\ op' = [op EXCEPT ![p].ok = ok]
          /\ Goto(p, IF ok /\ op[p].todo # {} THEN "pick" ELSE "fin")
        BY DEF ApplyAppOp
  <1>2. pc[p] = "op" /\ Critical(p) /\ up /\ up'
        BY DEF ApplyAppOp, Critical, DownIsIdle
  <1>3. mem' = disk'
        BY <1>1 DEF Commit, WebOnly
  <1>4. /\ op'[p].kind = op[p].kind /\ op'[p].app = op[p].app
        /\ op'[p].todo = op[p].todo
        /\ \A q \in Procs \ {p} : op'[q] = op[q]
        BY <1>1 DEF Local
  <1>5. pc'[p] \in {"pick", "fin"} /\ \A q \in Procs \ {p} : pc'[q] = pc[q]
        BY <1>1 DEF Goto
  <1>. QED  BY <1>2, <1>3, <1>4, <1>5, CommitStep

\* A locked handler commits its change to memory and file alike.
LEMMA ChangeWebInv ==
  ASSUME WebOnly, WebInv, LockInv', NEW p \in Procs,
         CommitChange(p) \/ GiveUp(p) \/ StartOrStop(p)
  PROVE  WebInv'
  <1> USE DEF WebInv, LockInv, TypeInv, TypeOK
  <1>1. /\ up /\ up' /\ Critical(p) /\ pc'[p] = "rel" /\ UNCHANGED op
        /\ \A q \in Procs \ {p} : pc'[q] = pc[q]
        BY DEF CommitChange, GiveUp, StartOrStop, Goto, Critical, DownIsIdle, webVars
  <1>2. mem' = disk'
        BY <1>1 DEF CommitChange, GiveUp, StartOrStop, Commit, WebOnly,
                    MemoryIsDisk, webVars, fileVars
  <1>. QED  BY <1>1, <1>2, CommitStep

\* Backup and self-update change no state; restores are excluded.
LEMMA RunWebInv ==
  ASSUME WebInv, LockInv', NEW p \in Procs,
         Backup(p) \/ RestoreFiles(p) \/ EndRestore(p) \/ SelfUpdate(p)
  PROVE  WebInv'
  <1> USE DEF WebInv, LockInv, TypeInv, TypeOK
  <1>1. op[p].kind \notin {"restore", "autoupdate"}
        BY DEF Fits
  <1>2. /\ up /\ UNCHANGED <<mem, disk, up>> /\ op[p].kind \in {"backup", "selfupdate"}
        /\ pc'[p] = "fin" /\ \A q \in Procs \ {p} : pc'[q] = pc[q]
        BY <1>1 DEF Backup, RestoreFiles, EndRestore, SelfUpdate, Goto, DownIsIdle,
                    webVars, fileVars
  <1>3. op'[p].kind = op[p].kind /\ \A q \in Procs \ {p} : op'[q] = op[q]
    <2>1. CASE \E ok \in BOOLEAN : op' = [op EXCEPT ![p].ok = ok]
          BY <2>1 DEF Local
    <2>2. CASE \E ok \in BOOLEAN, exit \in BOOLEAN :
                 op' = [op EXCEPT ![p].ok = ok, ![p].exit = exit]
          BY <2>2 DEF Local
    <2>. QED  BY <1>1, <2>1, <2>2 DEF Backup, RestoreFiles, EndRestore, SelfUpdate
  <1>4. Fits(p)'
        BY <1>1, <1>2, <1>3 DEF Fits, OneAppKinds
  <1>. QED  BY <1>2, <1>3, <1>4, QuietStep

\* The service goes down and comes back with what is on disk.
LEMMA ServiceWebInv ==
  ASSUME WebOnly, WebInv, LockInv',
         WebDown \/ Boot \/ (\E a \in Apps : Publish(a)) \/ UNCHANGED vars
  PROVE  WebInv'
  <1> USE DEF WebInv
  <1>1. CASE WebDown
    <2>1. \A p \in Procs : pc'[p] = "idle" /\ op'[p] = Rest
          BY <1>1 DEF WebDown, WebOnly, Procs
    <2>2. Rest.kind \notin AllKinds \cup {"autoupdate"}
          BY ScopeAssumption DEF Rest
    <2>3. \A p \in Procs : Fits(p)'
          BY <2>1, <2>2 DEF Fits, OneAppKinds, AllKinds
    <2>. QED  BY <1>1, <2>1, <2>3 DEF WebDown, MemoryIsDisk, DownIsIdle
  <1>2. CASE Boot
    <2>1. \A p \in Procs : Fits(p)'
          BY <1>2 DEF Boot, DownIsIdle, Fits
    <2>. QED  BY <1>2, <2>1 DEF Boot, MemoryIsDisk, DownIsIdle, fileVars
  <1>3. CASE \E a \in Apps : Publish(a)
        BY <1>3 DEF Publish, webVars, MemoryIsDisk, DownIsIdle, Fits
  <1>4. CASE UNCHANGED vars
        BY <1>4 DEF vars, MemoryIsDisk, DownIsIdle, Fits
  <1>. QED  BY <1>1, <1>2, <1>3, <1>4

\* Every step preserves the invariant.
LEMMA StepWebInv == WebOnly /\ WebInv /\ [Next]_vars => WebInv'
  <1> SUFFICES ASSUME WebOnly, WebInv, [Next]_vars PROVE WebInv'
      OBVIOUS
  <1>1. LockInv'
        BY StepLockInv DEF WebInv
  <1>2. ASSUME NEW p \in Requests, Begin(p) \/ WebStep(p) PROVE WebInv'
    <2>1. p \in Procs
          BY DEF Procs
    <2>. QED  BY <1>1, <1>2, <2>1, BeginWebInv, LockWebInv, JobWebInv,
                 PickInfraWebInv, SnapshotWebInv, ApplyWebInv, ChangeWebInv,
                 RunWebInv DEF WebStep
  <1>3. Updaters = {}
        BY DEF WebOnly
  <1>. QED  BY <1>1, <1>2, <1>3, ServiceWebInv DEF Next, Exit, Crash

\* The memory of the web server is state.yaml, whenever it runs.
THEOREM MemoryFollowsDisk ==
  ASSUME WebOnly
  PROVE  Spec => []MemoryIsDisk
  <1>1. Init => WebInv
        BY InitWebInv
  <1>2. WebInv /\ [Next]_vars => WebInv'
        BY StepWebInv
  <1>3. WebInv => MemoryIsDisk
        BY DEF WebInv
  <1>. QED  BY <1>1, <1>2, <1>3, PTL DEF Spec

-----------------------------------------------------------------------------
\* The refinement.

\* What the owner of the lock claims follows from its kind of operation.
LEMMA ClaimOf ==
  ASSUME WebInv, owner # None
  PROVE  Claim = IF op[owner].kind \in OneAppKinds THEN {op[owner].app}
                 ELSE IF op[owner].kind = "infra" THEN InfraApps ELSE {}
  <1>1. op[owner].kind \notin {"restore", "autoupdate"}
        BY DEF WebInv, LockInv, TypeInv, TypeOK, Fits
  <1>. QED  BY <1>1 DEF Claim, OneAppKinds

\* A claim is a set of apps.
LEMMA ClaimType == WebInv => Claim \in SUBSET Apps
  <1> SUFFICES ASSUME WebInv PROVE Claim \in SUBSET Apps
      OBVIOUS
  <1>1. CASE owner = None
        BY <1>1 DEF Claim
  <1>2. CASE owner # None
    <2>1. owner \in Procs /\ Fits(owner)
          BY <1>2 DEF WebInv, LockInv, TypeInv, TypeOK
    <2>. QED  BY <1>2, <2>1, ClaimOf, AppsAssumption DEF Fits
  <1>. QED  BY <1>1, <1>2

\* The same of the next state.
LEMMA ClaimTypeNext == WebInv' => (Claim \in SUBSET Apps)'
  BY ClaimType, PTL

\* While the owner stays at its operation, what it claims is the same.
LEMMA SameClaim ==
  ASSUME WebInv, WebInv', UNCHANGED owner,
         owner # None => /\ op'[owner].kind = op[owner].kind
                         /\ \/ op'[owner].app = op[owner].app
                            \/ op[owner].kind \notin OneAppKinds
  PROVE  UNCHANGED Claim
  <1>1. CASE owner = None
        BY <1>1 DEF Claim
  <1>2. CASE owner # None
    <2>1. op'[owner].kind \notin {"restore", "autoupdate"}
          BY <1>2 DEF WebInv, LockInv, TypeInv, TypeOK, Fits
    <2>2. Claim' = IF op'[owner].kind \in OneAppKinds THEN {op'[owner].app}
                   ELSE IF op'[owner].kind = "infra" THEN InfraApps ELSE {}
          BY <1>2, <2>1 DEF Claim, OneAppKinds
    <2>. QED  BY <1>2, <2>2, ClaimOf
  <1>. QED  BY <1>1, <1>2

\* An install or update leaves the entries of other apps as in the clone.
LEMMA AppliedElsewhere ==
  ASSUME WebInv, NEW p \in Procs, NEW a \in Apps, a # op[p].app
  PROVE  Applied(p)[a] = op[p].work[a]
  BY DEF Applied, WebInv, LockInv, TypeInv, TypeOK, Local, State

\* A commit writes the one app the operation claims, and nothing else.
LEMMA CommitIsWrite ==
  ASSUME WebOnly, WebInv, WebInv', NEW p \in Procs, ApplyAppOp(p) \/ CommitChange(p)
  PROVE  CS!Write
  <1> USE DEF WebInv, LockInv, TypeInv, TypeOK
  <1> DEFINE a == op[p].app
  <1>1. /\ pc[p] = "op" /\ owner = p /\ owner' = p /\ p # None /\ up
        BY ProcsAssumption
        DEF ApplyAppOp, CommitChange, LockProtocol, Critical, DownIsIdle, Procs
  <1>2. op[p].work = disk
        BY <1>1 DEF MemoryIsDisk, Fits
  <1>3. op'[p].kind = op[p].kind /\ op'[p].app = op[p].app
    <2>1. CASE \E ok \in BOOLEAN : op' = [op EXCEPT ![p].ok = ok]
          BY <2>1 DEF Local
    <2>2. CASE UNCHANGED op
          BY <2>2
    <2>. QED  BY <2>1, <2>2 DEF ApplyAppOp, CommitChange
  <1>4. UNCHANGED Claim
        BY <1>1, <1>3, SameClaim
  <1>5. \A b \in Apps : b # a => disk'[b] = disk[b]
    <2>1. CASE ApplyAppOp(p)
      <3>1. disk' \in {Applied(p), op[p].work}
            BY <2>1 DEF ApplyAppOp, Commit, WebOnly
      <3>. QED  BY <1>2, <3>1, AppliedElsewhere
    <2>2. CASE CommitChange(p)
      <3>1. PICK e \in AppState : disk' = [op[p].work EXCEPT ![a] = e]
        <4>1. CASE disk' = [op[p].work EXCEPT ![a] = Absent]
              BY <4>1, RestType
        <4>2. CASE \E on \in BOOLEAN : disk' = [op[p].work EXCEPT ![a].auto = on]
          <5>1. PICK on \in BOOLEAN : disk' = [op[p].work EXCEPT ![a].auto = on]
                BY <4>2
          <5>2. CASE a \in Apps
            <6>1. [disk[a] EXCEPT !.auto = on] \in AppState
              <7>1. disk[a] \in AppState
                    BY <5>2 DEF State
              <7>. QED  BY <7>1 DEF AppState
            <6>. QED  BY <1>2, <5>1, <6>1
          <5>3. CASE a \notin Apps
                BY <1>2, <5>1, <5>3, RestType DEF State
          <5>. QED  BY <5>2, <5>3
        <4>. QED  BY <2>2, <4>1, <4>2 DEF CommitChange, Commit, WebOnly
      <3>. QED  BY <1>2, <3>1 DEF State
    <2>. QED  BY <2>1, <2>2
  <1>6. a \in Claim
    <2>1. op[p].kind \in OneAppKinds \cup {"infra"}
          BY DEF ApplyAppOp, CommitChange, OneAppKinds
    <2>2. Claim = IF op[p].kind \in OneAppKinds THEN {a}
                  ELSE IF op[p].kind = "infra" THEN InfraApps ELSE {}
          BY <1>1, ClaimOf
    <2>. QED  BY <1>1, <2>1, <2>2 DEF Fits
  <1>7. disk' \in [Apps -> AppState]
        BY DEF State
  <1>. QED  BY <1>1, <1>4, <1>5, <1>6, <1>7 DEF CS!Write


\* Steps that take no part in the lock and leave state.yaml alone.
LEMMA StutterStep ==
  ASSUME WebInv, WebInv', NEW p \in Procs, UNCHANGED <<disk, owner>>,
         \A q \in Procs \ {p} : op'[q] = op[q],
         \/ ~Critical(p)
         \/ /\ op'[p].kind = op[p].kind
            /\ op'[p].app = op[p].app \/ op[p].kind \notin OneAppKinds
  PROVE  UNCHANGED <<disk, owner, Claim>>
  <1>1. owner \in Procs \cup {None} /\ (~Critical(p) => owner # p)
        BY DEF WebInv, LockInv, TypeInv, TypeOK, LockProtocol
  <1>. QED  BY <1>1, SameClaim

\* A step of a request is a step of ClaimedStore, or changes nothing of it.
LEMMA WebStepRefines ==
  ASSUME WebOnly, WebInv, WebInv', NEW p \in Requests, Begin(p) \/ WebStep(p)
  PROVE  CS!Next \/ UNCHANGED <<disk, owner, Claim>>
  <1> p \in Procs /\ p # None
      BY ProcsAssumption DEF Procs
  <1> USE DEF WebInv, LockInv, TypeInv, TypeOK, fileVars
  <1>1. CASE Begin(p) \/ Refused(p)
    <2>1. ~Critical(p) /\ UNCHANGED <<disk, owner>>
          BY <1>1 DEF Critical, Begin, BeginInstall, BeginUpdate, BeginSync,
                      BeginOnApp, BeginOnServer, Refused
    <2>2. \A q \in Procs \ {p} : op'[q] = op[q]
          BY <1>1 DEF Begin, BeginInstall, BeginUpdate, BeginSync, BeginOnApp,
                      BeginOnServer, Refused, Enter, Leave
    <2>. QED  BY <2>1, <2>2, StutterStep
  <1>2. CASE StoreDefinition(p)
    <2>1. UNCHANGED <<disk, owner>>
          BY <1>2 DEF StoreDefinition
    <2>2. CASE op[p].kind = "sync"
      <3>1. ~Critical(p)
            BY <1>2, <2>2 DEF StoreDefinition, KindsFit, Critical
      <3>2. \A q \in Procs \ {p} : op'[q] = op[q]
            BY <1>2, <2>2 DEF StoreDefinition, Leave
      <3>. QED  BY <2>1, <3>1, <3>2, StutterStep
    <2>3. CASE UNCHANGED op
          BY <2>1, <2>3, StutterStep
    <2>. QED  BY <1>2, <2>2, <2>3 DEF StoreDefinition
  <1>3. CASE TryLock(p)
    <2>1. owner = None /\ owner' = p /\ UNCHANGED disk
          BY <1>3 DEF TryLock
    <2>2. CS!Acquire(p, Claim')
          BY <2>1 DEF CS!Acquire
    <2>. QED  BY <2>2, ClaimTypeNext DEF CS!Next
  <1>4. CASE Release(p)
    <2>1. owner = p /\ owner' = None /\ UNCHANGED disk
          BY <1>4 DEF Release, LockProtocol, Critical
    <2>2. Claim' = {}
          BY <2>1 DEF Claim
    <2>. QED  BY <2>1, <2>2 DEF CS!Next, CS!Release
  <1>5. CASE ApplyAppOp(p) \/ CommitChange(p)
        BY <1>5, CommitIsWrite DEF CS!Next
  <1>6. CASE StartJob(p) \/ StartInfraJob(p) \/ FinishJob(p)
    <2>1. UNCHANGED <<disk, owner>>
          BY <1>6 DEF StartJob, StartInfraJob, FinishJob
    <2>2. CASE \E j \in JobIds : op' = [op EXCEPT ![p].job = j]
      <3>1. /\ op'[p].kind = op[p].kind /\ op'[p].app = op[p].app
            /\ \A q \in Procs \ {p} : op'[q] = op[q]
            BY <2>2 DEF Local
      <3>. QED  BY <2>1, <3>1, StutterStep
    <2>3. CASE \E j \in JobIds :
                 op' = [op EXCEPT ![p].job = j,
                                  ![p].todo = {a \in InfraApps : mem[a].ver = 0}]
      <3> DEFINE missing == {a \in InfraApps : mem[a].ver = 0}
      <3>1. PICK j \in JobIds : op' = [op EXCEPT ![p].job = j, ![p].todo = missing]
            BY <2>3
      <3> HIDE DEF missing
      <3>2. /\ op'[p].kind = op[p].kind /\ op'[p].app = op[p].app
            /\ \A q \in Procs \ {p} : op'[q] = op[q]
            BY <3>1 DEF Local
      <3>. QED  BY <2>1, <3>2, StutterStep
    <2>4. CASE UNCHANGED op
          BY <2>1, <2>4, StutterStep
    <2>. QED  BY <1>6, <2>2, <2>3, <2>4 DEF StartJob, StartInfraJob, FinishJob
  <1>7. CASE PickInfra(p)
    <2>1. /\ UNCHANGED <<disk, owner>> /\ op[p].kind \notin OneAppKinds
          /\ \A q \in Procs \ {p} : op'[q] = op[q]
          BY <1>7 DEF PickInfra, OneAppKinds
    <2>2. op'[p].kind = op[p].kind
          BY <1>7 DEF PickInfra, Local
    <2>. QED  BY <2>1, <2>2, StutterStep
  <1>8. CASE Snapshot(p) \/ StartOrStop(p) \/ GiveUp(p)
    <2>1. /\ UNCHANGED <<disk, owner>>
          /\ op'[p].kind = op[p].kind /\ op'[p].app = op[p].app
          /\ \A q \in Procs \ {p} : op'[q] = op[q]
          BY <1>8 DEF Snapshot, StartOrStop, GiveUp, Local
    <2>. QED  BY <2>1, StutterStep
  <1>9. CASE Backup(p) \/ RestoreFiles(p) \/ EndRestore(p) \/ SelfUpdate(p)
    <2>1. op[p].kind # "restore"
          BY DEF Fits
    <2>2. UNCHANGED <<disk, owner>>
          BY <1>9, <2>1 DEF Backup, RestoreFiles, EndRestore, SelfUpdate
    <2>3. CASE \E ok \in BOOLEAN : op' = [op EXCEPT ![p].ok = ok]
      <3>1. /\ op'[p].kind = op[p].kind /\ op'[p].app = op[p].app
            /\ \A q \in Procs \ {p} : op'[q] = op[q]
            BY <2>3 DEF Local
      <3>. QED  BY <2>2, <3>1, StutterStep
    <2>4. CASE \E ok \in BOOLEAN, exit \in BOOLEAN :
                 op' = [op EXCEPT ![p].ok = ok, ![p].exit = exit]
      <3>1. /\ op'[p].kind = op[p].kind /\ op'[p].app = op[p].app
            /\ \A q \in Procs \ {p} : op'[q] = op[q]
            BY <2>4 DEF Local
      <3>. QED  BY <2>2, <3>1, StutterStep
    <2>. QED  BY <1>9, <2>1, <2>3, <2>4
              DEF Backup, RestoreFiles, EndRestore, SelfUpdate
  <1>. QED  BY <1>1, <1>2, <1>3, <1>4, <1>5, <1>6, <1>7, <1>8, <1>9 DEF WebStep

\* So is the end or the start of the web process.
LEMMA ServiceRefines ==
  ASSUME WebOnly, WebInv, WebInv',
         WebDown \/ Boot \/ (\E a \in Apps : Publish(a)) \/ UNCHANGED vars
  PROVE  CS!Next \/ UNCHANGED <<disk, owner, Claim>>
  <1> USE DEF WebInv, LockInv, TypeInv, TypeOK, fileVars
  <1>1. CASE WebDown
    <2>1. UNCHANGED disk /\ owner' = None /\ Claim' = {}
          BY <1>1 DEF WebDown, WebOnly, Procs, Claim
    <2>2. CASE owner = None
          BY <2>1, <2>2 DEF Claim
    <2>3. CASE owner # None
          BY <2>1, <2>3 DEF CS!Next, CS!Release
    <2>. QED  BY <2>2, <2>3
  <1>2. CASE Boot \/ (\E a \in Apps : Publish(a)) \/ UNCHANGED vars
    <2>1. UNCHANGED <<disk, owner, op>>
          BY <1>2 DEF Boot, Publish, vars
    <2>. QED  BY <2>1, SameClaim
  <1>. QED  BY <1>1, <1>2

\* Every step of the web server maps to a step or a stutter of ClaimedStore.
LEMMA StepRefines ==
  WebOnly /\ WebInv /\ WebInv' /\ [Next]_vars => [CS!Next]_(CS!vars)
  <1> SUFFICES ASSUME WebOnly, WebInv, WebInv', [Next]_vars
               PROVE  CS!Next \/ UNCHANGED <<disk, owner, Claim>>
      BY DEF CS!vars
  <1>1. Updaters = {}
        BY DEF WebOnly
  <1>. QED  BY <1>1, WebStepRefines, ServiceRefines DEF Next, Exit, Crash

\* The initial states map to initial states.
LEMMA InitRefines == Init => CS!Init
  BY RestType DEF Init, CS!Init, Claim, State

\* The web server serialises whole operations on the apps, for any number of
\* apps, requests, jobs and crashes.
THEOREM WebServerSerialises ==
  ASSUME WebOnly
  PROVE  Spec => OperationsSerialised
  <1>1. Init => WebInv
        BY InitWebInv
  <1>2. WebInv /\ [Next]_vars => WebInv'
        BY StepWebInv
  <1>3. WebInv /\ WebInv' /\ [Next]_vars => [CS!Next]_(CS!vars)
        BY StepRefines
  <1>. QED  BY <1>1, <1>2, <1>3, InitRefines, PTL
            DEF Spec, OperationsSerialised, CS!Spec
=============================================================================
