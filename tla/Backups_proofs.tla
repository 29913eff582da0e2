---------------------------- MODULE Backups_proofs ----------------------------
(***************************************************************************)
(* Theorems about Backups: what a restore places comes from one whole      *)
(* archive, what is listed as a backup of this server is whole, and        *)
(* nothing takes the place of a finished archive, for any number of names, *)
(* values and uploads and whatever fails when.                             *)
(***************************************************************************)
EXTENDS Backups, TLAPS

USE NoneAssumption, TornAssumption

-----------------------------------------------------------------------------
\* The invariant.

Short(a) == [a EXCEPT !.whole = FALSE]

\* A file whose name an upload has in hand is no backup of this server. As long
\* as the file an upload copies to has its name, what is there is short.
UploadInv ==
  \A u \in Uploads :
    /\ upload[u].step # "none" => upload[u].name \in Names
    /\ upload[u].step = "copy" => upload[u].archive \in Archive /\ ~upload[u].archive.own
    /\ upload[u].step = "write" => upload[u].archive \in Archive
    /\ upload[u].name \in Names /\ dir[upload[u].name] # None => ~dir[upload[u].name].own
    /\ upload[u].there =>
         /\ upload[u].step = "copy"
         /\ dir[upload[u].name] = Short(upload[u].archive)

\* One upload at most writes to the file that has the name.
OneWriter ==
  \A u, v \in Uploads :
    upload[u].there /\ upload[v].there /\ upload[u].name = upload[v].name => u = v

\* The name of a backup that is being made belongs to it alone.
CreateInv ==
  job.kind = "create" =>
    /\ job.name \in Names
    /\ job.step \in Trees \cup {"dump", "final", "encrypt", "sidecar"}
    /\ sidecar[job.name] = None
    /\ \A u \in Uploads : upload[u].name # job.name
    /\ job.step = "encrypt" => dir[job.name] = Packed(FALSE)
    /\ job.step = "sidecar" => dir[job.name] = Packed(TRUE)
    /\ job.step \notin {"encrypt", "sidecar"} => dir[job.name] = None

Placed(x) == job.content[x] # None => live[x] = job.content[x]

\* What has been placed stays as long as the services are stopped.
RestoreInv ==
  job.kind \in {"restore", "delete"} =>
    /\ job.name \in Names
    /\ job.kind = "restore" /\ job.quiet => ~up /\ job.step \notin {"verify", "stop"}
    /\ job.kind = "delete" => job.step = "sidecar"
    /\ job.kind = "restore" => job.step \in Trees \cup {"verify", "stop", "db", "up"}
    /\ job.kind = "restore" /\ job.settled =>
         /\ job.step # "verify"
         /\ job.step \in {"compose", "ls", "db", "up"} => Placed("config")
         /\ job.step \in {"ls", "db", "up"} => Placed("compose")
         /\ job.step \in {"db", "up"} /\ job.quiet => Placed("ls")
         /\ job.step = "up" /\ job.quiet => Placed("db")

\* Until the trees are placed no upload works on a plain archive that is settled.
SettledInv ==
  job.kind = "restore" /\ job.step \in Trees \cup {"stop"} /\ job.settled =>
    \/ job.name \in Encrypted
    \/ \A u \in Uploads : upload[u].name # job.name

IInv ==
  /\ TypeOK /\ UploadInv /\ OneWriter /\ CreateInv /\ RestoreInv /\ SettledInv
  /\ OverlayFromWhole /\ ListedOwnIsWhole

-----------------------------------------------------------------------------
\* Types.

LEMMA NothingContent == Nothing \in Content
BY DEF Nothing, Content, Parts, Trees

LEMMA NoJobJob == NoJob \in Job
BY NothingContent DEF NoJob, Job

LEMMA NoUploadUpload == NoUpload \in Upload
BY DEF NoUpload, Upload

LEMMA ForeignArchive ==
  \A a \in Foreign : /\ a \in Archive /\ a.whole /\ ~a.own
                     /\ [a EXCEPT !.whole = FALSE] \in Archive
                     /\ ~[a EXCEPT !.whole = FALSE].own
BY DEF Foreign, Archive, Content

LEMMA ShortArchive ==
  ASSUME NEW a \in Archive
  PROVE  Short(a) \in Archive /\ Short(a).own = a.own
BY DEF Short, Archive

LEMMA PackedArchive ==
  ASSUME job \in Job, NEW w \in BOOLEAN
  PROVE  Packed(w) \in Archive
BY DEF Packed, Archive, Job

LEMMA UnlinkedUploads ==
  ASSUME upload \in [Uploads -> Upload], NEW n
  PROVE  /\ Unlinked(n) \in [Uploads -> Upload]
         /\ \A u \in Uploads :
              /\ Unlinked(n)[u].name = upload[u].name
              /\ Unlinked(n)[u].step = upload[u].step
              /\ Unlinked(n)[u].archive = upload[u].archive
              /\ Unlinked(n)[u].there <=> upload[u].there /\ upload[u].name # n
<1>1. ASSUME NEW u \in Uploads
      PROVE  /\ Unlinked(n)[u] = [upload[u] EXCEPT !.there = @ /\ upload[u].name # n]
             /\ upload[u] \in Upload
  BY DEF Unlinked
<1> QED  BY <1>1 DEF Unlinked, Upload

LEMMA SourceContent ==
  ASSUME job \in Job, dir \in [Names -> Archive \cup {None}], job.name \in Names
  PROVE  Source \in Content
BY NothingContent DEF Source, Job, Archive

\* What remains of a sidecar that could not be written.
LEMMA TornSidecar ==
  ASSUME sidecar \in [Names -> Archive \cup {None, Torn}], NEW n \in Names, TearSidecar(n)
  PROVE  /\ sidecar' \in [Names -> Archive \cup {None, Torn}]
         /\ \A m \in Names : sidecar'[m] \in {sidecar[m], Torn} /\ (m # n => sidecar'[m] = sidecar[m])
BY DEF TearSidecar

LEMMA ProcessEndsDoes ==
  ASSUME sidecar \in [Names -> Archive \cup {None, Torn}], ProcessEnds
  PROVE  /\ job' = NoJob
         /\ upload' = [u \in Uploads |-> NoUpload]
         /\ sidecar' \in [Names -> Archive \cup {None, Torn}]
         /\ \A n \in Names : sidecar'[n] \in {sidecar[n], Torn}
<1>1. PICK cut : sidecar' = [n \in Names |-> IF n \in cut THEN Torn ELSE sidecar[n]]
  BY Zenon DEF ProcessEnds
<1>2. job' = NoJob /\ upload' = [u \in Uploads |-> NoUpload]
  BY DEF ProcessEnds
<1> QED  BY <1>1, <1>2

\* The steps in which an upload does not put anything in the directory.
Refused(u) ==
  /\ upload[u].step \in {"copy", "inspect", "write"}
  /\ Refuse(u)
  /\ UNCHANGED sidecar \/ TearSidecar(upload[u].name)
  /\ UNCHANGED <<live, up, dir, job, left>>

Passed(u) ==
  /\ upload[u].step = "inspect"
  /\ UploadEnds(u)
  /\ UNCHANGED <<live, up, dir, sidecar, job, left>>

Described(u) ==
  /\ upload[u].step = "inspect"
  /\ dir[upload[u].name] # None
  /\ upload' = [upload EXCEPT ![u] = [name |-> upload[u].name, step |-> "write",
                                     archive |-> dir[upload[u].name], there |-> FALSE]]
  /\ UNCHANGED <<live, up, dir, sidecar, job, left>>

LEMMA UploadStepDoes ==
  ASSUME NEW u \in Uploads, UploadStep(u)
  PROVE  \/ \E n \in Names, a \in Foreign : handleBackupUpload(u, n, a)
         \/ Copied(u) \/ Refused(u) \/ Passed(u) \/ Described(u)
         \/ WriteUploadSidecar(u) \/ RemoveUpload(u)
<1>1. CASE CopyFails(u)
  BY <1>1 DEF CopyFails, Refused
<1>2. CASE WriteSidecarFor(u)
  BY <1>2, Zenon DEF WriteSidecarFor, Refused, Passed, Described
<1>3. CASE UploadSidecarFails(u)
  BY <1>3 DEF UploadSidecarFails, Refused
<1> QED  BY <1>1, <1>2, <1>3, Zenon DEF UploadStep

LEMMA RefusedDoes ==
  ASSUME upload \in [Uploads -> Upload], NEW u \in Uploads, Refuse(u)
  PROVE  /\ upload'[u].name = upload[u].name /\ upload'[u].step = "remove" /\ ~upload'[u].there
         /\ \A v \in Uploads \ {u} : upload'[v] = upload[v]
BY DEF Refuse, NoUpload

\* The step of one upload: it changes what is called as its file is, and that is
\* no backup of this server, before or after.
LEMMA UploadsApart ==
  ASSUME TypeOK, UploadInv, NEW u \in Uploads, UploadStep(u)
  PROVE  /\ UNCHANGED <<live, up, job>>
         /\ \E n \in Names :
              /\ \/ upload[u].name = n
                 \/ dir[n] = None /\ ~(job.kind = "create" /\ job.name = n)
              /\ \A m \in Names \ {n} : dir'[m] = dir[m] /\ sidecar'[m] = sidecar[m]
              /\ dir'[n] = None \/ ~dir'[n].own
              /\ \A v \in Uploads : upload'[v].name \in {upload[v].name, n, None}
<1> USE DEF TypeOK, UploadInv
<1>1. ASSUME NEW n \in Names, NEW a \in Foreign, handleBackupUpload(u, n, a)
      PROVE  /\ UNCHANGED <<live, up, job, sidecar>>
             /\ dir[n] = None /\ ~(job.kind = "create" /\ job.name = n)
             /\ \A m \in Names \ {n} : dir'[m] = dir[m]
             /\ ~dir'[n].own
             /\ \A v \in Uploads : upload'[v].name \in {upload[v].name, n}
  BY <1>1, ForeignArchive DEF handleBackupUpload
<1>2. CASE Copied(u)
  <2>1. upload[u].name \in Names /\ UNCHANGED <<live, up, job>>
    BY <1>2 DEF Copied
  <2>2. \A v \in Uploads : upload'[v].name = upload[v].name
    BY <1>2 DEF Copied, NoUpload
  <2> QED  BY <1>2, <2>1, <2>2 DEF Copied
<1>3. CASE Refused(u)
  <2>1. upload[u].name \in Names /\ UNCHANGED <<live, up, job, dir>>
    BY <1>3 DEF Refused
  <2>2. \A v \in Uploads : upload'[v].name = upload[v].name
    BY <1>3, RefusedDoes DEF Refused
  <2>3. \A m \in Names \ {upload[u].name} : sidecar'[m] = sidecar[m]
    BY <1>3, <2>1, TornSidecar DEF Refused
  <2> QED  BY <2>1, <2>2, <2>3
<1>4. CASE Passed(u)
  <2>1. upload[u].name \in Names /\ UNCHANGED <<live, up, job, dir, sidecar>>
    BY <1>4 DEF Passed
  <2>2. \A v \in Uploads : upload'[v].name \in {upload[v].name, None}
    BY <1>4 DEF Passed, UploadEnds, NoUpload
  <2> QED  BY <2>1, <2>2
<1>5. CASE Described(u)
  <2>1. upload[u].name \in Names /\ UNCHANGED <<live, up, job, dir, sidecar>>
    BY <1>5 DEF Described
  <2>2. \A v \in Uploads : upload'[v].name = upload[v].name
    BY <1>5 DEF Described
  <2> QED  BY <2>1, <2>2
<1>6. CASE WriteUploadSidecar(u)
  <2>1. upload[u].name \in Names /\ UNCHANGED <<live, up, job, dir>>
    BY <1>6 DEF WriteUploadSidecar
  <2>2. \A v \in Uploads : upload'[v].name \in {upload[v].name, None}
    BY <1>6 DEF WriteUploadSidecar, UploadEnds, NoUpload
  <2>3. \A m \in Names \ {upload[u].name} : sidecar'[m] = sidecar[m]
    BY <1>6 DEF WriteUploadSidecar
  <2> QED  BY <2>1, <2>2, <2>3
<1>7. CASE RemoveUpload(u)
  <2>1. upload[u].name \in Names /\ UNCHANGED <<live, up, job, sidecar>>
    BY <1>7 DEF RemoveUpload
  <2>2. \A v \in Uploads : upload'[v].name \in {upload[v].name, None}
    BY <1>7, UnlinkedUploads DEF RemoveUpload, NoUpload
  <2> QED  BY <1>7, <2>1, <2>2 DEF RemoveUpload
<1> QED  BY <1>1, <1>2, <1>3, <1>4, <1>5, <1>6, <1>7, UploadStepDoes

LEMMA UploadTypes ==
  ASSUME TypeOK, UploadInv, NEW u \in Uploads, UploadStep(u)
  PROVE  TypeOK'
<1> USE DEF TypeOK, UploadInv
<1>1. ASSUME NEW n \in Names, NEW a \in Foreign, handleBackupUpload(u, n, a)
      PROVE  TypeOK'
  <2>1. a \in Archive /\ [a EXCEPT !.whole = FALSE] \in Archive
    BY ForeignArchive
  <2>2. [name |-> n, step |-> "copy", archive |-> a, there |-> TRUE] \in Upload
    BY <2>1 DEF Upload
  <2> QED  BY <1>1, <2>1, <2>2, BudgetAssumption DEF handleBackupUpload, Asked
<1>2. \A s \in {"inspect", "remove"} :
        [NoUpload EXCEPT !.name = upload[u].name, !.step = s] \in Upload
  BY DEF NoUpload, Upload
<1>3. CASE Copied(u)
  BY <1>2, <1>3 DEF Copied
<1>4. CASE Refused(u)
  <2>1. upload[u].name \in Names
    BY <1>4 DEF Refused
  <2> QED  BY <1>2, <1>4, <2>1, TornSidecar DEF Refused, Refuse
<1>5. CASE Passed(u)
  BY <1>5, NoUploadUpload DEF Passed, UploadEnds
<1>6. CASE Described(u)
  <2>1. upload[u].name \in Names /\ upload[u] \in Upload
    BY <1>6 DEF Described
  <2>2. [name |-> upload[u].name, step |-> "write", archive |-> dir[upload[u].name],
         there |-> FALSE] \in Upload
    BY <1>6, <2>1 DEF Described, Upload
  <2> QED  BY <1>6, <2>2 DEF Described
<1>7. CASE WriteUploadSidecar(u)
  BY <1>7, NoUploadUpload DEF WriteUploadSidecar, UploadEnds
<1>8. CASE RemoveUpload(u)
  BY <1>8, NoUploadUpload, UnlinkedUploads DEF RemoveUpload
<1> QED  BY <1>1, <1>3, <1>4, <1>5, <1>6, <1>7, <1>8, UploadStepDoes

LEMMA PlacedTypes ==
  ASSUME TypeOK, job.name \in Names, job.step \in Trees, PlaceTree
  PROVE  live' \in [Parts -> Vals]
<1>1. Source \in [Parts -> Vals \cup {None}] /\ job.step \in Parts
  BY SourceContent DEF TypeOK, Content, Parts
<1> QED  BY <1>1 DEF PlaceTree, TypeOK

\* The values of the variables before and after a step of the job.
LEMMA TypeStep == IInv /\ Next => TypeOK'
<1> SUFFICES ASSUME IInv, Next PROVE TypeOK'
  OBVIOUS
<1> USE DEF IInv, TypeOK, Held, Goto, Asked
<1>1. CASE AppWrites \/ OtherOperation \/ StartServices
  BY <1>1 DEF AppWrites, OtherOperation, StartServices
<1>2. ASSUME NEW n \in Names, handleBackupCreate(n)
      PROVE  TypeOK'
  <2>1. job' \in Job
    BY <1>2, NoJobJob DEF handleBackupCreate, NoJob, Job
  <2> QED  BY <1>2, <2>1, BudgetAssumption DEF handleBackupCreate
<1>3. ASSUME NEW n \in Names, handleBackupDelete(n)
      PROVE  TypeOK'
  <2>1. job' \in Job
    BY <1>3, NoJobJob DEF handleBackupDelete, NoJob, Job
  <2> QED  BY <1>3, <2>1, UnlinkedUploads, BudgetAssumption DEF handleBackupDelete
<1>4. ASSUME NEW n \in Names, handleBackupRestore(n)
      PROVE  TypeOK'
  <2>1. job' \in Job
    BY <1>4, NoJobJob DEF handleBackupRestore, NoJob, Job
  <2> QED  BY <1>4, <2>1, BudgetAssumption DEF handleBackupRestore
<1>5. CASE Dump
  <2>1. job' \in Job
    BY <1>5 DEF Dump, Job, Content, Parts
  <2> QED  BY <1>5, <2>1 DEF Dump
<1>6. CASE Pack
  <2>1. NextTree[job.step] \in {"config", "compose", "final"}
    BY <1>6 DEF Pack, Trees, NextTree
  <2>2. job.step \in Parts /\ live[job.step] \in Vals
    BY <1>6 DEF Pack, Parts
  <2>3. job' \in Job
    BY <1>6, <2>1, <2>2 DEF Pack, Job, Content
  <2> QED  BY <1>6, <2>3 DEF Pack
<1>7. CASE Finalize \/ encryptFile
  <2>1. job' \in Job
    BY <1>7 DEF Finalize, encryptFile, Job
  <2>2. job.name \in Names
    BY <1>7 DEF Finalize, encryptFile, CreateInv
  <2> QED  BY <1>7, <2>1, <2>2, PackedArchive DEF Finalize, encryptFile
<1>8. CASE writeSidecar \/ DeleteSidecar
  BY <1>8, NoJobJob DEF writeSidecar, DeleteSidecar, CreateInv, RestoreInv
<1>9. CASE CreateFails
  BY <1>9, NoJobJob, TornSidecar DEF CreateFails, CreateInv
<1>10. ASSUME NEW u \in Uploads, UploadStep(u)
       PROVE  TypeOK'
  BY <1>10, UploadTypes
<1>11. CASE Verify
  <2>1. dir[job.name] # None => dir[job.name].content \in Content
    BY <1>11 DEF Verify, RestoreInv, Archive
  <2>2. job' \in Job
    BY <1>11, <2>1, NoJobJob DEF Verify, Sound, Settled, Job
  <2> QED  BY <1>11, <2>2 DEF Verify
<1>12. CASE ComposeStop
  <2>1. up' \in BOOLEAN
    BY <1>12 DEF ComposeStop
  <2>2. job' \in Job
    BY <1>12, <2>1 DEF ComposeStop, Job
  <2> QED  BY <1>12, <2>1, <2>2 DEF ComposeStop
<1>13. CASE Overlay
  <2>1. AfterTree[job.step] \in {"compose", "ls", "db"}
    BY <1>13 DEF Overlay, Trees, AfterTree
  <2>2. job' \in Job
    BY <1>13, <2>1 DEF Overlay, Job
  <2>3. live' \in [Parts -> Vals]
    BY <1>13, PlacedTypes DEF Overlay, RestoreInv
  <2> QED  BY <1>13, <2>2, <2>3 DEF Overlay
<1>14. CASE Replay
  <2>1. job' \in Job
    BY <1>14 DEF Replay, Job
  <2>2. job.content["db"] \in Vals \cup {None}
    BY DEF Job, Content, Parts
  <2> QED  BY <1>14, <2>1, <2>2 DEF Replay
<1>15. CASE OverlayFails
  <2>1. live' \in [Parts -> Vals]
    BY <1>15, PlacedTypes DEF OverlayFails, RestoreInv
  <2> QED  BY <1>15, <2>1, NoJobJob DEF OverlayFails
<1>16. CASE ComposeUpAndExit \/ Crash
  BY <1>16, NoJobJob, NoUploadUpload, ProcessEndsDoes DEF ComposeUpAndExit, Crash
<1>17. CASE RestoreFails
  BY <1>17, NoJobJob DEF RestoreFails
<1> QED
  BY <1>1, <1>2, <1>3, <1>4, <1>5, <1>6, <1>7, <1>8, <1>9, <1>10, <1>11, <1>12, <1>13,
     <1>14, <1>15, <1>16, <1>17 DEF Next

-----------------------------------------------------------------------------
\* The parts of the invariant.

\* What an upload's own step leaves of it and of the others.
LEMMA UploadKept ==
  ASSUME TypeOK, UploadInv, OneWriter, NEW u \in Uploads, UploadStep(u)
  PROVE  UploadInv' /\ OneWriter'
<1> USE DEF TypeOK, UploadInv, OneWriter
<1>1. ASSUME NEW n \in Names, NEW a \in Foreign, handleBackupUpload(u, n, a)
      PROVE  UploadInv' /\ OneWriter'
  <2>1. a \in Archive /\ ~a.own /\ Short(a) \in Archive /\ ~Short(a).own
    BY ForeignArchive, ShortArchive
  <2>2. /\ upload'[u] = [name |-> n, step |-> "copy", archive |-> a, there |-> TRUE]
        /\ \A v \in Uploads \ {u} : upload'[v] = upload[v]
        /\ dir'[n] = Short(a) /\ dir[n] = None
        /\ \A m \in Names \ {n} : dir'[m] = dir[m]
    BY <1>1 DEF handleBackupUpload, Short
  <2>3. upload'[u].name = n /\ upload'[u].archive = a /\ upload'[u].step = "copy"
    BY <2>2
  <2>4. \A v \in Uploads : upload[v].there => upload[v].name \in Names \ {n}
    BY <2>2, ShortArchive
  <2>5. ASSUME NEW v \in Uploads \ {u}
        PROVE  /\ upload'[v] = upload[v]
               /\ upload'[v].name \in Names /\ dir'[upload'[v].name] # None
                     => ~dir'[upload'[v].name].own
               /\ upload[v].there => dir'[upload[v].name] = dir[upload[v].name]
    BY <2>1, <2>2, <2>4, <2>5
  <2>6. UploadInv'
    BY <2>1, <2>2, <2>3, <2>5
  <2>7. OneWriter'
    BY <2>2, <2>3, <2>4
  <2> QED  BY <2>6, <2>7
<1>2. CASE Copied(u)
  <2>1. /\ upload[u].name \in Names /\ upload[u].archive \in Archive /\ ~upload[u].archive.own
        /\ upload'[u].name = upload[u].name /\ upload'[u].step = "inspect" /\ ~upload'[u].there
        /\ \A v \in Uploads \ {u} : upload'[v] = upload[v]
        /\ \A m \in Names \ {upload[u].name} : dir'[m] = dir[m]
        /\ upload[u].there => dir'[upload[u].name] = upload[u].archive
        /\ ~upload[u].there => dir' = dir
    BY <1>2 DEF Copied, NoUpload
  <2>2. ASSUME NEW v \in Uploads \ {u}
        PROVE  /\ upload'[v] = upload[v]
               /\ upload'[v].name \in Names /\ dir'[upload'[v].name] # None
                     => ~dir'[upload'[v].name].own
               /\ upload[v].there => dir'[upload[v].name] = dir[upload[v].name]
    <3>1. CASE upload[v].name = upload[u].name
      BY <2>1, <2>2, <3>1
    <3>2. CASE upload[v].name # upload[u].name
      <4>1. upload[v].name \in Names => dir'[upload[v].name] = dir[upload[v].name]
        BY <2>1, <3>2
      <4> QED  BY <2>1, <4>1
    <3> QED  BY <3>1, <3>2
  <2>3. UploadInv'
    BY <2>1, <2>2
  <2>4. OneWriter'
    BY <2>1
  <2> QED  BY <2>3, <2>4
<1>3. CASE Refused(u)
  <2>1. /\ upload'[u].name = upload[u].name /\ upload'[u].step = "remove" /\ ~upload'[u].there
        /\ \A v \in Uploads \ {u} : upload'[v] = upload[v]
        /\ dir' = dir /\ upload[u].name \in Names
    BY <1>3, RefusedDoes DEF Refused
  <2>2. UploadInv'
    BY <2>1
  <2>3. OneWriter'
    BY <2>1
  <2> QED  BY <2>2, <2>3
<1>4. CASE Passed(u) \/ WriteUploadSidecar(u)
  <2>1. /\ upload'[u] = NoUpload
        /\ \A v \in Uploads \ {u} : upload'[v] = upload[v]
        /\ dir' = dir
    BY <1>4 DEF Passed, WriteUploadSidecar, UploadEnds
  <2>2. upload'[u].step = "none" /\ upload'[u].name = None /\ ~upload'[u].there
    BY <2>1 DEF NoUpload
  <2>3. UploadInv'
    BY <2>1, <2>2
  <2>4. OneWriter'
    BY <2>1, <2>2
  <2> QED  BY <2>3, <2>4
<1>5. CASE Described(u)
  <2>1. upload[u].name \in Names /\ dir[upload[u].name] \in Archive
    BY <1>5 DEF Described
  <2>2. /\ upload'[u].name = upload[u].name /\ upload'[u].step = "write"
        /\ upload'[u].archive = dir[upload[u].name] /\ ~upload'[u].there
        /\ \A v \in Uploads \ {u} : upload'[v] = upload[v]
        /\ dir' = dir
    BY <1>5 DEF Described
  <2>3. UploadInv'
    BY <2>1, <2>2
  <2>4. OneWriter'
    BY <2>1, <2>2
  <2> QED  BY <2>3, <2>4
<1>6. CASE RemoveUpload(u)
  <2>1. /\ upload[u].name \in Names
        /\ dir' = [dir EXCEPT ![upload[u].name] = None]
        /\ upload' = [Unlinked(upload[u].name) EXCEPT ![u] = NoUpload]
    BY <1>6 DEF RemoveUpload
  <2>2. /\ Unlinked(upload[u].name) \in [Uploads -> Upload]
        /\ \A v \in Uploads :
             /\ Unlinked(upload[u].name)[v].name = upload[v].name
             /\ Unlinked(upload[u].name)[v].step = upload[v].step
             /\ Unlinked(upload[u].name)[v].archive = upload[v].archive
             /\ Unlinked(upload[u].name)[v].there
                    <=> upload[v].there /\ upload[v].name # upload[u].name
    BY UnlinkedUploads
  <2>3. upload'[u] = NoUpload /\ \A v \in Uploads \ {u} : upload'[v] = Unlinked(upload[u].name)[v]
    BY <2>1, <2>2
  <2>4. upload'[u].step = "none" /\ upload'[u].name = None /\ ~upload'[u].there
    BY <2>3 DEF NoUpload
  <2>5. \A v \in Uploads \ {u} :
          /\ upload'[v].name = upload[v].name
          /\ upload'[v].step = upload[v].step
          /\ upload'[v].archive = upload[v].archive
          /\ upload'[v].there => upload[v].there /\ upload[v].name # upload[u].name
    BY <2>2, <2>3
  <2>6. /\ dir'[upload[u].name] = None
        /\ \A m \in Names \ {upload[u].name} : dir'[m] = dir[m]
    BY <2>1
  <2>7. ASSUME NEW v \in Uploads \ {u}
        PROVE  /\ upload[v].name \in Names /\ dir'[upload[v].name] # None
                     => ~dir'[upload[v].name].own
               /\ upload'[v].there => dir'[upload[v].name] = dir[upload[v].name]
    BY <2>5, <2>6, <2>7
  <2>8. UploadInv'
    BY <2>4, <2>5, <2>7
  <2>9. OneWriter'
    BY <2>4, <2>5
  <2> QED  BY <2>8, <2>9
<1> QED  BY <1>1, <1>2, <1>3, <1>4, <1>5, <1>6, UploadStepDoes

\* What the operation that holds the lock does to files of uploads: it removes
\* them, or leaves them alone.
LEMMA UploadInvStep == IInv /\ Next => UploadInv' /\ OneWriter'
<1> SUFFICES ASSUME IInv, Next PROVE UploadInv' /\ OneWriter'
  OBVIOUS
<1> USE DEF IInv, UploadInv, OneWriter, Held
<1>1. CASE UNCHANGED <<dir, upload>>
  BY <1>1
<1>2. ASSUME NEW n \in Names, handleBackupDelete(n)
      PROVE  UploadInv' /\ OneWriter'
  <2>1. /\ dir'[n] = None /\ \A m \in Names \ {n} : dir'[m] = dir[m]
        /\ upload' = Unlinked(n) /\ upload \in [Uploads -> Upload]
    BY <1>2 DEF handleBackupDelete, TypeOK
  <2> QED  BY <2>1, UnlinkedUploads
<1>3. CASE Finalize \/ encryptFile \/ CreateFails
  <2>1. job.kind = "create" /\ \A n \in Names \ {job.name} : dir'[n] = dir[n]
    BY <1>3 DEF Finalize, encryptFile, CreateFails, TypeOK, CreateInv
  <2>2. upload' = upload /\ \A u \in Uploads : upload[u].name # job.name
    BY <1>3, <2>1 DEF Finalize, encryptFile, CreateFails, CreateInv
  <2> QED  BY <2>1, <2>2 DEF TypeOK, Upload
<1>4. ASSUME NEW u \in Uploads, UploadStep(u)
      PROVE  UploadInv' /\ OneWriter'
  BY <1>4, UploadKept
<1>5. CASE ComposeUpAndExit \/ Crash
  <2>1. \A u \in Uploads : upload'[u] = NoUpload
    BY <1>5, ProcessEndsDoes DEF ComposeUpAndExit, Crash, TypeOK
  <2>2. NoUpload.step = "none" /\ NoUpload.name = None /\ ~NoUpload.there
    BY DEF NoUpload
  <2> QED  BY <2>1, <2>2
<1> QED
  BY <1>1, <1>2, <1>3, <1>4, <1>5
  DEF Next, AppWrites, OtherOperation, StartServices, handleBackupCreate, handleBackupRestore,
      Dump, Pack, writeSidecar, DeleteSidecar, Verify, ComposeStop, Overlay, OverlayFails, Replay,
      RestoreFails


LEMMA CreateStep == IInv /\ Next => CreateInv'
<1> SUFFICES ASSUME IInv, Next PROVE CreateInv'
  OBVIOUS
<1> USE DEF IInv, TypeOK, CreateInv, Held, Goto
<1>1. CASE AppWrites \/ OtherOperation \/ StartServices
  BY <1>1 DEF AppWrites, OtherOperation, StartServices, Packed
<1>2. ASSUME NEW n \in Names, handleBackupCreate(n)
      PROVE  CreateInv'
  <2>1. \A u \in Uploads : upload'[u].name # n
    BY <1>2 DEF handleBackupCreate, Uploading
  <2>2. job'.name = n /\ job'.step = "dump" /\ dir'[n] = None /\ sidecar'[n] = None
    BY <1>2 DEF handleBackupCreate, NoJob
  <2> QED  BY <2>1, <2>2
<1>3. ASSUME NEW n \in Names, handleBackupDelete(n) \/ handleBackupRestore(n)
      PROVE  CreateInv'
  BY <1>3 DEF handleBackupDelete, handleBackupRestore, NoJob
<1>4. CASE Dump
  BY <1>4 DEF Dump, Job, Trees
<1>5. CASE Pack
  <2>1. NextTree[job.step] \in {"config", "compose", "final"}
    BY <1>5 DEF Pack, Trees, NextTree
  <2>2. dir[job.name] = None
    BY <1>5 DEF Pack, Trees
  <2> QED  BY <1>5, <2>1, <2>2 DEF Pack, Job, Trees
<1>6. CASE Finalize \/ encryptFile
  <2>1. /\ job.kind = "create" /\ job'.kind = "create" /\ job'.name = job.name
        /\ job'.content = job.content /\ UNCHANGED <<sidecar, upload>>
    BY <1>6 DEF Finalize, encryptFile, Job
  <2>2. \A w \in BOOLEAN : Packed(w)' = Packed(w)
    BY <2>1 DEF Packed
  <2>3. CASE Finalize /\ job.name \in Encrypted
    <3>1. job'.step = "encrypt" /\ dir'[job.name] = Packed(job.name \notin Encrypted)
      BY <2>1, <2>3 DEF Finalize, Job
    <3>2. Packed(job.name \notin Encrypted) = Packed(FALSE)
      BY <2>3
    <3> QED  BY <2>1, <2>2, <3>1, <3>2
  <2>4. CASE Finalize /\ job.name \notin Encrypted
    <3>1. job'.step = "sidecar" /\ dir'[job.name] = Packed(job.name \notin Encrypted)
      BY <2>1, <2>4 DEF Finalize, Job
    <3>2. Packed(job.name \notin Encrypted) = Packed(TRUE)
      BY <2>4
    <3> QED  BY <2>1, <2>2, <3>1, <3>2
  <2>5. CASE encryptFile
    <3>1. job'.step = "sidecar" /\ dir'[job.name] = Packed(TRUE)
      BY <2>1, <2>5 DEF encryptFile, Job
    <3> QED  BY <2>1, <2>2, <3>1
  <2> QED  BY <1>6, <2>3, <2>4, <2>5
<1>7. CASE writeSidecar \/ CreateFails \/ DeleteSidecar \/ Verify \/ ComposeStop \/ Overlay
           \/ OverlayFails \/ Replay \/ ComposeUpAndExit \/ RestoreFails \/ Crash
  <2>1. CASE job' = NoJob
    BY <2>1 DEF NoJob
  <2>2. CASE Verify \/ ComposeStop \/ Overlay \/ Replay
    <3>1. job' = NoJob \/ (job.kind = "restore" /\ job'.kind = job.kind)
      BY <2>2 DEF Verify, ComposeStop, Overlay, Replay, Job
    <3> QED  BY <2>1, <3>1
  <2> QED
    BY <1>7, <2>1, <2>2
    DEF writeSidecar, CreateFails, DeleteSidecar, OverlayFails, ComposeUpAndExit, RestoreFails,
        Crash, ProcessEnds
<1>8. ASSUME NEW u \in Uploads, UploadStep(u)
      PROVE  CreateInv'
  <2>1. PICK n \in Names :
          /\ \/ upload[u].name = n
             \/ dir[n] = None /\ ~(job.kind = "create" /\ job.name = n)
          /\ \A m \in Names \ {n} : dir'[m] = dir[m] /\ sidecar'[m] = sidecar[m]
          /\ \A v \in Uploads : upload'[v].name \in {upload[v].name, n, None}
    BY <1>8, UploadsApart
  <2>2. job' = job /\ \A w : Packed(w)' = Packed(w)
    BY <1>8, UploadsApart DEF Packed
  <2>3. job.kind = "create" => n # job.name
    BY <2>1
  <2> QED  BY <2>1, <2>2, <2>3
<1> QED
  BY <1>1, <1>2, <1>3, <1>4, <1>5, <1>6, <1>7, <1>8 DEF Next

\* What a restore has placed: nothing else writes while the services are stopped.
LEMMA RestoreStep == IInv /\ Next => RestoreInv'
<1> SUFFICES ASSUME IInv, Next PROVE RestoreInv'
  OBVIOUS
<1> USE DEF IInv, TypeOK, RestoreInv, Held, Goto, Placed
<1>1. CASE AppWrites
  BY <1>1 DEF AppWrites
<1>2. CASE OtherOperation \/ StartServices
  BY <1>2 DEF OtherOperation, StartServices, NoJob
<1>3. ASSUME NEW n \in Names,
             handleBackupCreate(n) \/ handleBackupDelete(n) \/ handleBackupRestore(n)
      PROVE  RestoreInv'
  BY <1>3 DEF handleBackupCreate, handleBackupDelete, handleBackupRestore, NoJob
<1>4. CASE Dump \/ Pack \/ Finalize \/ encryptFile
  <2>1. job'.kind = "create"
    BY <1>4 DEF Dump, Pack, Finalize, encryptFile, Job
  <2> QED  BY <2>1
<1>5. CASE writeSidecar \/ CreateFails \/ DeleteSidecar \/ OverlayFails \/ ComposeUpAndExit
           \/ RestoreFails \/ Crash
  BY <1>5 DEF writeSidecar, CreateFails, DeleteSidecar, OverlayFails, ComposeUpAndExit,
              RestoreFails, Crash, ProcessEnds, NoJob
<1>6. ASSUME NEW u \in Uploads, UploadStep(u)
      PROVE  RestoreInv'
  BY <1>6, UploadsApart
<1>7. CASE Verify
  <2>1. CASE job' = NoJob
    BY <2>1 DEF NoJob
  <2>2. CASE job' # NoJob
    BY <1>7, <2>2 DEF Verify, Job, Trees
  <2> QED  BY <2>1, <2>2
<1>8. CASE ComposeStop
  BY <1>8 DEF ComposeStop, Job, Trees
<1>9. CASE Overlay
  <2>1. /\ job.kind = "restore" /\ job.step \in Trees /\ UNCHANGED up /\ PlaceTree
        /\ job' = [job EXCEPT !.step = AfterTree[job.step]]
    BY <1>9 DEF Overlay
  <2>2. /\ job'.kind = "restore" /\ job'.name = job.name /\ job'.quiet = job.quiet
        /\ job'.content = job.content /\ job'.settled = job.settled
    BY <2>1 DEF Job
  <2>3. \/ job.step = "config" /\ job'.step = "compose"
        \/ job.step = "compose" /\ job'.step = "ls"
        \/ job.step = "ls" /\ job'.step = "db"
    BY <2>1 DEF Job, Trees, AfterTree
  <2>4. CASE ~job.settled
    BY <2>1, <2>2, <2>3, <2>4 DEF Trees
  <2>5. CASE job.settled
    <3>1. Source = job.content /\ job.step \in Parts
      BY <2>1, <2>5 DEF OverlayFromWhole, Parts
    <3>2. live' = [live EXCEPT ![job.step] = IF job.content[job.step] = None THEN @
                                             ELSE job.content[job.step]]
      BY <2>1, <3>1 DEF PlaceTree
    <3>3. job.content[job.step] # None => live'[job.step] = job.content[job.step]
      BY <3>1, <3>2
    <3>4. \A x \in Parts \ {job.step} : live'[x] = live[x]
      BY <3>2
    <3>5. /\ job.step = "config" => Placed("config")'
          /\ job.step = "compose" => Placed("config")' /\ Placed("compose")'
          /\ job.step = "ls" => Placed("config")' /\ Placed("compose")' /\ Placed("ls")'
      BY <2>1, <2>2, <2>5, <3>3, <3>4 DEF Parts, Trees
    <3>6. /\ job.name \in Names
          /\ job.quiet => ~up
      BY <2>1
    <3>7. CASE job.step = "config"
      BY <2>1, <2>2, <2>3, <3>5, <3>6, <3>7 DEF Trees
    <3>8. CASE job.step = "compose"
      BY <2>1, <2>2, <2>3, <3>5, <3>6, <3>8 DEF Trees
    <3>9. CASE job.step = "ls"
      <4>1. Placed("config")' /\ Placed("compose")' /\ Placed("ls")'
        BY <3>5, <3>9
      <4>2. job'.step = "db"
        BY <2>3, <3>9
      <4>3. job'.name \in Names /\ (job'.quiet => ~up')
        BY <2>1, <2>2, <3>6
      <4> QED  BY <2>2, <4>1, <4>2, <4>3 DEF Trees
    <3> QED  BY <2>3, <3>7, <3>8, <3>9
  <2> QED  BY <2>4, <2>5
<1>10. CASE Replay
  <2>1. job.step = "db" /\ job' = [job EXCEPT !.step = "up"] /\ job.kind = "restore"
    BY <1>10 DEF Replay
  <2>2. Placed("db")' /\ \A x \in Trees : Placed(x) => Placed(x)'
    BY <1>10, <2>1 DEF Replay, Job, Parts, Trees
  <2> QED  BY <1>10, <2>1, <2>2 DEF Replay, Job, Trees
<1> QED
  BY <1>1, <1>2, <1>3, <1>4, <1>5, <1>6, <1>7, <1>8, <1>9, <1>10 DEF Next

\* No upload comes to work on a plain archive that a restore places from: its
\* name is taken.
LEMMA SettledStep == IInv /\ Next => SettledInv'
<1> SUFFICES ASSUME IInv, Next,
                    (job.kind = "restore" /\ job.step \in Trees \cup {"stop"} /\ job.settled)',
                    job'.name \notin Encrypted, NEW u \in Uploads
             PROVE  upload'[u].name # job'.name
  BY DEF SettledInv
<1> USE DEF IInv, TypeOK, SettledInv, Held, Goto
<1>1. CASE job' = job
  <2>1. /\ job.name \in Names /\ dir[job.name] # None
        /\ \A v \in Uploads : upload[v].name # job.name
    BY <1>1 DEF RestoreInv, OverlayFromWhole, Sound
  <2>2. ASSUME NEW v \in Uploads, UploadStep(v)
        PROVE  upload'[u].name # job'.name
    <3>1. PICK n \in Names :
            /\ upload[v].name = n \/ dir[n] = None
            /\ upload'[u].name \in {upload[u].name, n, None}
      BY <2>2, UploadsApart
    <3> QED  BY <1>1, <2>1, <3>1
  <2>3. CASE upload' = upload
    BY <1>1, <2>1, <2>3
  <2>4. job # NoJob
    BY <1>1 DEF NoJob
  <2> QED
    BY <1>1, <2>2, <2>3, <2>4
    DEF Next, AppWrites, OtherOperation, StartServices, handleBackupCreate, handleBackupDelete,
        handleBackupRestore, Dump, Pack, Finalize, encryptFile, writeSidecar, CreateFails,
        DeleteSidecar, Verify, ComposeStop, Overlay, OverlayFails, Replay, ComposeUpAndExit,
        RestoreFails, Crash, ProcessEnds
<1>2. CASE Verify
  <2>1. Settled /\ job'.name = job.name /\ upload' = upload
    BY <1>2 DEF Verify, Job, NoJob
  <2> QED  BY <2>1 DEF Settled, Uploading
<1>3. CASE ComposeStop \/ Overlay
  BY <1>3 DEF ComposeStop, Overlay, Job, Trees
<1>4. CASE Dump \/ Pack \/ Finalize \/ encryptFile
  <2>1. job'.kind = "create"
    BY <1>4 DEF Dump, Pack, Finalize, encryptFile, Job
  <2> QED  BY <2>1
<1>5. CASE Replay
  BY <1>5 DEF Replay, Job, Trees
<1>6. CASE job' = NoJob
  BY <1>6 DEF NoJob
<1>7. ASSUME NEW n \in Names,
             handleBackupCreate(n) \/ handleBackupDelete(n) \/ handleBackupRestore(n)
      PROVE  FALSE
  BY <1>7 DEF handleBackupCreate, handleBackupDelete, handleBackupRestore, NoJob, Trees
<1>8. ASSUME NEW v \in Uploads, UploadStep(v)
      PROVE  job' = job
  BY <1>8, UploadsApart
<1> QED
  BY <1>1, <1>2, <1>3, <1>4, <1>5, <1>6, <1>7, <1>8
  DEF Next, AppWrites, OtherOperation, StartServices, writeSidecar, CreateFails, DeleteSidecar,
      OverlayFails, ComposeUpAndExit, RestoreFails, Crash, ProcessEnds

\* The archive that is being restored is the one that was verified: it is a copy
\* of the restore's own, or no upload works on a file of its name.
LEMMA OverlayStep == IInv /\ Next => OverlayFromWhole'
<1> SUFFICES ASSUME IInv, Next,
                    (job.kind = "restore" /\ job.step \in Trees \cup {"stop"} /\ job.settled)'
             PROVE  (/\ Source = job.content
                     /\ job.name \notin Encrypted => Sound(dir[job.name]))'
  BY DEF OverlayFromWhole
<1> USE DEF IInv, TypeOK, OverlayFromWhole, Held, Goto
<1>1. CASE job'.name = job.name /\ job'.content = job.content /\ dir'[job.name] = dir[job.name]
           /\ (Source = job.content /\ (job.name \notin Encrypted => Sound(dir[job.name])))
  BY <1>1 DEF Source, Sound
<1>2. CASE job' = job
  <2>1. /\ job.name \in Names /\ Source = job.content
        /\ job.name \notin Encrypted => Sound(dir[job.name])
    BY <1>2 DEF RestoreInv
  <2>2. ASSUME NEW u \in Uploads, UploadStep(u), job.name \notin Encrypted
        PROVE  dir'[job.name] = dir[job.name]
    <3>1. PICK n \in Names :
            /\ upload[u].name = n \/ dir[n] = None
            /\ \A m \in Names \ {n} : dir'[m] = dir[m]
      BY <2>2, UploadsApart
    <3>2. upload[u].name # job.name
      BY <1>2, <2>2 DEF SettledInv
    <3> QED  BY <2>1, <2>2, <3>1, <3>2 DEF Sound
  <2>3. CASE dir' = dir
    BY <1>1, <1>2, <2>1, <2>3
  <2>4. CASE job.name \in Encrypted
    BY <1>2, <2>1, <2>4 DEF Source
  <2>5. job # NoJob
    BY <1>2 DEF NoJob
  <2> QED
    BY <1>1, <1>2, <2>1, <2>2, <2>3, <2>4, <2>5
    DEF Next, AppWrites, OtherOperation, StartServices, handleBackupCreate, handleBackupDelete,
        handleBackupRestore, Dump, Pack, Finalize, encryptFile, writeSidecar, CreateFails,
        DeleteSidecar, Verify, ComposeStop, Overlay, OverlayFails, Replay, ComposeUpAndExit,
        RestoreFails, Crash, ProcessEnds
<1>3. CASE Verify
  <2>1. /\ Sound(dir[job.name]) /\ job'.content = dir[job.name].content
        /\ job'.name = job.name /\ dir' = dir
    BY <1>3 DEF Verify, Job, NoJob
  <2> QED  BY <2>1 DEF Source, Sound
<1>4. CASE ComposeStop \/ Overlay
  <2>1. /\ job'.name = job.name /\ job'.content = job.content /\ dir' = dir
        /\ job'.settled = job.settled /\ job.kind = "restore" /\ job.step \in Trees \cup {"stop"}
    BY <1>4 DEF ComposeStop, Overlay, Job
  <2> QED  BY <1>1, <2>1
<1>5. CASE Dump \/ Pack \/ Finalize \/ encryptFile
  <2>1. job'.kind = "create"
    BY <1>5 DEF Dump, Pack, Finalize, encryptFile, Job
  <2> QED  BY <2>1
<1>6. CASE Replay
  BY <1>6 DEF Replay, Job, Trees
<1>7. CASE job' = NoJob
  BY <1>7 DEF NoJob
<1>8. ASSUME NEW n \in Names,
             handleBackupCreate(n) \/ handleBackupDelete(n) \/ handleBackupRestore(n)
      PROVE  FALSE
  BY <1>8 DEF handleBackupCreate, handleBackupDelete, handleBackupRestore, NoJob, Trees
<1>9. ASSUME NEW u \in Uploads, UploadStep(u)
      PROVE  job' = job
  BY <1>9, UploadsApart
<1> QED
  BY <1>2, <1>3, <1>4, <1>5, <1>6, <1>7, <1>8, <1>9
  DEF Next, AppWrites, OtherOperation, StartServices, writeSidecar, CreateFails, DeleteSidecar,
      OverlayFails, ComposeUpAndExit, RestoreFails, Crash, ProcessEnds

\* A finished archive stays or goes: what is written is new or was short.
LEMMA ArchivesStep ==
  IInv /\ Next =>
    \A n \in Names : dir[n] # None /\ dir[n].whole => dir'[n] \in {dir[n], None}
<1> SUFFICES ASSUME IInv, Next, NEW n \in Names, dir[n] # None, dir[n].whole
             PROVE  dir'[n] \in {dir[n], None}
  OBVIOUS
<1> USE DEF IInv, TypeOK, Held
<1>1. ASSUME NEW m \in Names, handleBackupDelete(m)
      PROVE  dir'[n] \in {dir[n], None}
  BY <1>1 DEF handleBackupDelete
<1>2. ASSUME NEW u \in Uploads, UploadStep(u)
      PROVE  dir'[n] \in {dir[n], None}
  <2>1. ASSUME NEW m \in Names, NEW a \in Foreign, handleBackupUpload(u, m, a)
        PROVE  dir'[n] \in {dir[n], None}
    BY <2>1 DEF handleBackupUpload
  <2>2. CASE Copied(u)
    <3>1. upload[u].there => upload[u].name # n
      <4>1. ASSUME upload[u].there PROVE ~dir[upload[u].name].whole
        BY <4>1, <2>2 DEF Copied, UploadInv, Short, Archive
      <4> QED  BY <4>1
    <3> QED  BY <2>2, <3>1 DEF Copied
  <2>3. CASE RemoveUpload(u)
    BY <2>3 DEF RemoveUpload
  <2>4. CASE Refused(u) \/ Passed(u) \/ Described(u) \/ WriteUploadSidecar(u)
    BY <2>4 DEF Refused, Passed, Described, WriteUploadSidecar
  <2> QED  BY <1>2, <2>1, <2>2, <2>3, <2>4, UploadStepDoes
<1>3. CASE Finalize
  BY <1>3 DEF Finalize, CreateInv
<1>4. CASE encryptFile
  <2>1. job.name # n
    BY <1>4 DEF encryptFile, CreateInv, Packed
  <2> QED  BY <1>4, <2>1 DEF encryptFile
<1>5. CASE CreateFails
  BY <1>5 DEF CreateFails, CreateInv
<1>6. CASE UNCHANGED dir
  BY <1>6
<1> QED
  BY <1>1, <1>2, <1>3, <1>4, <1>5, <1>6
  DEF Next, AppWrites, OtherOperation, StartServices, handleBackupCreate, handleBackupRestore,
      Dump, Pack, writeSidecar, DeleteSidecar, Verify, ComposeStop, Overlay, OverlayFails,
      Replay, ComposeUpAndExit, RestoreFails, Crash

\* An archive of this server gets its sidecar when it is whole, and keeps both.
LEMMA ListedStep == IInv /\ Next => ListedOwnIsWhole'
<1> SUFFICES ASSUME IInv, Next, NEW n \in Names,
                    sidecar'[n] \notin {None, Torn}, dir'[n] # None, dir'[n].own
             PROVE  dir'[n].whole /\ sidecar'[n] = dir'[n]
  BY DEF ListedOwnIsWhole, List
<1> USE DEF IInv, TypeOK, Held, ListedOwnIsWhole, List
<1>1. CASE dir'[n] = dir[n] /\ sidecar'[n] \in {sidecar[n], Torn}
  BY <1>1
<1>2. ASSUME NEW m \in Names, handleBackupDelete(m)
      PROVE  dir'[n] \in {dir[n], None} /\ sidecar' = sidecar
  BY <1>2 DEF handleBackupDelete
<1>3. ASSUME NEW u \in Uploads, UploadStep(u)
      PROVE  dir'[n] = dir[n] /\ sidecar'[n] = sidecar[n]
  <2>1. PICK m \in Names :
          /\ \A k \in Names \ {m} : dir'[k] = dir[k] /\ sidecar'[k] = sidecar[k]
          /\ dir'[m] = None \/ ~dir'[m].own
    BY <1>3, UploadsApart
  <2> QED  BY <2>1
<1>4. CASE Finalize \/ encryptFile
  <2>1. n # job.name
    BY <1>4 DEF Finalize, encryptFile, CreateInv
  <2> QED  BY <1>4, <2>1 DEF Finalize, encryptFile
<1>5. CASE writeSidecar
  <2>1. /\ job.name \in Names /\ dir[job.name] = Packed(TRUE) /\ dir' = dir
        /\ sidecar' = [sidecar EXCEPT ![job.name] = dir[job.name]]
    BY <1>5 DEF writeSidecar, CreateInv
  <2>2. CASE n = job.name
    BY <2>1, <2>2 DEF Packed
  <2>3. CASE n # job.name
    BY <2>1, <2>3
  <2> QED  BY <2>2, <2>3
<1>6. CASE CreateFails
  <2>1. job.name \in Names /\ (dir' = dir \/ dir' = [dir EXCEPT ![job.name] = None])
    BY <1>6 DEF CreateFails, CreateInv
  <2>2. sidecar'[n] \in {sidecar[n], Torn}
    BY <1>6, <2>1, TornSidecar DEF CreateFails
  <2> QED  BY <1>1, <2>1, <2>2
<1>7. CASE DeleteSidecar
  BY <1>7 DEF DeleteSidecar, RestoreInv
<1>8. CASE ComposeUpAndExit \/ Crash
  BY <1>1, <1>8, ProcessEndsDoes DEF ComposeUpAndExit, Crash
<1>9. CASE UNCHANGED <<dir, sidecar>>
  BY <1>1, <1>9
<1> QED
  BY <1>1, <1>2, <1>3, <1>4, <1>5, <1>6, <1>7, <1>8, <1>9
  DEF Next, AppWrites, OtherOperation, StartServices, handleBackupCreate, handleBackupRestore,
      Dump, Pack, Verify, ComposeStop, Overlay, OverlayFails, Replay, RestoreFails

-----------------------------------------------------------------------------
LEMMA IInvInit == Init => IInv
<1> SUFFICES ASSUME Init PROVE IInv
  OBVIOUS
<1>1. TypeOK
  BY NoJobJob, NoUploadUpload, BudgetAssumption DEF Init, TypeOK
<1>2. UploadInv /\ OneWriter
  BY DEF Init, UploadInv, OneWriter, NoUpload
<1>3. CreateInv /\ RestoreInv /\ SettledInv
  BY DEF Init, CreateInv, RestoreInv, SettledInv, NoJob
<1>4. OverlayFromWhole /\ ListedOwnIsWhole
  BY DEF Init, OverlayFromWhole, ListedOwnIsWhole, List, NoJob
<1> QED  BY <1>1, <1>2, <1>3, <1>4 DEF IInv

LEMMA IInvStep == IInv /\ [Next]_vars => IInv'
<1>1. IInv /\ Next => IInv'
  BY TypeStep, UploadInvStep, CreateStep, RestoreStep, SettledStep, OverlayStep, ListedStep
  DEF IInv
<1>2. IInv /\ UNCHANGED vars => IInv'
  BY DEF vars, IInv, TypeOK, UploadInv, OneWriter, CreateInv, Packed, RestoreInv, Placed,
         SettledInv, OverlayFromWhole, Source, Sound, ListedOwnIsWhole, List
<1> QED  BY <1>1, <1>2

\* Each operation finds at each of its steps what the steps before it have left,
\* beside the uploads and the apps (backup.go:99-344, handlers_backup.go:84-231).
THEOREM Invariant == Spec => []IInv
BY IInvInit, IInvStep, PTL DEF Spec

\* The directory, the operation and the uploads keep their types
\* (backup.go:99-344, restore.go:44-151, handlers_backup.go:84-231).
THEOREM TypeCorrect == Spec => []TypeOK
<1>1. IInv => TypeOK
  BY DEF IInv
<1> QED  BY <1>1, Invariant, PTL

\* Every tree that a restore places comes from the archive it has read to the
\* end, whatever fails, the uploads of other names among it, provided that none
\* of its own name was at work when it read it (restore.go:44-151,
\* handlers_backup.go:84-231).
THEOREM RestoresWhatItVerified == Spec => []OverlayFromWhole
<1>1. IInv => OverlayFromWhole
  BY DEF IInv
<1> QED  BY <1>1, Invariant, PTL

\* A restore that has stopped the services leaves the server as the archive
\* says, whatever the apps do, provided that no upload of the archive's name was
\* at work when it read it (restore.go:44-151).
THEOREM RestoreIsFaithful == Spec => []RestoredIsArchive
<1>1. IInv => RestoredIsArchive
  BY DEF IInv, RestoreInv, RestoredIsArchive, Held, Placed, Parts, Trees
<1> QED  BY <1>1, Invariant, PTL

\* A backup that was made here is listed only when it is whole, wherever the
\* process dies (backup.go:99-344).
THEOREM ListIsTrue == Spec => []ListedOwnIsWhole
<1>1. IInv => ListedOwnIsWhole
  BY DEF IInv
<1> QED  BY <1>1, Invariant, PTL

\* No upload and no backup takes the place of a finished archive
\* (handlers_backup.go:84-231, backup.go:99-344).
THEOREM ArchivesAreKept == Spec => ArchivesStand
<1>1. IInv /\ [Next]_vars =>
        [\A n \in Names : dir[n] # None /\ dir[n].whole => dir'[n] \in {dir[n], None}]_vars
  BY ArchivesStep
<1> QED  BY <1>1, Invariant, PTL DEF Spec, ArchivesStand
=============================================================================
