------------------------------- MODULE Backups -------------------------------
(***************************************************************************)
(* Backups (internal/backup, web/handlers_backup.go): the archives with    *)
(* their sidecars in the backup directory, and what a restore does to the  *)
(* server.                                                                 *)
(*                                                                         *)
(* Creating, deleting and restoring hold the operation lock, so one of     *)
(* them is under way at a time. Uploads do not take it: any number of them *)
(* run beside it and beside each other, and one that fails removes its     *)
(* file by name. The apps write as long as they run, and any step may fail *)
(* or be the last one of the process.                                      *)
(***************************************************************************)
EXTENDS Naturals

CONSTANTS
  Names,      \* file names of archives, backup-<slug>-<time>.tar.gz or .tar.gz.age
  Encrypted,  \* those among them that end in .age
  Vals,       \* what a file tree or the database may contain
  Uploads,    \* requests that upload, at a time
  Faults,     \* what may go wrong in this instance
  Budget,     \* bound: operations and uploads that are asked for
  None,
  Torn        \* a sidecar of which only a part has been written

AllFaults == {"crash",  \* the process dies between two steps
              "step",   \* a step of an operation or of an upload fails
              "stop",   \* docker compose cannot stop the services
              "junk"}   \* what is uploaded need not be a backup

Trees   == {"config", "compose", "ls"}   \* sc-config, sc-compose, ls in the archive
Parts   == Trees \cup {"db"}
Content == [Parts -> Vals \cup {None}]   \* None: not there
Nothing == [x \in Parts |-> None]

\* own: made here by Create; good: it has a manifest of this schema.
Archive == [content : Content, whole : BOOLEAN, good : BOOLEAN, own : BOOLEAN]

Sound(a) == a # None /\ a.whole /\ a.good

ASSUME EncryptedAssumption == Encrypted \subseteq Names
ASSUME FaultsAssumption    == Faults \subseteq AllFaults
ASSUME BudgetAssumption    == Budget \in Nat
ASSUME NoneAssumption      == None \notin Names \cup Vals \cup Archive
ASSUME TornAssumption      == Torn \notin Archive \cup {None}

VARIABLES
  live,     \* the trees and the database of the server
  up,       \* the services run
  dir,      \* file name -> archive in the backup directory, or None
  sidecar,  \* file name -> the archive its .meta.json describes, Torn, or None
  job,      \* the operation that holds the lock
  upload,   \* the uploads under way
  left      \* bound: operations and uploads still to be asked for

vars == <<live, up, dir, sidecar, job, upload, left>>

NoJob    == [kind |-> "none", name |-> None, step |-> "none", content |-> Nothing,
             quiet |-> FALSE, settled |-> FALSE]
NoUpload == [name |-> None, step |-> "none", archive |-> None, there |-> FALSE]

Job == [kind    : {"none", "create", "delete", "restore"},
        name    : Names \cup {None},
        step    : {"none", "dump", "ls", "config", "compose", "final", "encrypt",
                   "sidecar", "verify", "stop", "db", "up"},
        content : Content,     \* packed so far, or verified
        quiet   : BOOLEAN,     \* the services have been stopped
        settled : BOOLEAN]     \* no upload works on what has been verified

Upload == [name    : Names \cup {None},
           step    : {"none", "copy", "inspect", "write", "remove"},
           archive : Archive \cup {None},  \* to be copied, or to be described
           there   : BOOLEAN]   \* the file it copies to still has its name

TypeOK ==
  /\ live \in [Parts -> Vals]
  /\ up \in BOOLEAN
  /\ dir \in [Names -> Archive \cup {None}]
  /\ sidecar \in [Names -> Archive \cup {None, Torn}]
  /\ job \in Job
  /\ upload \in [Uploads -> Upload]
  /\ left \in 0 .. Budget

Init ==
  /\ \E v \in Vals : live = [x \in Parts |-> v]
  /\ up = TRUE
  /\ dir = [n \in Names |-> None]
  /\ sidecar = [n \in Names |-> None]
  /\ job = NoJob
  /\ upload = [u \in Uploads |-> NoUpload]
  /\ left = Budget

Asked == left > 0 /\ left' = left - 1

Held(kind, step) == job.kind = kind /\ job.step = step

Goto(step) == job' = [job EXCEPT !.step = step]

\* Uploads that have a file of this name in hand.
Uploading(n) == {u \in Uploads : upload[u].name = n}

\* The sidecar is written in place: an error may leave a part of it.
TearSidecar(n) == sidecar' \in {sidecar, [sidecar EXCEPT ![n] = Torn]}

-----------------------------------------------------------------------------
\* The server: an app writes its data and its database while it runs; another
\* operation leaves both the config and the compose files of its own.

AppWrites ==
  /\ up
  /\ \E x \in {"ls", "db"}, v \in Vals : live' = [live EXCEPT ![x] = v]
  /\ UNCHANGED <<up, dir, sidecar, job, upload, left>>

OtherOperation ==
  /\ job = NoJob
  /\ \E v \in Vals : live' = [live EXCEPT !["config"] = v, !["compose"] = v]
  /\ UNCHANGED <<up, dir, sidecar, job, upload, left>>

\* The services are started, after a failed restore for instance.
StartServices ==
  /\ job = NoJob
  /\ up' = TRUE
  /\ UNCHANGED <<live, dir, sidecar, job, upload, left>>

-----------------------------------------------------------------------------
\* Create.

\* The name carries the time of day, so nothing has it yet.
handleBackupCreate(n) ==
  /\ Asked
  /\ job = NoJob
  /\ dir[n] = None /\ sidecar[n] = None /\ Uploading(n) = {}
  /\ job' = [NoJob EXCEPT !.kind = "create", !.name = n, !.step = "dump"]
  /\ UNCHANGED <<live, up, dir, sidecar, upload>>

\* pg_dumpall, or no dump where Postgres is not reachable.
Dump ==
  /\ Held("create", "dump")
  /\ job' = [job EXCEPT !.step = "ls", !.content["db"] = IF up THEN live["db"] ELSE None]
  /\ UNCHANGED <<live, up, dir, sidecar, upload, left>>

NextTree == [ls |-> "config", config |-> "compose", compose |-> "final"]

\* tar reads one tree after the other, into a .partial file.
Pack ==
  /\ job.kind = "create" /\ job.step \in Trees
  /\ job' = [job EXCEPT !.step = NextTree[@], !.content[job.step] = live[job.step]]
  /\ UNCHANGED <<live, up, dir, sidecar, upload, left>>

Packed(whole) == [content |-> job.content, whole |-> whole, good |-> TRUE, own |-> TRUE]

\* Variant: the sidecar of an encrypted archive is written before the archive.
FinalizeSidecarFirst ==
  /\ Held("create", "final")
  /\ dir' = [dir EXCEPT ![job.name] = Packed(job.name \notin Encrypted)]
  /\ Goto("sidecar")
  /\ UNCHANGED <<live, up, sidecar, upload, left>>

\* A plain archive is renamed into place; an encrypted one is written there.
Finalize ==
  /\ Held("create", "final")
  /\ dir' = [dir EXCEPT ![job.name] = Packed(job.name \notin Encrypted)]
  /\ Goto(IF job.name \in Encrypted THEN "encrypt" ELSE "sidecar")
  /\ UNCHANGED <<live, up, sidecar, upload, left>>

encryptFile ==
  /\ Held("create", "encrypt")
  /\ dir' = [dir EXCEPT ![job.name] = Packed(TRUE)]
  /\ Goto("sidecar")
  /\ UNCHANGED <<live, up, sidecar, upload, left>>

writeSidecar ==
  /\ Held("create", "sidecar")
  /\ sidecar' = [sidecar EXCEPT ![job.name] = dir[job.name]]
  /\ job' = NoJob
  /\ UNCHANGED <<live, up, dir, upload, left>>

\* What has been written of an encrypted archive is removed; a finished archive
\* stays, without a sidecar.
CreateFails ==
  /\ "step" \in Faults
  /\ job.kind = "create"
  /\ dir' = IF job.step = "encrypt" THEN [dir EXCEPT ![job.name] = None] ELSE dir
  /\ IF job.step = "sidecar" THEN TearSidecar(job.name) ELSE UNCHANGED sidecar
  /\ job' = NoJob
  /\ UNCHANGED <<live, up, upload, left>>

-----------------------------------------------------------------------------
\* List and Delete.

\* A sidecar without an archive is not listed, nor an archive without one that
\* can be read.
List == {n \in Names : sidecar[n] \notin {None, Torn} /\ dir[n] # None}

\* The uploads once a file of this name is gone: one that copies goes on writing
\* to a file without a name.
Unlinked(n) == [u \in Uploads |-> [upload[u] EXCEPT !.there = @ /\ upload[u].name # n]]

\* The archive goes first.
handleBackupDelete(n) ==
  /\ Asked
  /\ job = NoJob
  /\ dir' = [dir EXCEPT ![n] = None]
  /\ upload' = Unlinked(n)
  /\ job' = [NoJob EXCEPT !.kind = "delete", !.name = n, !.step = "sidecar"]
  /\ UNCHANGED <<live, up, sidecar>>

DeleteSidecar ==
  /\ Held("delete", "sidecar")
  /\ sidecar' = [sidecar EXCEPT ![job.name] = None]
  /\ job' = NoJob
  /\ UNCHANGED <<live, up, dir, upload, left>>

-----------------------------------------------------------------------------
\* Uploads, beside each other and whatever holds the lock.

Foreign == [content : {[x \in Parts |-> v] : v \in Vals}, whole : {TRUE},
            good : IF "junk" \in Faults THEN BOOLEAN ELSE {TRUE}, own : {FALSE}]

UploadEnds(u) == upload' = [upload EXCEPT ![u] = NoUpload]

\* Variant: without O_EXCL.
handleBackupUploadOverwrites(u, n, a) ==
  /\ Asked
  /\ upload[u] = NoUpload
  /\ ~(job.kind = "create" /\ job.name = n)
  /\ dir' = [dir EXCEPT ![n] = [a EXCEPT !.whole = FALSE]]
  /\ upload' = [upload EXCEPT ![u] = [name |-> n, step |-> "copy", archive |-> a, there |-> TRUE]]
  /\ UNCHANGED <<live, up, sidecar, job>>

\* The file must not exist (O_EXCL); from now on it has its name, and is short.
handleBackupUpload(u, n, a) ==
  /\ Asked
  /\ upload[u] = NoUpload
  /\ dir[n] = None
  /\ ~(job.kind = "create" /\ job.name = n)
  /\ dir' = [dir EXCEPT ![n] = [a EXCEPT !.whole = FALSE]]
  /\ upload' = [upload EXCEPT ![u] = [name |-> n, step |-> "copy", archive |-> a, there |-> TRUE]]
  /\ UNCHANGED <<live, up, sidecar, job>>

Copied(u) ==
  /\ upload[u].step = "copy"
  /\ dir' = IF upload[u].there THEN [dir EXCEPT ![upload[u].name] = upload[u].archive] ELSE dir
  /\ upload' = [upload EXCEPT ![u] = [NoUpload EXCEPT !.name = upload[u].name, !.step = "inspect"]]
  /\ UNCHANGED <<live, up, sidecar, job, left>>

Refuse(u) == upload' = [upload EXCEPT ![u] = [NoUpload EXCEPT !.name = upload[u].name,
                                                             !.step = "remove"]]

CopyFails(u) ==
  /\ "step" \in Faults
  /\ upload[u].step = "copy"
  /\ Refuse(u)
  /\ UNCHANGED <<live, up, dir, sidecar, job, left>>

\* It looks at whatever has the name now. An archive that has a sidecar keeps
\* it. The manifest of an encrypted one cannot be read; that of a plain one is
\* not compared with the schema.
WriteSidecarFor(u) ==
  /\ upload[u].step = "inspect"
  /\ LET n == upload[u].name
         a == dir[n]
     IN \/ a = None /\ Refuse(u)
        \/ a # None /\ sidecar[n] # None /\ UploadEnds(u)
        \/ /\ a # None /\ sidecar[n] = None
           /\ (n \notin Encrypted /\ ~Sound(a)) \/ "step" \in Faults
           /\ Refuse(u)
        \/ /\ a # None /\ sidecar[n] = None
           /\ upload' = [upload EXCEPT ![u] = [name |-> n, step |-> "write", archive |-> a,
                                               there |-> FALSE]]
  /\ UNCHANGED <<live, up, dir, sidecar, job, left>>

WriteUploadSidecar(u) ==
  /\ upload[u].step = "write"
  /\ sidecar' = [sidecar EXCEPT ![upload[u].name] = upload[u].archive]
  /\ UploadEnds(u)
  /\ UNCHANGED <<live, up, dir, job, left>>

UploadSidecarFails(u) ==
  /\ "step" \in Faults
  /\ upload[u].step = "write"
  /\ TearSidecar(upload[u].name)
  /\ Refuse(u)
  /\ UNCHANGED <<live, up, dir, job, left>>

\* After any error the file of that name is removed, whichever it is by now.
RemoveUpload(u) ==
  /\ upload[u].step = "remove"
  /\ dir' = [dir EXCEPT ![upload[u].name] = None]
  /\ upload' = [Unlinked(upload[u].name) EXCEPT ![u] = NoUpload]
  /\ UNCHANGED <<live, up, sidecar, job, left>>

-----------------------------------------------------------------------------
\* Restore.

\* Any name of the right form may be asked for, listed or not.
handleBackupRestore(n) ==
  /\ Asked
  /\ job = NoJob
  /\ dir[n] # None
  /\ job' = [NoJob EXCEPT !.kind = "restore", !.name = n, !.step = "verify"]
  /\ UNCHANGED <<live, up, dir, sidecar, upload>>

\* A restore reads an encrypted archive once, into a copy of its own, and opens
\* a plain one anew by its name for each tree.
Settled == job.name \in Encrypted \/ Uploading(job.name) = {}

\* Variant: the manifest is read, the rest of the archive is not.
VerifyManifest ==
  /\ Held("restore", "verify")
  /\ job' = IF dir[job.name] # None /\ dir[job.name].good
              THEN [job EXCEPT !.step = "stop", !.content = dir[job.name].content,
                               !.settled = Settled]
              ELSE NoJob
  /\ UNCHANGED <<live, up, dir, sidecar, upload, left>>

\* The archive is read to its end, and the dump set aside, before anything else.
Verify ==
  /\ Held("restore", "verify")
  /\ job' = IF Sound(dir[job.name])
              THEN [job EXCEPT !.step = "stop", !.content = dir[job.name].content,
                               !.settled = Settled]
              ELSE NoJob
  /\ UNCHANGED <<live, up, dir, sidecar, upload, left>>

\* The restore goes on where the services cannot be stopped.
ComposeStop ==
  /\ Held("restore", "stop")
  /\ \/ up' = FALSE
     \/ "stop" \in Faults /\ UNCHANGED up
  /\ job' = [job EXCEPT !.step = "config", !.quiet = ~up']
  /\ UNCHANGED <<live, dir, sidecar, upload, left>>

AfterTree == [config |-> "compose", compose |-> "ls", ls |-> "db"]

\* What tar finds when a tree is to be placed.
Source ==
  IF job.name \in Encrypted THEN job.content
  ELSE IF dir[job.name] = None THEN Nothing ELSE dir[job.name].content

\* An overlay: what the archive does not have stays.
PlaceTree ==
  live' = [live EXCEPT ![job.step] = IF Source[job.step] = None THEN @ ELSE Source[job.step]]

Overlay ==
  /\ job.kind = "restore" /\ job.step \in Trees
  /\ job.name \in Encrypted \/ (dir[job.name] # None /\ dir[job.name].whole)
  /\ PlaceTree
  /\ Goto(AfterTree[job.step])
  /\ UNCHANGED <<up, dir, sidecar, upload, left>>

\* The archive has gone, or is another one by now and short or no backup: the
\* restore ends with some of the tree in place, and the services stay stopped.
OverlayFails ==
  /\ job.kind = "restore" /\ job.step \in Trees
  /\ (job.name \notin Encrypted /\ ~Sound(dir[job.name])) \/ "step" \in Faults
  /\ UNCHANGED live \/ PlaceTree
  /\ job' = NoJob
  /\ UNCHANGED <<up, dir, sidecar, upload, left>>

\* Variant: an archive without a dump is replayed as an empty one.
ReplayNothing ==
  /\ Held("restore", "db")
  /\ live' = [live EXCEPT !["db"] = job.content["db"]]
  /\ Goto("up")
  /\ UNCHANGED <<up, dir, sidecar, upload, left>>

\* Variant: all services are started for the replay.
ReplayWithApps ==
  /\ Held("restore", "db")
  /\ live' = [live EXCEPT !["db"] = IF job.content["db"] = None THEN @ ELSE job.content["db"]]
  /\ up' = TRUE
  /\ Goto("up")
  /\ UNCHANGED <<dir, sidecar, upload, left>>

\* Postgres alone is started for the replay.
Replay ==
  /\ Held("restore", "db")
  /\ live' = [live EXCEPT !["db"] = IF job.content["db"] = None THEN @ ELSE job.content["db"]]
  /\ Goto("up")
  /\ UNCHANGED <<up, dir, sidecar, upload, left>>

\* The process ends and the uploads with it, one perhaps in the middle of a
\* sidecar.
ProcessEnds ==
  LET writing == {n \in Names : \E u \in Uploading(n) : upload[u].step = "write"}
                   \cup {n \in Names : Held("create", "sidecar") /\ job.name = n}
  IN /\ job' = NoJob
     /\ upload' = [u \in Uploads |-> NoUpload]
     /\ \E cut \in SUBSET writing :
          sidecar' = [n \in Names |-> IF n \in cut THEN Torn ELSE sidecar[n]]

\* All services; then the process ends, and systemd starts it on the files that
\* are there now.
ComposeUpAndExit ==
  /\ Held("restore", "up")
  /\ up' = TRUE
  /\ ProcessEnds
  /\ UNCHANGED <<live, dir, left>>

\* What has been placed stays, and the services stay stopped.
RestoreFails ==
  /\ "step" \in Faults
  /\ job.kind = "restore" /\ job.step \notin Trees
  /\ job' = NoJob
  /\ UNCHANGED <<live, up, dir, sidecar, upload, left>>

Crash ==
  /\ "crash" \in Faults
  /\ job # NoJob \/ \E u \in Uploads : upload[u] # NoUpload
  /\ ProcessEnds
  /\ UNCHANGED <<live, up, dir, left>>

-----------------------------------------------------------------------------
UploadStep(u) ==
  \/ \E n \in Names, a \in Foreign : handleBackupUpload(u, n, a)
  \/ Copied(u) \/ CopyFails(u) \/ WriteSidecarFor(u) \/ WriteUploadSidecar(u)
  \/ UploadSidecarFails(u) \/ RemoveUpload(u)

Next ==
  \/ AppWrites \/ OtherOperation \/ StartServices
  \/ \E n \in Names : handleBackupCreate(n) \/ handleBackupDelete(n) \/ handleBackupRestore(n)
  \/ Dump \/ Pack \/ Finalize \/ encryptFile \/ writeSidecar \/ CreateFails
  \/ DeleteSidecar
  \/ \E u \in Uploads : UploadStep(u)
  \/ Verify \/ ComposeStop \/ Overlay \/ OverlayFails \/ Replay \/ ComposeUpAndExit
  \/ RestoreFails \/ Crash

Spec == Init /\ [][Next]_vars

-----------------------------------------------------------------------------
\* A restore places trees only from the archive it has read to its end: a short
\* or foreign file is refused before anything is touched, a deletion waits for
\* the lock, and an upload can neither replace nor remove it - if none of that
\* name was at work when a plain archive was read (see VerifiedIsPlaced).
OverlayFromWhole ==
  job.kind = "restore" /\ job.step \in Trees \cup {"stop"} /\ job.settled =>
    /\ Source = job.content
    /\ job.name \notin Encrypted => Sound(dir[job.name])

\* Once the services are about to be started again, everything the archive has
\* is on the server, all of it from the one archive: nobody has written in
\* between, because the services were stopped first and only Postgres runs. (The
\* replay is all or an error here; psql goes on after a statement that fails.)
RestoredIsArchive ==
  Held("restore", "up") /\ job.quiet /\ job.settled =>
    \A x \in Parts : job.content[x] # None => live[x] = job.content[x]

\* A backup that was made here is in the list only once it is whole, and what
\* the list says of it is true, whenever the process dies and whatever uploads
\* of its name have failed before.
ListedOwnIsWhole ==
  \A n \in List : dir[n].own => dir[n].whole /\ sidecar[n] = dir[n]

\* An archive that is complete is deleted or stays as it is: of several uploads
\* of one name, between which its file was deleted, none writes into the file of
\* another, and none of them, nor another backup, ends up in its place.
ArchivesStand ==
  [][\A n \in Names : dir[n] # None /\ dir[n].whole => dir'[n] \in {dir[n], None}]_vars

\* What is listed is whole and described by its sidecar, uploads included. (A
\* deletion that stops half-way leaves a sidecar for whatever is uploaded next.)
ListedIsWhole == \A n \in List : dir[n].whole /\ sidecar[n] = dir[n]

\* "overwritten with the backup's contents" (restore.go:27-29), whoever else is
\* at work. (An upload whose sidecar cannot be written removes its archive while
\* a restore is placing it.)
VerifiedIsPlaced == job.kind = "restore" /\ job.step \in Trees => Source = job.content
=============================================================================
