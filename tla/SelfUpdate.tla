------------------------------ MODULE SelfUpdate ------------------------------
(***************************************************************************)
(* How stackctl replaces itself (internal/update, web/handlers_system.go): *)
(* look for the latest release, download it beside the running program,    *)
(* check it, rename it into place, end, and be started again by systemd.   *)
(*                                                                         *)
(* A self-update holds the operation lock; the lock is free again for the  *)
(* half second that the process still runs afterwards. The process may     *)
(* die at any point and systemd starts whatever file is there.             *)
(***************************************************************************)
EXTENDS ReleaseOrder

CONSTANTS
  Versions,  \* versions there are, Unordered among them if builds are
  Releases,  \* the releases that GitHub may name as the latest
  Dev,       \* the version of a build that has none
  Faults,    \* what may go wrong in this instance
  None

AllFaults == {"crash",   \* the process dies between two steps
              "net",     \* GitHub cannot be reached
              "disk"}    \* the version file cannot be written

\* What a release offers for download: whether a list of checksums comes with
\* it, whether the file is the one in the list, whether it is a program.
Release == [tag : Versions, listed : BOOLEAN, genuine : BOOLEAN, runs : BOOLEAN]

ASSUME VersionsAssumption == Versions \subseteq Version \cup {Unordered}
ASSUME ReleasesAssumption == Releases \subseteq Release
ASSUME DevAssumption      == Dev \notin Versions
ASSUME FaultsAssumption   == Faults \subseteq AllFaults
ASSUME NoneAssumption     == None \notin Versions \cup {Dev}

\* A file that systemd may be made to start.
Program == [ver : Versions \cup {Dev}, whole : BOOLEAN, genuine : BOOLEAN, runs : BOOLEAN]

VARIABLES
  latest,       \* the latest release on GitHub, or None
  binary,       \* the program that systemd starts
  new,          \* the download beside it, or None
  versionFile,  \* stackctl.version, or None
  running,      \* the version of the running process, or None
  last,         \* history: the version of the process that ran last
  step,         \* of the job under way
  rel,          \* the release that the job has found, or None
  exiting       \* the end of the process is scheduled

vars == <<latest, binary, new, versionFile, running, last, step, rel, exiting>>

Steps == {"none", "check", "download", "sum", "verify", "replace", "record"}

TypeOK ==
  /\ latest \in Release \cup {None}
  /\ binary \in Program
  /\ new \in Program \cup {None}
  /\ versionFile \in Versions \cup {None}
  /\ running \in Versions \cup {Dev, None}
  /\ last \in Versions \cup {Dev}
  /\ step \in Steps
  /\ rel \in Release \cup {None}
  /\ exiting \in BOOLEAN

\* Installed by hand, with or without the file of an earlier self-update.
Init ==
  /\ latest = None
  /\ \E v \in Versions \cup {Dev} :
       /\ binary = [ver |-> v, whole |-> TRUE, genuine |-> TRUE, runs |-> TRUE]
       /\ running = v
       /\ last = v
  /\ new = None
  /\ versionFile \in Versions \cup {None}
  /\ step = "none"
  /\ rel = None
  /\ exiting = FALSE

Up == running # None

\* The version built into the program comes first; the file is for a build
\* without one.
CurrentVersion ==
  IF running # Dev THEN running ELSE IF versionFile # None THEN versionFile ELSE Dev

\* Variant: any other release is an update.
UpdateAvailableIfOther(r) == CurrentVersion # Dev /\ r.tag # CurrentVersion

UpdateAvailable(r) == CurrentVersion # Dev /\ newer(r.tag, CurrentVersion)

-----------------------------------------------------------------------------
\* The job.

\* A release is published, or withdrawn so that another one is the latest.
Publish ==
  /\ latest' \in Releases
  /\ UNCHANGED <<binary, new, versionFile, running, last, step, rel, exiting>>

handleSystemUpdate ==
  /\ Up /\ step = "none"
  /\ step' = "check"
  /\ UNCHANGED <<latest, binary, new, versionFile, running, last, rel, exiting>>

\* The job ends without having changed anything but the download.
JobEnds == step' = "none" /\ rel' = None

Check ==
  /\ Up /\ step = "check"
  /\ IF latest # None /\ UpdateAvailable(latest) /\ latest.listed
       THEN step' = "download" /\ rel' = latest
       ELSE JobEnds
  /\ UNCHANGED <<latest, binary, new, versionFile, running, last, exiting>>

\* What the download leaves behind while it goes on, and when it is done.
Downloaded(whole) ==
  [ver |-> rel.tag, whole |-> whole, genuine |-> rel.genuine, runs |-> rel.runs]

downloadFile ==
  /\ Up /\ step = "download"
  /\ \/ new # Downloaded(FALSE) /\ new' = Downloaded(FALSE) /\ UNCHANGED step
     \/ new = Downloaded(FALSE) /\ new' = Downloaded(TRUE) /\ step' = "sum"
  /\ UNCHANGED <<latest, binary, versionFile, running, last, rel, exiting>>

Remove ==
  /\ new' = None
  /\ JobEnds
  /\ UNCHANGED <<latest, binary, versionFile, running, last, exiting>>

\* GitHub answers neither the question for the release nor for a file of it.
NetFails ==
  /\ "net" \in Faults
  /\ Up
  /\ \/ step = "check" /\ JobEnds
        /\ UNCHANGED <<latest, binary, new, versionFile, running, last, exiting>>
     \/ step \in {"download", "sum"} /\ Remove

\* Variant: the length of the file is compared, its checksum is not.
CheckSumOfLength ==
  /\ Up /\ step = "sum"
  /\ IF new.whole
       THEN /\ step' = "verify"
            /\ UNCHANGED <<latest, binary, new, versionFile, running, last, rel, exiting>>
       ELSE Remove

\* The checksum of the file against the list of the release.
CheckSum ==
  /\ Up /\ step = "sum"
  /\ IF new.whole /\ new.genuine
       THEN /\ step' = "verify"
            /\ UNCHANGED <<latest, binary, new, versionFile, running, last, rel, exiting>>
       ELSE Remove

\* It must print its version.
VerifyRuns ==
  /\ Up /\ step = "verify"
  /\ IF new.runs
       THEN /\ step' = "replace"
            /\ UNCHANGED <<latest, binary, new, versionFile, running, last, rel, exiting>>
       ELSE Remove

\* Variant: the old program is removed and the new one not renamed yet.
ReplaceInTwo ==
  /\ Up /\ step = "replace"
  /\ binary' = None
  /\ step' = "record"
  /\ UNCHANGED <<latest, new, versionFile, running, last, rel, exiting>>

Replace ==
  /\ Up /\ step = "replace"
  /\ binary' = new
  /\ new' = None
  /\ step' = "record"
  /\ UNCHANGED <<latest, versionFile, running, last, rel, exiting>>

\* The end of the process is scheduled and the lock released.
Record ==
  /\ Up /\ step = "record"
  /\ versionFile' = rel.tag
  /\ exiting' = TRUE
  /\ JobEnds
  /\ UNCHANGED <<latest, binary, new, running, last>>

\* The job counts as failed: the program has been replaced, the process stays.
RecordFails ==
  /\ "disk" \in Faults
  /\ Up /\ step = "record"
  /\ JobEnds
  /\ UNCHANGED <<latest, binary, new, versionFile, running, last, exiting>>

-----------------------------------------------------------------------------
\* The process.

Ends ==
  /\ running' = None
  /\ exiting' = FALSE
  /\ JobEnds
  /\ UNCHANGED <<latest, binary, new, versionFile, last>>

\* Variant: the process waits until no job is under way.
ExitWhenIdle == Up /\ exiting /\ step = "none" /\ Ends

\* Whatever the process was doing.
Exit == Up /\ exiting /\ Ends

Crash == "crash" \in Faults /\ Up /\ Ends

\* systemd: Restart=always, whatever file is there.
Start ==
  /\ ~Up
  /\ running' = binary.ver
  /\ last' = binary.ver
  /\ UNCHANGED <<latest, binary, new, versionFile, step, rel, exiting>>

Next ==
  \/ Publish \/ handleSystemUpdate
  \/ Check \/ downloadFile \/ NetFails \/ CheckSum \/ VerifyRuns \/ Replace
  \/ Record \/ RecordFails
  \/ Exit \/ Crash \/ Start

Spec == Init /\ [][Next]_vars

\* The timer of RestartService, and systemd.
FairSpec == Spec /\ WF_vars(Exit) /\ WF_vars(Start)

-----------------------------------------------------------------------------
\* Whatever systemd may be asked to start is a whole file whose checksum was
\* in the release, at any moment at which the process can die.
StartableIsVerified == binary.whole /\ binary.genuine /\ binary.runs

\* A process is followed by one of the same version or of a newer one, even if
\* releases are withdrawn, a second update runs before the restart, or the
\* version file is out of date - given that the version built into a program is
\* the tag of the release it came with.
NeverBackwards ==
  [][~Up /\ Up' /\ last # Dev => running' = last \/ newer(running', last)]_vars

\* What is offered is what semantic versioning says is newer.
OffersFollowPrecedence ==
  latest # None /\ Up /\ CurrentVersion # Dev =>
    (UpdateAvailable(latest) <=>
       /\ CurrentVersion # Unordered /\ latest.tag # Unordered
       /\ Precedes(CurrentVersion, latest.tag))

\* After an update that succeeded, the new program comes to run.
UpdateTakesEffect == exiting ~> (Up /\ running = binary.ver)
=============================================================================
