------------------------------ MODULE Install -------------------------------
(***************************************************************************)
(* Installers share a cache of browsers: a directory for each revision,    *)
(* with a file lock, and LATEST.txt, which names the revision to use.      *)
(*                                                                         *)
(* Each reads LATEST.txt, learns the newest revision there is, and if that *)
(* is newer takes the lock of its directory, downloads, unpacks in place,  *)
(* records the revision and chooses a browser by LATEST.txt again.         *)
(* LATEST.txt has a lock of its own that is released and never taken.  An  *)
(* installer is a process or a goroutine; it may crash at any point, which *)
(* releases its locks and leaves its files.                                *)
(***************************************************************************)
EXTENDS Naturals

CONSTANTS
    Installers,
    MaxRevision,    \* bound on the revisions published
    MaxCrashes,     \* bound on the crashes, each of which may be followed by a restart
    Nobody

ASSUME InstallAssumption ==
    /\ MaxRevision \in Nat \ {0}
    /\ MaxCrashes \in Nat
    /\ Nobody \notin Installers

VARIABLES
    stage,      \* stage[p]: where installer p is
    installed,  \* installed[p]: Browser.installedRevision
    revision,   \* revision[p]: Browser.latestRevision
    attempts,   \* attempts[p]: how often p has failed to unpack
    locked,     \* locked[r]: who has the lock of revision r
    files,      \* files[r]: what is in its directory
    zips,       \* zips[r]: the downloads there, by the installer they are of
    latest,     \* LATEST.txt; 0 when there is none or it cannot be read
    published,  \* the newest revision to be had
    spoiled,    \* history: revisions whose last unpacking was given up
    crashes

disk == <<files, zips, latest>>
installVars == <<stage, installed, revision, attempts, locked, disk, published, spoiled, crashes>>

Revisions == 1..MaxRevision

InstallRest ==
    /\ installed = [p \in Installers |-> 0]
    /\ revision = [p \in Installers |-> 0]
    /\ attempts = [p \in Installers |-> 0]
    /\ locked = [r \in Revisions |-> Nobody]
    /\ files = [r \in Revisions |-> "none"]
    /\ zips = [r \in Revisions |-> {}]
    /\ latest = 0
    /\ published = 1
    /\ spoiled = {}
    /\ crashes = 0

InstallInit == stage = [p \in Installers |-> "read"] /\ InstallRest

At(p, before, after) == stage[p] = before /\ stage' = [stage EXCEPT ![p] = after]

(* The deferred calls of an installer that has the lock. *)
Release(p) ==
    /\ locked' = [locked EXCEPT ![revision[p]] = Nobody]
    /\ zips' = [zips EXCEPT ![revision[p]] = @ \ {p}]

-----------------------------------------------------------------------------
(* DownloadAndInstall *)

ReadLatest(p) ==
    /\ At(p, "read", "resolve")
    /\ installed' = [installed EXCEPT ![p] = latest]
    /\ UNCHANGED <<revision, attempts, locked, disk, published, spoiled, crashes>>

Newer(p) ==
    /\ At(p, "resolve", "lock")
    /\ installed[p] < published
    /\ revision' = [revision EXCEPT ![p] = published]
    /\ attempts' = [attempts EXCEPT ![p] = 0]
    /\ UNCHANGED <<installed, locked, disk, published, spoiled, crashes>>

(* No upgrade is needed, or what there is cannot be learnt. *)
NotNewer(p) ==
    /\ At(p, "resolve", "choose")
    /\ UNCHANGED <<installed, revision, attempts, locked, disk, published, spoiled, crashes>>

(* Mistake: the installer goes on without the lock. *)
TakeNoLock(p) ==
    /\ At(p, "lock", "download")
    /\ locked' = [locked EXCEPT ![revision[p]] = p]
    /\ zips' = [zips EXCEPT ![revision[p]] = {p}]
    /\ UNCHANGED <<installed, revision, attempts, files, latest, published, spoiled, crashes>>

(* TryLockContext asks again after an hour, as often as it takes. *)
TakeLock(p) ==
    /\ At(p, "lock", "download")
    /\ locked[revision[p]] = Nobody
    /\ locked' = [locked EXCEPT ![revision[p]] = p]
    /\ zips' = [zips EXCEPT ![revision[p]] = {p}]
    /\ UNCHANGED <<installed, revision, attempts, files, latest, published, spoiled, crashes>>

(* Nothing says when the download ends: http.DefaultClient has no timeout, *)
(* and neither has Browser.Context unless the caller sets one.             *)
Download(p) ==
    /\ At(p, "download", "unzip")
    /\ UNCHANGED <<installed, revision, attempts, locked, disk, published, spoiled, crashes>>

(* Mistake: a failed download keeps the lock. *)
DownloadFailsLocked(p) ==
    /\ At(p, "download", "choose")
    /\ UNCHANGED <<installed, revision, attempts, locked, disk, published, spoiled, crashes>>

DownloadFails(p) ==
    /\ At(p, "download", "choose")
    /\ Release(p)
    /\ UNCHANGED <<installed, revision, attempts, files, latest, published, spoiled, crashes>>

(* Files that are there already are truncated and written anew. *)
UnzipBegins(p) ==
    /\ At(p, "unzip", "unzipping")
    /\ files' = [files EXCEPT ![revision[p]] = "partial"]
    /\ UNCHANGED <<installed, revision, attempts, locked, zips, latest, published, spoiled, crashes>>

UnzipEnds(p) ==
    /\ At(p, "unzipping", "record")
    /\ files' = [files EXCEPT ![revision[p]] = "complete"]
    /\ spoiled' = spoiled \ {revision[p]}
    /\ UNCHANGED <<installed, revision, attempts, locked, zips, latest, published, crashes>>

UnzipRetries(p) ==
    /\ At(p, "unzipping", "unzip")
    /\ attempts[p] < 2
    /\ attempts' = [attempts EXCEPT ![p] = @ + 1]
    /\ UNCHANGED <<installed, revision, locked, disk, published, spoiled, crashes>>

UnzipFails(p) ==
    /\ At(p, "unzipping", "choose")
    /\ attempts[p] = 2
    /\ Release(p)
    /\ spoiled' = spoiled \cup {revision[p]}
    /\ UNCHANGED <<installed, revision, attempts, files, latest, published, crashes>>

(* WriteFile cannot open the file; its error is only logged. *)
RecordFails(p) ==
    /\ At(p, "record", "choose")
    /\ installed' = [installed EXCEPT ![p] = revision[p]]
    /\ Release(p)
    /\ UNCHANGED <<revision, attempts, files, latest, published, spoiled, crashes>>

(* WriteFile truncates the file and then writes, or fails to.              *)
RecordBegins(p) ==
    /\ At(p, "record", "recording")
    /\ latest' = 0
    /\ UNCHANGED <<installed, revision, attempts, locked, files, zips, published, spoiled, crashes>>

RecordEnds(p) ==
    /\ At(p, "recording", "choose")
    /\ latest' \in {revision[p], latest}
    /\ installed' = [installed EXCEPT ![p] = revision[p]]
    /\ Release(p)
    /\ UNCHANGED <<revision, attempts, files, published, spoiled, crashes>>

-----------------------------------------------------------------------------
(* ChooseChromiumPath takes what LATEST.txt names if its executable is     *)
(* there, which it may be before everything else is.                       *)
Choose(p) ==
    /\ At(p, "choose", "using")
    /\ latest # 0
    /\ files[latest] # "none"
    /\ UNCHANGED <<installed, revision, attempts, locked, disk, published, spoiled, crashes>>

ChooseFails(p) ==
    /\ At(p, "choose", "failed")
    /\ latest # 0 => files[latest] # "complete"
    /\ UNCHANGED <<installed, revision, attempts, locked, disk, published, spoiled, crashes>>

-----------------------------------------------------------------------------
(* The world around *)

Publish ==
    /\ published < MaxRevision
    /\ published' = published + 1
    /\ UNCHANGED <<stage, installed, revision, attempts, locked, disk, spoiled, crashes>>

Holds(p) == stage[p] \in {"download", "unzip", "unzipping", "record", "recording"}

(* The operating system releases the lock; nobody removes the download.    *)
Crash(p) ==
    /\ stage[p] \notin {"using", "failed", "crashed"}
    /\ crashes < MaxCrashes
    /\ crashes' = crashes + 1
    /\ stage' = [stage EXCEPT ![p] = "crashed"]
    /\ locked' = [r \in Revisions |-> IF locked[r] = p THEN Nobody ELSE locked[r]]
    /\ spoiled' = spoiled \cup {r \in Revisions : locked[r] = p /\ files[r] = "partial"}
    /\ UNCHANGED <<installed, revision, attempts, disk, published>>

(* A user starts over, with a new Browser. *)
Restart(p) ==
    /\ stage[p] = "crashed"
    /\ stage' = [stage EXCEPT ![p] = "read"]
    /\ UNCHANGED <<installed, revision, attempts, locked, disk, published, spoiled, crashes>>

(* What an installer does by itself, and what the server decides.          *)
GoesOn(p) ==
    \/ ReadLatest(p) \/ Newer(p) \/ NotNewer(p) \/ TakeLock(p)
    \/ UnzipBegins(p) \/ UnzipEnds(p) \/ UnzipRetries(p) \/ UnzipFails(p)
    \/ RecordFails(p) \/ RecordBegins(p) \/ RecordEnds(p) \/ Choose(p) \/ ChooseFails(p)

DownloadEnds(p) == Download(p) \/ DownloadFails(p)

InstallNext ==
    \/ \E p \in Installers : GoesOn(p) \/ DownloadEnds(p) \/ Crash(p) \/ Restart(p)
    \/ Publish

InstallSpec == InstallInit /\ [][InstallNext]_installVars

(* Every installer goes on; the metadata comes within its timeout, and the *)
(* hourly look at a lock finds it free at last, if it does become free, as *)
(* there are finitely many others.  A download need not end.               *)
InstallFairness == \A p \in Installers : WF_installVars(GoesOn(p))

-----------------------------------------------------------------------------
InstallTypeOK ==
    /\ stage \in [Installers -> {"read", "resolve", "lock", "download", "unzip",
                    "unzipping", "record", "recording", "choose", "using", "failed", "crashed"}]
    /\ installed \in [Installers -> 0..MaxRevision]
    /\ revision \in [Installers -> 0..MaxRevision]
    /\ attempts \in [Installers -> 0..2]
    /\ locked \in [Revisions -> Installers \cup {Nobody}]
    /\ files \in [Revisions -> {"none", "partial", "complete"}]
    /\ zips \in [Revisions -> SUBSET Installers]
    /\ latest \in 0..MaxRevision
    /\ published \in Revisions
    /\ spoiled \subseteq Revisions
    /\ crashes \in 0..MaxCrashes

(* Who installs a revision has its lock, and nobody else has. *)
LockSound ==
    /\ \A r \in Revisions : \A p \in Installers :
         locked[r] = p <=> Holds(p) /\ revision[p] = r
    /\ \A p \in Installers : Holds(p) \/ stage[p] = "lock" => revision[p] \in Revisions

(* Downloads do not pile up ("Clear any leftover temporary zip files",     *)
(* browser.go:714): no revision has more than one, and that one is of an   *)
(* installer at work or one that crashed.                                  *)
OneZip ==
    \A r \in Revisions : \A p, q \in zips[r] :
        p = q /\ (locked[r] \in {p, Nobody}) /\ (locked[r] = Nobody => crashes > 0)

(* The revision that LATEST.txt names is completely installed, whoever     *)
(* crashed or failed before, unless somebody installs it once more or has  *)
(* given up doing so: an installer that waited for the lock does not look  *)
(* at LATEST.txt again, and unpacks over a browser that is in use.         *)
LatestComplete ==
    latest # 0 =>
        \/ files[latest] = "complete"
        \/ \E p \in Installers : stage[p] \in {"unzip", "unzipping"} /\ revision[p] = latest
        \/ latest \in spoiled

(* What the files of a revision look like to whoever holds its lock.       *)
FilesKnown ==
    \A p \in Installers :
        /\ stage[p] = "unzipping" => files[revision[p]] = "partial"
        /\ stage[p] \in {"record", "recording"} => files[revision[p]] = "complete"

(* The cache is safe: the lock of a revision, its download and what is     *)
(* named as the latest stay as above, whatever installers do and however   *)
(* they crash and begin again.                                             *)
CacheSafe == InstallTypeOK /\ LockSound /\ OneZip /\ LatestComplete

(* CacheSafe is inductive with what it is about: the files that an         *)
(* installer has under its lock, and that something is there of the        *)
(* revision LATEST.txt names.                                              *)
InstallInv == CacheSafe /\ FilesKnown /\ (latest # 0 => files[latest] # "none")

(* Every installer ends up with a browser or an error, whoever holds the   *)
(* locks, and crashes, unless its download never ends or it waits for the  *)
(* lock of a revision whose download never ends: a server that stalls      *)
(* keeps the installers of its revision waiting, and nobody else.          *)
InstallersEnd ==
    <>[]\A p \in Installers :
        \/ stage[p] \in {"using", "failed", "crashed", "download"}
        \/ stage[p] = "lock" /\ \E q \in Installers : stage[q] = "download" /\ revision[q] = revision[p]
=============================================================================
