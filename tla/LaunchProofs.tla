---------------------------- MODULE LaunchProofs ----------------------------
(***************************************************************************)
(* Proofs about a Webshot and its launchers, for any number of goroutines  *)
(* and launches, and about the cache of browsers, for any number of        *)
(* installers, revisions and crashes.                                      *)
(***************************************************************************)
EXTENDS Webshot, Install, TLAPS

-----------------------------------------------------------------------------
(* The launchers *)

LauncherRecord ==
    [follows : BOOLEAN,
     call : {"new", "started", "select", "ask", "gotURL", "failed", "returned"},
     outcome : {"none", "url", "error", "nosandbox"}, resolved : BOOLEAN,
     process : {"none", "up", "dead"}, pid : BOOLEAN, done : BOOLEAN, exit : BOOLEAN,
     exitErr : BOOLEAN, copier : {"idle", "send"}, parsed : BOOLEAN, warned : BOOLEAN,
     cleanup : {"idle", "look", "wait", "remove", "returned"}, dir : BOOLEAN]

(* What a launcher of a Webshot goes through: a Launch that failed before  *)
(* it had resolved the URL has killed what it started, and Cleanup, which  *)
(* comes after a Launch that has resolved it, leaves no process.           *)
Goes(s) ==
    /\ s.outcome # "none" <=> s.call = "returned"
    /\ s.pid => s.process # "none"
    /\ s.exit => s.pid /\ s.process = "dead" /\ s.done
    /\ s.call = "new" => ~s.pid /\ s.process = "none"
    /\ s.call = "started" => s.process # "none"
    /\ s.call \in {"select", "ask", "gotURL", "failed"} => s.pid
    /\ s.resolved => s.pid /\ s.call = "returned" /\ s.outcome # "nosandbox"
    /\ s.call = "returned" /\ ~s.resolved => s.process # "up" /\ s.outcome # "url"
    /\ s.copier = "send" => s.process # "none"
    /\ s.cleanup # "idle" => s.pid
    /\ s.cleanup \in {"remove", "returned"} => s.process = "dead"

LaunchersGo ==
    /\ launcher \in [Launchers -> LauncherRecord]
    /\ \A l \in Launchers : Goes(launcher[l])

(* Only what Connect has used is not as it was. *)
Untouched == \A l \in Launchers : l \notin 1..used => launcher[l] = Fresh(TRUE)

-----------------------------------------------------------------------------
(* The Webshot *)

Roles ==
    \A u \in Users :
        /\ pc[u] \in {"connect", "launch", "page", "shoot", "panicked"} => u \in Shots
        /\ pc[u] \in {"cleanup", "cleaning"} => u \in Cleaners

(* The Webshot's browser is that of the last launcher. *)
Current ==
    /\ used \in 0..MaxLaunch /\ dir \in Nat /\ gaveUp \in BOOLEAN
    /\ browser # None => browser = used /\ used # 0 /\ launcher[used].resolved
    /\ \A u \in Users :
         /\ pc[u] \in {"connect", "launch"} => browser = None
         /\ pc[u] = "launch" => used # 0
         /\ pc[u] = "cleaning" => browser # None

NoneUp == \A l \in 1..used : ~IsUp(l)

(* No browser is up when one is about to be started, or the last one has   *)
(* been cleaned up; there is at most the directory of the last Init.       *)
Tidy ==
    /\ \A l \in 1..used : IsUp(l) => l = browser \/ (lock # None /\ l = used)
    /\ lock = None /\ browser = None => dirs = {}
    /\ dirs \subseteq {dir}
    /\ \A u \in Users :
         pc[u] = "connect" \/ (pc[u] = "cleanup" /\ browser = None) => NoneUp

Tabs ==
    \A u \in Users :
        /\ pc[u] \notin {"shoot", "finished"} => tab[u] = None
        /\ pc[u] = "finished" /\ tab[u] # None => u \in expired

Cleaned == \E c \in Cleaners : pc[c] = "finished" \/ lock = c

(* Only a cleaner takes the browser from a screenshot. *)
Panics ==
    \A u \in Users :
        /\ pc[u] = "page" => browser # None \/ Cleaned
        /\ pc[u] = "panicked" => Cleaned

(* The inductive invariant of the Webshot. *)
WebshotInv ==
    /\ LaunchersGo /\ Untouched
    /\ TypeOK /\ Roles /\ Current /\ Tabs /\ Panics
    /\ ~gaveUp => Tidy

USE WebshotAssumption

LEMMA LaunchTypes == LaunchersGo => TypeOKLaunch
  BY DEF LaunchersGo, Goes, TypeOKLaunch, LauncherRecord

(* A launcher that something happens to has been started, and is not       *)
(* brought back to life.                                                   *)
OneGoes(l) ==
    /\ LaunchersGo'
    /\ \A m \in Launchers : m # l => launcher'[m] = launcher[m]
    /\ launcher[l].process # "none"
    /\ IsUp(l)' => IsUp(l)
    /\ launcher[l].resolved => launcher'[l].resolved

LEMMA OneChanges ==
    ASSUME LaunchersGo, NEW l \in Launchers, NEW s \in LauncherRecord, Goes(s),
           launcher' = [launcher EXCEPT ![l] = s],
           launcher[l].process # "none", s.process = "up" => launcher[l].process = "up",
           launcher[l].resolved => s.resolved
    PROVE  OneGoes(l)
<1>1. /\ launcher' \in [Launchers -> LauncherRecord] /\ launcher'[l] = s
      /\ \A m \in Launchers : m # l => launcher'[m] = launcher[m]
  BY DEF LaunchersGo
<1>2. \A m \in Launchers : Goes(launcher'[m])
  BY <1>1 DEF LaunchersGo
<1> QED
  BY <1>1, <1>2 DEF OneGoes, LaunchersGo, IsUp

LEMMA LaunchGoes ==
    ASSUME LaunchersGo, NEW l \in Launchers, Launch(l)
    PROVE  OneGoes(l)
<1> DEFINE s == launcher[l]
<1>1. s \in LauncherRecord /\ Goes(s)
  BY DEF LaunchersGo
<1>2. CASE RecordPid(l)
  <2> DEFINE t == [s EXCEPT !.call = "select", !.pid = TRUE]
  <2>1. /\ t \in LauncherRecord /\ Goes(t) /\ (s.resolved => t.resolved)
        /\ s.process # "none" /\ (t.process = "up" => s.process = "up")
    BY <1>1, <1>2 DEF RecordPid, LauncherRecord, Goes
  <2>2. launcher' = [launcher EXCEPT ![l] = t]
    BY <1>1, <1>2 DEF RecordPid, Goes
  <2> QED
    BY <2>1, <2>2, OneChanges
<1>3. CASE SelectURL(l)
  <2> DEFINE t == [s EXCEPT !.call = "gotURL", !.copier = "idle", !.parsed = TRUE]
  <2>1. /\ t \in LauncherRecord /\ Goes(t) /\ (s.resolved => t.resolved)
        /\ s.process # "none" /\ (t.process = "up" => s.process = "up")
    BY <1>1, <1>3 DEF SelectURL, LauncherRecord, Goes
  <2>2. launcher' = [launcher EXCEPT ![l] = t]
    BY <1>1, <1>3 DEF SelectURL, Goes
  <2> QED
    BY <2>1, <2>2, OneChanges
<1>4. CASE SelectContext(l)
  <2> DEFINE t == [s EXCEPT !.call = "ask"]
  <2>1. /\ t \in LauncherRecord /\ Goes(t) /\ (s.resolved => t.resolved)
        /\ s.process # "none" /\ (t.process = "up" => s.process = "up")
    BY <1>1, <1>4 DEF SelectContext, LauncherRecord, Goes
  <2>2. launcher' = [launcher EXCEPT ![l] = t]
    BY <1>1, <1>4 DEF SelectContext, Goes
  <2> QED
    BY <2>1, <2>2, OneChanges
<1>5. CASE SelectExitErr(l)
  <2> DEFINE t == [s EXCEPT !.call = "failed", !.exitErr = FALSE]
  <2>1. /\ t \in LauncherRecord /\ Goes(t) /\ (s.resolved => t.resolved)
        /\ s.process # "none" /\ (t.process = "up" => s.process = "up")
    BY <1>1, <1>5 DEF SelectExitErr, LauncherRecord, Goes
  <2>2. launcher' = [launcher EXCEPT ![l] = t]
    BY <1>1, <1>5 DEF SelectExitErr, Goes
  <2> QED
    BY <2>1, <2>2, OneChanges
<1>6. CASE SelectExit(l)
  <2> DEFINE t == [s EXCEPT !.call = "ask"]
  <2>1. /\ t \in LauncherRecord /\ Goes(t) /\ (s.resolved => t.resolved)
        /\ s.process # "none" /\ (t.process = "up" => s.process = "up")
    BY <1>1, <1>6 DEF SelectExit, LauncherRecord, Goes
  <2>2. launcher' = [launcher EXCEPT ![l] = t]
    BY <1>1, <1>6 DEF SelectExit, Goes
  <2> QED
    BY <2>1, <2>2, OneChanges
<1>7. CASE SelectTimeout(l)
  <2> DEFINE t == [s EXCEPT !.call = "ask", !.done = TRUE]
  <2>1. /\ t \in LauncherRecord /\ Goes(t) /\ (s.resolved => t.resolved)
        /\ s.process # "none" /\ (t.process = "up" => s.process = "up")
    BY <1>1, <1>7 DEF SelectTimeout, LauncherRecord, Goes
  <2>2. launcher' = [launcher EXCEPT ![l] = t]
    BY <1>1, <1>7 DEF SelectTimeout, Goes
  <2> QED
    BY <2>1, <2>2, OneChanges
<1>8. CASE AskParser(l)
  <2> DEFINE t == [s EXCEPT !.call = "failed"]
  <2>1. /\ t \in LauncherRecord /\ Goes(t) /\ (s.resolved => t.resolved)
        /\ s.process # "none" /\ (t.process = "up" => s.process = "up")
    BY <1>1, <1>8 DEF AskParser, LauncherRecord, Goes
  <2>2. launcher' = [launcher EXCEPT ![l] = t]
    BY <1>1, <1>8 DEF AskParser, Goes
  <2> QED
    BY <2>1, <2>2, OneChanges
<1>9. CASE Fail(l)
  <2> DEFINE t == [s EXCEPT !.call = "returned", !.process = "dead", !.done = TRUE,
                         !.outcome = IF s.warned THEN "nosandbox" ELSE "error"]
  <2>1. /\ t \in LauncherRecord /\ Goes(t) /\ (s.resolved => t.resolved)
        /\ s.process # "none" /\ (t.process = "up" => s.process = "up")
    BY <1>1, <1>9 DEF Fail, LauncherRecord, Goes
  <2>2. launcher' = [launcher EXCEPT ![l] = t]
    BY <1>1, <1>9 DEF Fail, Goes
  <2> QED
    BY <2>1, <2>2, OneChanges
<1>10. CASE Resolve(l)
  <2>0. PICK o \in {"error", "url"} :
          launcher' = [launcher EXCEPT ![l].call = "returned", ![l].outcome = o,
                                       ![l].resolved = TRUE]
    BY <1>1, <1>10 DEF Resolve
  <2> DEFINE t == [s EXCEPT !.call = "returned", !.outcome = o, !.resolved = TRUE]
  <2>1. /\ t \in LauncherRecord /\ Goes(t) /\ (s.resolved => t.resolved)
        /\ s.process # "none" /\ (t.process = "up" => s.process = "up")
    BY <1>1, <1>10, <2>0 DEF Resolve, LauncherRecord, Goes
  <2>2. launcher' = [launcher EXCEPT ![l] = t]
    BY <1>1, <1>10, <2>0 DEF Resolve, Goes
  <2> QED
    BY <2>1, <2>2, OneChanges
<1> QED
  BY <1>2, <1>3, <1>4, <1>5, <1>6, <1>7, <1>8, <1>9, <1>10 DEF Launch

LEMMA LauncherGoes ==
    ASSUME LaunchersGo, NEW l \in Launchers, Works(l) \/ Happens(l)
    PROVE  OneGoes(l)
<1> DEFINE s == launcher[l]
<1>1. s \in LauncherRecord /\ Goes(s)
  BY DEF LaunchersGo
<1>2. CASE CleanupLook(l)
  <2> DEFINE t == [s EXCEPT !.cleanup = "wait"]
  <2>1. /\ t \in LauncherRecord /\ Goes(t) /\ t.resolved = s.resolved
        /\ s.process # "none" /\ (t.process = "up" => s.process = "up")
    BY <1>1, <1>2 DEF CleanupLook, LauncherRecord, Goes
  <2>2. launcher' = [launcher EXCEPT ![l] = t]
    BY <1>1, <1>2 DEF CleanupLook, Goes
  <2> QED
    BY <2>1, <2>2, OneChanges
<1>3. CASE CleanupWait(l)
  <2> DEFINE t == [s EXCEPT !.cleanup = "remove", !.process = "dead"]
  <2>1. /\ t \in LauncherRecord /\ Goes(t) /\ t.resolved = s.resolved
        /\ s.process # "none" /\ (t.process = "up" => s.process = "up")
    BY <1>1, <1>3 DEF CleanupWait, LauncherRecord, Goes
  <2>2. launcher' = [launcher EXCEPT ![l] = t]
    BY <1>1, <1>3 DEF CleanupWait, Goes
  <2> QED
    BY <2>1, <2>2, OneChanges
<1>4. CASE CleanupRemove(l)
  <2> DEFINE t == [s EXCEPT !.cleanup = "returned", !.dir = FALSE]
  <2>1. /\ t \in LauncherRecord /\ Goes(t) /\ t.resolved = s.resolved
        /\ s.process # "none" /\ (t.process = "up" => s.process = "up")
    BY ZenonT(60), <1>1, <1>4 DEF CleanupRemove, LauncherRecord, Goes, IsUp
  <2>2. launcher' = [launcher EXCEPT ![l] = t]
    BY <1>1, <1>4 DEF CleanupRemove, Goes, IsUp
  <2> QED
    BY <2>1, <2>2, OneChanges
<1>5. CASE GiveUpURL(l)
  <2> DEFINE t == [s EXCEPT !.copier = "idle", !.parsed = TRUE]
  <2>1. /\ t \in LauncherRecord /\ Goes(t) /\ t.resolved = s.resolved
        /\ s.process # "none" /\ (t.process = "up" => s.process = "up")
    BY ZenonT(60), <1>1, <1>5 DEF GiveUpURL, LauncherRecord, Goes
  <2>2. launcher' = [launcher EXCEPT ![l] = t]
    BY <1>1, <1>5 DEF GiveUpURL, Goes
  <2> QED
    BY <2>1, <2>2, OneChanges
<1>6. CASE Dies(l)
  <2> DEFINE t == [s EXCEPT !.process = "dead"]
  <2>1. /\ t \in LauncherRecord /\ Goes(t) /\ t.resolved = s.resolved
        /\ s.process # "none" /\ (t.process = "up" => s.process = "up")
    BY <1>1, <1>6 DEF Dies, LauncherRecord, Goes, IsUp
  <2>2. launcher' = [launcher EXCEPT ![l] = t]
    BY <1>1, <1>6 DEF Dies, Goes, IsUp
  <2> QED
    BY <2>1, <2>2, OneChanges
<1>7. CASE Waited(l)
  <2>0. PICK failed \in BOOLEAN :
          launcher' = [launcher EXCEPT ![l].exitErr = failed, ![l].done = TRUE,
                                       ![l].exit = TRUE]
    BY <1>1, <1>7 DEF Waited
  <2> DEFINE t == [s EXCEPT !.exitErr = failed, !.done = TRUE, !.exit = TRUE]
  <2>1. /\ t \in LauncherRecord /\ Goes(t) /\ t.resolved = s.resolved
        /\ s.process # "none" /\ (t.process = "up" => s.process = "up")
    BY ZenonT(30), <1>1, <1>7, <2>0 DEF Waited, LauncherRecord, Goes
  <2>2. launcher' = [launcher EXCEPT ![l] = t]
    BY <1>1, <1>7, <2>0 DEF Waited, Goes
  <2> QED
    BY <2>1, <2>2, OneChanges
<1>8. CASE Warns(l)
  <2> DEFINE t == [s EXCEPT !.warned = TRUE]
  <2>1. /\ t \in LauncherRecord /\ Goes(t) /\ t.resolved = s.resolved
        /\ s.process # "none" /\ (t.process = "up" => s.process = "up")
    BY <1>1, <1>8 DEF Warns, LauncherRecord, Goes, IsUp
  <2>2. launcher' = [launcher EXCEPT ![l] = t]
    BY <1>1, <1>8 DEF Warns, Goes, IsUp
  <2> QED
    BY <2>1, <2>2, OneChanges
<1>9. CASE PrintsURL(l)
  <2> DEFINE t == [s EXCEPT !.copier = "send"]
  <2>1. /\ t \in LauncherRecord /\ Goes(t) /\ t.resolved = s.resolved
        /\ s.process # "none" /\ (t.process = "up" => s.process = "up")
    BY <1>1, <1>9 DEF PrintsURL, LauncherRecord, Goes, IsUp
  <2>2. launcher' = [launcher EXCEPT ![l] = t]
    BY <1>1, <1>9 DEF PrintsURL, Goes, IsUp
  <2> QED
    BY <2>1, <2>2, OneChanges
<1> QED
  BY LaunchGoes, <1>2, <1>3, <1>4, <1>5, <1>6, <1>7, <1>8, <1>9
  DEF Works, Happens, Cleanup, KilledByContext

(* A goroutine moves on: the others stay where they are. *)
Places == {"idle", "connect", "launch", "page", "shoot", "cleanup", "cleaning", "finished",
           "panicked"}

Holding == {"connect", "launch", "cleanup", "cleaning"}

LEMMA Moved ==
    ASSUME TypeOK, NEW u \in Users, NEW place \in Places, Goto(u, place)
    PROVE  /\ pc' \in [Users -> Places] /\ pc'[u] = place
           /\ \A v \in Users : v # u => pc'[v] = pc[v]
  BY DEF TypeOK, Goto, Places

LEMMA TypesNext == LaunchersGo' => TypeOKLaunch'
  BY LaunchTypes, PTL

(* A cleaner that is done stays done, and one in Cleanup stays or is done. *)
LEMMA CleanedStays ==
    ASSUME Cleaned, NEW u \in Users, pc[u] # "finished",
           \A v \in Users : v # u => pc'[v] = pc[v],
           \A c \in Cleaners : lock = c => lock' = c \/ pc'[c] = "finished"
    PROVE  Cleaned'
  BY DEF Cleaned, Users

(* Without a browser and without the lock no browser is up. *)
LEMMA FreeIsDown ==
    ASSUME WebshotInv, ~gaveUp, lock = None, browser = None
    PROVE  NoneUp
<1>1. \A l \in 1..used : l \in Launchers /\ l # None
  BY DEF WebshotInv, Current
<1> QED
  BY <1>1 DEF WebshotInv, Tidy, NoneUp

LEMMA DirDeleted ==
    ASSUME DeleteProfileDir
    PROVE  dirs' \subseteq dirs /\ (NoneUp => dirs' = dirs \ {dir})
<1>1. PICK left \in IF \E l \in 1..used : IsUp(l) THEN BOOLEAN ELSE {FALSE} :
        dirs' = IF left THEN dirs ELSE dirs \ {dir}
  BY DEF DeleteProfileDir
<1> QED
  BY <1>1 DEF NoneUp

LEMMA EnterShotKeeps ==
    ASSUME WebshotInv, NEW u \in Users, EnterShot(u)
    PROVE  WebshotInv'
<1> USE DEF WebshotInv
<1>1. /\ pc[u] = "idle" /\ u \in Shots /\ lock = None /\ browser # None
      /\ Goto(u, "page")
      /\ UNCHANGED <<launcher, lock, browser, used, retried, dir, dirs, gaveUp, tab, expired>>
  BY DEF EnterShot, shared
<1>2. /\ pc' \in [Users -> Places] /\ pc'[u] = "page"
      /\ \A v \in Users : v # u => pc'[v] = pc[v]
  BY <1>1, Moved DEF Places
<1>3. LaunchersGo' /\ Untouched'
  BY <1>1 DEF LaunchersGo, Untouched
<1>4. TypeOK'
  <2>1. TypeOKLaunch'
    BY <1>3, TypesNext
  <2>2. lock' \in Users \cup {None} /\ \A v \in Users : pc'[v] \in Holding <=> lock' = v
    BY <1>1, <1>2 DEF TypeOK, Holding
  <2>3. dirs' \subseteq 1..dir'
    BY <1>1 DEF TypeOK
  <2>4. tab' \in [Users -> Launchers \cup {None}] /\ expired' \subseteq Shots
    BY <1>1 DEF TypeOK
  <2>5. browser' \in Launchers \cup {None}
    BY <1>1 DEF TypeOK
  <2> QED
    BY <1>2, <2>1, <2>2, <2>3, <2>4, <2>5 DEF TypeOK, Places, Holding
<1>5. Roles'
  BY <1>1, <1>2 DEF Roles
<1>6. Current'
  BY <1>1, <1>2 DEF Current
<1>7. Tabs'
  BY <1>1, <1>2 DEF Tabs
<1>8. Panics'
  <2>1. Cleaned => Cleaned'
    BY <1>1, <1>2, CleanedStays DEF Users, TypeOK
  <2> QED
    BY <1>1, <1>2, <2>1 DEF Panics
<1>9. ~gaveUp' => Tidy'
  BY <1>1, <1>2 DEF Tidy, NoneUp, IsUp
<1> QED
  BY <1>3, <1>4, <1>5, <1>6, <1>7, <1>8, <1>9

LEMMA EnterInitKeeps ==
    ASSUME WebshotInv, NEW u \in Users, EnterInit(u)
    PROVE  WebshotInv'
<1> USE DEF WebshotInv
<1>1. /\ pc[u] = "idle" /\ u \in Shots /\ lock = None /\ browser = None
      /\ lock' = u /\ dir' = dir + 1 /\ dirs' = dirs \cup {dir'} /\ dir \in Nat
      /\ Goto(u, "connect")
      /\ UNCHANGED <<launcher, browser, used, gaveUp, tab, expired>>
  BY DEF EnterInit, Current
<1>2. /\ pc' \in [Users -> Places] /\ pc'[u] = "connect"
      /\ \A v \in Users : v # u => pc'[v] = pc[v]
  BY <1>1, Moved DEF Places
<1>3. LaunchersGo' /\ Untouched'
  BY <1>1 DEF LaunchersGo, Untouched
<1>4. TypeOK'
  <2>1. TypeOKLaunch'
    BY <1>3, TypesNext
  <2>2. lock' \in Users \cup {None} /\ \A v \in Users : pc'[v] \in Holding <=> lock' = v
    BY <1>1, <1>2 DEF TypeOK, Holding
  <2>3. dirs' \subseteq 1..dir'
    BY <1>1 DEF TypeOK
  <2>4. tab' \in [Users -> Launchers \cup {None}] /\ expired' \subseteq Shots
    BY <1>1 DEF TypeOK
  <2>5. browser' \in Launchers \cup {None}
    BY <1>1 DEF TypeOK
  <2> QED
    BY <1>2, <2>1, <2>2, <2>3, <2>4, <2>5 DEF TypeOK, Places, Holding
<1>5. Roles'
  BY <1>1, <1>2 DEF Roles
<1>6. Current'
  BY <1>1, <1>2 DEF Current
<1>7. Tabs'
  BY <1>1, <1>2 DEF Tabs
<1>8. Panics'
  <2>1. Cleaned => Cleaned'
    BY <1>1, <1>2, CleanedStays DEF Users, TypeOK
  <2> QED
    BY <1>1, <1>2, <2>1 DEF Panics
<1>9. ~gaveUp' => Tidy'
  <2> SUFFICES ASSUME ~gaveUp PROVE Tidy'
    BY <1>1
  <2>1. NoneUp
    BY <1>1, FreeIsDown
  <2>2. NoneUp' /\ dirs' = {dir'}
    BY <1>1, <2>1 DEF Tidy, NoneUp, IsUp
  <2> QED
    BY <1>1, <2>2 DEF Tidy, NoneUp
<1> QED
  BY <1>3, <1>4, <1>5, <1>6, <1>7, <1>8, <1>9

LEMMA EnterFailsKeeps ==
    ASSUME WebshotInv, NEW u \in Users, EnterFails(u)
    PROVE  WebshotInv'
<1> USE DEF WebshotInv
<1>1. /\ pc[u] = "idle" /\ u \in Shots /\ lock = None /\ browser = None
      /\ Goto(u, "finished")
      /\ UNCHANGED <<launcher, lock, browser, used, retried, tab, expired>>
      /\ dir \in Nat
      /\ \/ dir' = dir + 1 /\ dirs' = dirs \cup {dir'} /\ gaveUp' = TRUE
         \/ UNCHANGED <<dir, dirs>> /\ gaveUp' = gaveUp
  BY DEF EnterFails, Current
<1>2. /\ pc' \in [Users -> Places] /\ pc'[u] = "finished"
      /\ \A v \in Users : v # u => pc'[v] = pc[v]
  BY <1>1, Moved DEF Places
<1>3. LaunchersGo' /\ Untouched'
  BY <1>1 DEF LaunchersGo, Untouched
<1>4. TypeOK'
  <2>1. TypeOKLaunch'
    BY <1>3, TypesNext
  <2>2. lock' \in Users \cup {None} /\ \A v \in Users : pc'[v] \in Holding <=> lock' = v
    BY <1>1, <1>2 DEF TypeOK, Holding
  <2>3. dirs' \subseteq 1..dir'
    <3>1. CASE UNCHANGED <<dir, dirs>>
      BY <3>1 DEF TypeOK
    <3>2. CASE dir' = dir + 1 /\ dirs' = dirs \cup {dir'}
      <4>1. 1..dir \subseteq 1..(dir + 1) /\ dir + 1 \in 1..(dir + 1)
        BY <1>1
      <4> QED
        BY <3>2, <4>1 DEF TypeOK
    <3> QED
      BY <1>1, <3>1, <3>2
  <2>4. tab' \in [Users -> Launchers \cup {None}] /\ expired' \subseteq Shots
    BY <1>1 DEF TypeOK
  <2>5. browser' \in Launchers \cup {None}
    BY <1>1 DEF TypeOK
  <2> QED
    BY <1>2, <2>1, <2>2, <2>3, <2>4, <2>5 DEF TypeOK, Places, Holding
<1>5. Roles'
  BY <1>1, <1>2 DEF Roles
<1>6. Current'
  <2>0. gaveUp \in BOOLEAN
    BY DEF Current
  <2>a. dir' \in Nat
    BY <1>1
  <2>b. gaveUp' = TRUE \/ gaveUp' = gaveUp
    BY <1>1
  <2>1. gaveUp' \in BOOLEAN /\ dir' \in Nat
    BY <2>0, <2>a, <2>b
  <2> QED
    BY <1>1, <1>2, <2>1 DEF Current
<1>7. Tabs'
  BY <1>1, <1>2 DEF Tabs
<1>8. Panics'
  <2>1. Cleaned => Cleaned'
    BY <1>1, <1>2, CleanedStays DEF Users, TypeOK
  <2> QED
    BY <1>1, <1>2, <2>1 DEF Panics
<1>9. ~gaveUp' => Tidy'
  BY <1>1, <1>2 DEF Tidy, NoneUp, IsUp
<1> QED
  BY <1>3, <1>4, <1>5, <1>6, <1>7, <1>8, <1>9

LEMMA EnterCleanupKeeps ==
    ASSUME WebshotInv, NEW u \in Users, EnterCleanup(u)
    PROVE  WebshotInv'
<1> USE DEF WebshotInv
<1>1. /\ pc[u] = "idle" /\ u \in Cleaners /\ lock = None /\ lock' = u
      /\ Goto(u, "cleanup")
      /\ UNCHANGED <<launcher, browser, used, retried, dir, dirs, gaveUp, tab, expired>>
  BY DEF EnterCleanup
<1>2. /\ pc' \in [Users -> Places] /\ pc'[u] = "cleanup"
      /\ \A v \in Users : v # u => pc'[v] = pc[v]
  BY <1>1, Moved DEF Places
<1>3. LaunchersGo' /\ Untouched'
  BY <1>1 DEF LaunchersGo, Untouched
<1>4. TypeOK'
  <2>1. TypeOKLaunch'
    BY <1>3, TypesNext
  <2>2. lock' \in Users \cup {None} /\ \A v \in Users : pc'[v] \in Holding <=> lock' = v
    BY <1>1, <1>2 DEF TypeOK, Holding
  <2>3. dirs' \subseteq 1..dir'
    BY <1>1 DEF TypeOK
  <2>4. tab' \in [Users -> Launchers \cup {None}] /\ expired' \subseteq Shots
    BY <1>1 DEF TypeOK
  <2>5. browser' \in Launchers \cup {None}
    BY <1>1 DEF TypeOK
  <2> QED
    BY <1>2, <2>1, <2>2, <2>3, <2>4, <2>5 DEF TypeOK, Places, Holding
<1>5. Roles'
  BY <1>1, <1>2 DEF Roles
<1>6. Current'
  BY <1>1, <1>2 DEF Current
<1>7. Tabs'
  BY <1>1, <1>2 DEF Tabs
<1>8. Panics'
  <2>1. Cleaned => Cleaned'
    BY <1>1, <1>2, CleanedStays DEF Users, TypeOK
  <2> QED
    BY <1>1, <1>2, <2>1 DEF Panics
<1>9. ~gaveUp' => Tidy'
  <2> SUFFICES ASSUME ~gaveUp PROVE Tidy'
    BY <1>1
  <2>1. browser = None => NoneUp
    BY <1>1, FreeIsDown
  <2> QED
    BY <1>1, <1>2, <2>1 DEF Tidy, NoneUp, IsUp
<1> QED
  BY <1>3, <1>4, <1>5, <1>6, <1>7, <1>8, <1>9

LEMMA ConnectKeeps ==
    ASSUME WebshotInv, NEW u \in Users, Connect(u)
    PROVE  WebshotInv'
<1> USE DEF WebshotInv
<1>1. /\ pc[u] = "connect" /\ used < MaxLaunch /\ used' = used + 1
      /\ Start(used') \/ (LaunchEarly(used') /\ launcher'[used'].outcome = "error")
      /\ Goto(u, "launch")
      /\ UNCHANGED <<lock, browser, retried, dir, dirs, gaveUp, tab, expired>>
      /\ used \in Nat /\ used' \in 1..MaxLaunch /\ used' \in Launchers /\ used' \notin 1..used
      /\ browser = None /\ lock = u
  BY DEF Connect, Current, TypeOK
<1>2. /\ pc' \in [Users -> Places] /\ pc'[u] = "launch"
      /\ \A v \in Users : v # u => pc'[v] = pc[v]
  BY <1>1, Moved DEF Places
<1>a. launcher[used'] = Fresh(TRUE)
  BY <1>1 DEF Untouched
<1>b. PICK s \in LauncherRecord :
        Goes(s) /\ ~s.resolved /\ launcher' = [launcher EXCEPT ![used'] = s]
  <2> DEFINE f == Fresh(TRUE)
  <2>1. f \in LauncherRecord /\ Goes(f) /\ ~f.resolved
    BY DEF Fresh, LauncherRecord, Goes
  <2>2. CASE Start(used')
    <3> DEFINE s == [f EXCEPT !.call = "started", !.process = "up"]
    <3>1. s \in LauncherRecord /\ Goes(s) /\ ~s.resolved
      BY DEF Fresh, LauncherRecord, Goes
    <3>2. launcher' = [launcher EXCEPT ![used'] = s]
      BY <1>a, <2>2 DEF Start
    <3> QED
      BY <3>1, <3>2
  <2>3. CASE LaunchEarly(used') /\ launcher'[used'].outcome = "error"
    <3> DEFINE s == [f EXCEPT !.call = "returned", !.outcome = "error"]
    <3>1. s \in LauncherRecord /\ Goes(s) /\ ~s.resolved
      BY DEF Fresh, LauncherRecord, Goes
    <3>2. PICK o \in {"url", "error"} :
            launcher' = [launcher EXCEPT ![used'].call = "returned", ![used'].outcome = o]
      BY <2>3 DEF LaunchEarly
    <3>3. o = "error"
      BY <1>1, <1>a, <2>3, <3>2 DEF LaunchersGo, Fresh
    <3>4. launcher' = [launcher EXCEPT ![used'] = s]
      BY <1>a, <3>2, <3>3
    <3> QED
      BY <3>1, <3>4
  <2> QED
    BY <1>1, <2>2, <2>3
<1>c. /\ launcher' \in [Launchers -> LauncherRecord] /\ launcher'[used'] = s
      /\ \A l \in Launchers : l # used' => launcher'[l] = launcher[l]
  BY <1>1, <1>b DEF LaunchersGo
<1>3. LaunchersGo' /\ Untouched'
  <2>1. \A l \in Launchers : Goes(launcher'[l])
    BY <1>b, <1>c DEF LaunchersGo
  <2>2. \A l \in Launchers : l \notin 1..used' => l \notin 1..used /\ l # used'
    BY <1>1
  <2> QED
    BY <1>c, <2>1, <2>2 DEF LaunchersGo, Untouched
<1>4. TypeOK'
  <2>1. TypeOKLaunch'
    BY <1>3, TypesNext
  <2>2. lock' \in Users \cup {None} /\ \A v \in Users : pc'[v] \in Holding <=> lock' = v
    BY <1>1, <1>2 DEF TypeOK, Holding
  <2>3. dirs' \subseteq 1..dir'
    BY <1>1 DEF TypeOK
  <2>4. tab' \in [Users -> Launchers \cup {None}] /\ expired' \subseteq Shots
    BY <1>1 DEF TypeOK
  <2>5. browser' \in Launchers \cup {None}
    BY <1>1 DEF TypeOK
  <2> QED
    BY <1>2, <2>1, <2>2, <2>3, <2>4, <2>5 DEF TypeOK, Places, Holding
<1>5. Roles'
  BY <1>1, <1>2 DEF Roles
<1>6. Current'
  BY <1>1, <1>2 DEF Current
<1>7. Tabs'
  BY <1>1, <1>2 DEF Tabs
<1>8. Panics'
  <2>1. Cleaned => Cleaned'
    BY <1>1, <1>2, CleanedStays DEF Users, TypeOK
  <2> QED
    BY <1>1, <1>2, <2>1 DEF Panics
<1>9. ~gaveUp' => Tidy'
  <2> SUFFICES ASSUME ~gaveUp PROVE Tidy'
    BY <1>1
  <2>1. NoneUp
    BY <1>1 DEF Tidy
  <2>2. \A l \in 1..used' : l \in Launchers
    BY <1>1
  <2>3. \A l \in 1..used' : IsUp(l)' => l = used'
    BY <1>1, <1>c, <2>1, <2>2 DEF NoneUp, IsUp
  <2>4. lock # None
    BY <1>1
  <2>5. \A v \in Users : pc'[v] # "connect" /\ pc'[v] # "cleanup"
    BY <1>1, <1>2 DEF TypeOK
  <2> QED
    BY <1>1, <2>3, <2>4, <2>5 DEF Tidy
<1> QED
  BY <1>3, <1>4, <1>5, <1>6, <1>7, <1>8, <1>9

LEMMA ConnectFailsKeeps ==
    ASSUME WebshotInv, NEW u \in Users, ConnectFails(u)
    PROVE  WebshotInv'
<1> USE DEF WebshotInv
<1>1. /\ pc[u] = "connect" /\ DeleteProfileDir /\ lock' = None
      /\ Goto(u, "finished")
      /\ UNCHANGED <<launcher, browser, used, retried, dir, gaveUp, tab, expired>>
      /\ browser = None /\ lock = u /\ u \in Shots
      /\ dirs' \subseteq dirs /\ (NoneUp => dirs' = dirs \ {dir})
  BY DirDeleted DEF ConnectFails, Current, TypeOK, Roles
<1>2. /\ pc' \in [Users -> Places] /\ pc'[u] = "finished"
      /\ \A v \in Users : v # u => pc'[v] = pc[v]
  BY <1>1, Moved DEF Places
<1>3. LaunchersGo' /\ Untouched'
  BY <1>1 DEF LaunchersGo, Untouched
<1>4. TypeOK'
  <2>1. TypeOKLaunch'
    BY <1>3, TypesNext
  <2>2. lock' \in Users \cup {None} /\ \A v \in Users : pc'[v] \in Holding <=> lock' = v
    BY <1>1, <1>2 DEF TypeOK, Holding
  <2>3. dirs' \subseteq 1..dir'
    BY <1>1 DEF TypeOK
  <2>4. tab' \in [Users -> Launchers \cup {None}] /\ expired' \subseteq Shots
    BY <1>1 DEF TypeOK
  <2>5. browser' \in Launchers \cup {None}
    BY <1>1 DEF TypeOK
  <2> QED
    BY <1>2, <2>1, <2>2, <2>3, <2>4, <2>5 DEF TypeOK, Places, Holding
<1>5. Roles'
  BY <1>1, <1>2 DEF Roles
<1>6. Current'
  BY <1>1, <1>2 DEF Current
<1>7. Tabs'
  BY <1>1, <1>2 DEF Tabs
<1>8. Panics'
  <2>1. Cleaned => Cleaned'
    BY <1>1, <1>2, CleanedStays DEF Users, TypeOK
  <2> QED
    BY <1>1, <1>2, <2>1 DEF Panics
<1>9. ~gaveUp' => Tidy'
  <2> SUFFICES ASSUME ~gaveUp PROVE Tidy'
    BY <1>1
  <2>1. NoneUp /\ dirs' = {}
    BY <1>1 DEF Tidy
  <2>2. NoneUp'
    BY <1>1, <2>1 DEF NoneUp, IsUp
  <2> QED
    BY <1>1, <2>1, <2>2 DEF Tidy, NoneUp
<1> QED
  BY <1>3, <1>4, <1>5, <1>6, <1>7, <1>8, <1>9

LEMMA TryAgainKeeps ==
    ASSUME WebshotInv, NEW u \in Users, TryAgain(u)
    PROVE  WebshotInv'
<1> USE DEF WebshotInv
<1>1. /\ pc[u] = "launch" /\ launcher[used].call = "returned"
      /\ launcher[used].outcome = "nosandbox" /\ Goto(u, "connect")
      /\ UNCHANGED <<launcher, lock, browser, used, dir, dirs, gaveUp, tab, expired>>
      /\ browser = None /\ lock = u /\ used \in Launchers /\ used # 0
  BY DEF TryAgain, Launched, Current, TypeOK
<1>2. /\ pc' \in [Users -> Places] /\ pc'[u] = "connect"
      /\ \A v \in Users : v # u => pc'[v] = pc[v]
  BY <1>1, Moved DEF Places
<1>3. LaunchersGo' /\ Untouched'
  BY <1>1 DEF LaunchersGo, Untouched
<1>4. TypeOK'
  <2>1. TypeOKLaunch'
    BY <1>3, TypesNext
  <2>2. lock' \in Users \cup {None} /\ \A v \in Users : pc'[v] \in Holding <=> lock' = v
    BY <1>1, <1>2 DEF TypeOK, Holding
  <2>3. dirs' \subseteq 1..dir'
    BY <1>1 DEF TypeOK
  <2>4. tab' \in [Users -> Launchers \cup {None}] /\ expired' \subseteq Shots
    BY <1>1 DEF TypeOK
  <2>5. browser' \in Launchers \cup {None}
    BY <1>1 DEF TypeOK
  <2> QED
    BY <1>2, <2>1, <2>2, <2>3, <2>4, <2>5 DEF TypeOK, Places, Holding
<1>5. Roles'
  BY <1>1, <1>2 DEF Roles
<1>6. Current'
  BY <1>1, <1>2 DEF Current
<1>7. Tabs'
  BY <1>1, <1>2 DEF Tabs
<1>8. Panics'
  <2>1. Cleaned => Cleaned'
    BY <1>1, <1>2, CleanedStays DEF Users, TypeOK
  <2> QED
    BY <1>1, <1>2, <2>1 DEF Panics
<1>9. ~gaveUp' => Tidy'
  <2> SUFFICES ASSUME ~gaveUp PROVE Tidy'
    BY <1>1
  <2>1. ~IsUp(used)
    BY <1>1 DEF LaunchersGo, Goes, IsUp
  <2>2. NoneUp
    BY <1>1, <2>1 DEF Tidy, NoneUp, Current
  <2>3. NoneUp'
    BY <1>1, <2>2 DEF NoneUp, IsUp
  <2> QED
    BY <1>1, <2>3 DEF Tidy, NoneUp
<1> QED
  BY <1>3, <1>4, <1>5, <1>6, <1>7, <1>8, <1>9

LEMMA ConnectedKeeps ==
    ASSUME WebshotInv, NEW u \in Users, Connected(u)
    PROVE  WebshotInv'
<1> USE DEF WebshotInv
<1>1. /\ pc[u] = "launch" /\ launcher[used].call = "returned"
      /\ launcher[used].outcome = "url" /\ browser' = used /\ lock' = None /\ Goto(u, "page")
      /\ UNCHANGED <<launcher, used, retried, dir, dirs, gaveUp, tab, expired>>
      /\ browser = None /\ lock = u /\ used \in Launchers /\ used # 0 /\ u \in Shots
      /\ used # None
  BY DEF Connected, Launched, Current, TypeOK, Roles
<1>2. /\ pc' \in [Users -> Places] /\ pc'[u] = "page"
      /\ \A v \in Users : v # u => pc'[v] = pc[v]
  BY <1>1, Moved DEF Places
<1>a. launcher[used].resolved
  BY <1>1 DEF LaunchersGo, Goes
<1>b. \A v \in Users : pc'[v] \notin {"connect", "launch", "cleanup", "cleaning"}
  BY <1>1, <1>2 DEF TypeOK
<1>3. LaunchersGo' /\ Untouched'
  BY <1>1 DEF LaunchersGo, Untouched
<1>4. TypeOK'
  <2>1. TypeOKLaunch'
    BY <1>3, TypesNext
  <2>2. lock' \in Users \cup {None} /\ \A v \in Users : pc'[v] \in Holding <=> lock' = v
    BY <1>1, <1>2 DEF TypeOK, Holding
  <2>3. dirs' \subseteq 1..dir'
    BY <1>1 DEF TypeOK
  <2>4. tab' \in [Users -> Launchers \cup {None}] /\ expired' \subseteq Shots
    BY <1>1 DEF TypeOK
  <2>5. browser' \in Launchers \cup {None}
    BY <1>1 DEF TypeOK
  <2> QED
    BY <1>2, <2>1, <2>2, <2>3, <2>4, <2>5 DEF TypeOK, Places, Holding
<1>5. Roles'
  BY <1>1, <1>2 DEF Roles
<1>6. Current'
  BY <1>1, <1>a, <1>b DEF Current
<1>7. Tabs'
  BY <1>1, <1>2 DEF Tabs
<1>8. Panics'
  <2>1. Cleaned => Cleaned'
    BY <1>1, <1>2, CleanedStays DEF Users, TypeOK
  <2> QED
    BY <1>1, <1>2, <2>1 DEF Panics
<1>9. ~gaveUp' => Tidy'
  <2> SUFFICES ASSUME ~gaveUp PROVE Tidy'
    BY <1>1
  <2>1. \A l \in 1..used : l \in Launchers /\ l # None
    BY DEF Current
  <2>2. \A l \in 1..used : IsUp(l) => l = used
    BY <1>1, <2>1 DEF Tidy
  <2>3. dirs \subseteq {dir}
    BY DEF Tidy
  <2> QED
    BY <1>1, <1>b, <2>2, <2>3 DEF Tidy, IsUp
<1> QED
  BY <1>3, <1>4, <1>5, <1>6, <1>7, <1>8, <1>9

LEMMA InitFailsKeeps ==
    ASSUME WebshotInv, NEW u \in Users, InitFails(u)
    PROVE  WebshotInv'
<1> USE DEF WebshotInv
<1>1. /\ pc[u] = "launch" /\ launcher[used].call = "returned"
      /\ gaveUp' = (gaveUp \/ launcher[used].resolved) /\ DeleteProfileDir /\ lock' = None
      /\ Goto(u, "finished")
      /\ UNCHANGED <<launcher, browser, used, retried, dir, tab, expired>>
      /\ browser = None /\ lock = u /\ used \in Launchers /\ used # 0 /\ u \in Shots
      /\ dirs' \subseteq dirs /\ (NoneUp => dirs' = dirs \ {dir})
  BY DirDeleted DEF InitFails, Launched, Current, TypeOK, Roles
<1>2. /\ pc' \in [Users -> Places] /\ pc'[u] = "finished"
      /\ \A v \in Users : v # u => pc'[v] = pc[v]
  BY <1>1, Moved DEF Places
<1>3. LaunchersGo' /\ Untouched'
  BY <1>1 DEF LaunchersGo, Untouched
<1>4. TypeOK'
  <2>1. TypeOKLaunch'
    BY <1>3, TypesNext
  <2>2. lock' \in Users \cup {None} /\ \A v \in Users : pc'[v] \in Holding <=> lock' = v
    BY <1>1, <1>2 DEF TypeOK, Holding
  <2>3. dirs' \subseteq 1..dir'
    BY <1>1 DEF TypeOK
  <2>4. tab' \in [Users -> Launchers \cup {None}] /\ expired' \subseteq Shots
    BY <1>1 DEF TypeOK
  <2>5. browser' \in Launchers \cup {None}
    BY <1>1 DEF TypeOK
  <2> QED
    BY <1>2, <2>1, <2>2, <2>3, <2>4, <2>5 DEF TypeOK, Places, Holding
<1>5. Roles'
  BY <1>1, <1>2 DEF Roles
<1>6. Current'
  <2>1. gaveUp' \in BOOLEAN
    BY <1>1
  <2> QED
    BY <1>1, <1>2, <2>1 DEF Current
<1>7. Tabs'
  BY <1>1, <1>2 DEF Tabs
<1>8. Panics'
  <2>1. Cleaned => Cleaned'
    BY <1>1, <1>2, CleanedStays DEF Users, TypeOK
  <2> QED
    BY <1>1, <1>2, <2>1 DEF Panics
<1>9. ~gaveUp' => Tidy'
  <2> SUFFICES ASSUME ~gaveUp, ~launcher[used].resolved PROVE Tidy'
    BY <1>1
  <2>1. ~IsUp(used)
    BY <1>1 DEF LaunchersGo, Goes, IsUp
  <2>2. NoneUp
    BY <1>1, <2>1 DEF Tidy, NoneUp, Current
  <2>3. NoneUp' /\ dirs' = {}
    BY <1>1, <2>2 DEF NoneUp, IsUp, Tidy
  <2> QED
    BY <1>1, <2>3 DEF Tidy, NoneUp
<1> QED
  BY <1>3, <1>4, <1>5, <1>6, <1>7, <1>8, <1>9

LEMMA PanicKeeps ==
    ASSUME WebshotInv, NEW u \in Users, Panic(u)
    PROVE  WebshotInv'
<1> USE DEF WebshotInv
<1>1. /\ pc[u] = "page" /\ browser = None /\ Goto(u, "panicked")
      /\ UNCHANGED <<launcher, lock, browser, used, retried, dir, dirs, gaveUp, tab, expired>>
      /\ u \in Shots
  BY DEF Panic, shared, Roles
<1>2. /\ pc' \in [Users -> Places] /\ pc'[u] = "panicked"
      /\ \A v \in Users : v # u => pc'[v] = pc[v]
  BY <1>1, Moved DEF Places
<1>3. LaunchersGo' /\ Untouched'
  BY <1>1 DEF LaunchersGo, Untouched
<1>4. TypeOK'
  <2>1. TypeOKLaunch'
    BY <1>3, TypesNext
  <2>2. lock' \in Users \cup {None} /\ \A v \in Users : pc'[v] \in Holding <=> lock' = v
    BY <1>1, <1>2 DEF TypeOK, Holding
  <2>3. dirs' \subseteq 1..dir'
    BY <1>1 DEF TypeOK
  <2>4. tab' \in [Users -> Launchers \cup {None}] /\ expired' \subseteq Shots
    BY <1>1 DEF TypeOK
  <2>5. browser' \in Launchers \cup {None}
    BY <1>1 DEF TypeOK
  <2> QED
    BY <1>2, <2>1, <2>2, <2>3, <2>4, <2>5 DEF TypeOK, Places, Holding
<1>5. Roles'
  BY <1>1, <1>2 DEF Roles
<1>6. Current'
  BY <1>1, <1>2 DEF Current
<1>7. Tabs'
  BY <1>1, <1>2 DEF Tabs
<1>8. Panics'
  <2>1. Cleaned => Cleaned'
    BY <1>1, <1>2, CleanedStays DEF Users, TypeOK
  <2> QED
    BY <1>1, <1>2, <2>1 DEF Panics
<1>9. ~gaveUp' => Tidy'
  BY <1>1, <1>2 DEF Tidy, NoneUp, IsUp
<1> QED
  BY <1>3, <1>4, <1>5, <1>6, <1>7, <1>8, <1>9

LEMMA CloseTabKeeps ==
    ASSUME WebshotInv, NEW u \in Users, CloseTab(u)
    PROVE  WebshotInv'
<1> USE DEF WebshotInv
<1>1. /\ pc[u] = "shoot" /\ Goto(u, "finished")
      /\ tab' = [tab EXCEPT ![u] = IF u \in expired THEN tab[u] ELSE None]
      /\ UNCHANGED <<launcher, lock, browser, used, retried, dir, dirs, gaveUp, expired>>
      /\ u \in Shots
  BY DEF CloseTab, shared, Roles
<1>2. /\ pc' \in [Users -> Places] /\ pc'[u] = "finished"
      /\ \A v \in Users : v # u => pc'[v] = pc[v]
  BY <1>1, Moved DEF Places
<1>3. LaunchersGo' /\ Untouched'
  BY <1>1 DEF LaunchersGo, Untouched
<1>4. TypeOK'
  <2>1. TypeOKLaunch'
    BY <1>3, TypesNext
  <2>2. lock' \in Users \cup {None} /\ \A v \in Users : pc'[v] \in Holding <=> lock' = v
    BY <1>1, <1>2 DEF TypeOK, Holding
  <2>3. dirs' \subseteq 1..dir'
    BY <1>1 DEF TypeOK
  <2>4. tab' \in [Users -> Launchers \cup {None}] /\ expired' \subseteq Shots
    BY <1>1 DEF TypeOK
  <2>5. browser' \in Launchers \cup {None}
    BY <1>1 DEF TypeOK
  <2> QED
    BY <1>2, <2>1, <2>2, <2>3, <2>4, <2>5 DEF TypeOK, Places, Holding
<1>5. Roles'
  BY <1>1, <1>2 DEF Roles
<1>6. Current'
  BY <1>1, <1>2 DEF Current
<1>7. Tabs'
  BY <1>1, <1>2 DEF Tabs, TypeOK
<1>8. Panics'
  <2>1. Cleaned => Cleaned'
    BY <1>1, <1>2, CleanedStays DEF Users, TypeOK
  <2> QED
    BY <1>1, <1>2, <2>1 DEF Panics
<1>9. ~gaveUp' => Tidy'
  BY <1>1, <1>2 DEF Tidy, NoneUp, IsUp
<1> QED
  BY <1>3, <1>4, <1>5, <1>6, <1>7, <1>8, <1>9

LEMMA ForgetBrowserKeeps ==
    ASSUME WebshotInv, NEW u \in Users, ForgetBrowser(u)
    PROVE  WebshotInv'
<1> USE DEF WebshotInv
<1>1. /\ pc[u] = "cleaning" /\ launcher[browser].cleanup = "returned" /\ browser' = None
      /\ Goto(u, "cleanup")
      /\ UNCHANGED <<launcher, lock, used, retried, dir, dirs, gaveUp, tab, expired>>
      /\ browser # None /\ browser = used /\ used \in Launchers /\ lock = u /\ u \in Cleaners
  BY DEF ForgetBrowser, Current, TypeOK, Roles
<1>2. /\ pc' \in [Users -> Places] /\ pc'[u] = "cleanup"
      /\ \A v \in Users : v # u => pc'[v] = pc[v]
  BY <1>1, Moved DEF Places
<1>3. LaunchersGo' /\ Untouched'
  BY <1>1 DEF LaunchersGo, Untouched
<1>4. TypeOK'
  <2>1. TypeOKLaunch'
    BY <1>3, TypesNext
  <2>2. lock' \in Users \cup {None} /\ \A v \in Users : pc'[v] \in Holding <=> lock' = v
    BY <1>1, <1>2 DEF TypeOK, Holding
  <2>3. dirs' \subseteq 1..dir'
    BY <1>1 DEF TypeOK
  <2>4. tab' \in [Users -> Launchers \cup {None}] /\ expired' \subseteq Shots
    BY <1>1 DEF TypeOK
  <2>5. browser' \in Launchers \cup {None}
    BY <1>1 DEF TypeOK
  <2> QED
    BY <1>2, <2>1, <2>2, <2>3, <2>4, <2>5 DEF TypeOK, Places, Holding
<1>5. Roles'
  BY <1>1, <1>2 DEF Roles
<1>6. Current'
  <2>1. \A v \in Users : v # u => pc[v] \notin {"connect", "launch", "cleaning"}
    BY <1>1 DEF TypeOK
  <2> QED
    BY <1>1, <1>2, <2>1 DEF Current
<1>7. Tabs'
  BY <1>1, <1>2 DEF Tabs
<1>8. Panics'
  <2>1. Cleaned'
    BY <1>1 DEF Cleaned
  <2> QED
    BY <1>1, <1>2, <2>1 DEF Panics
<1>9. ~gaveUp' => Tidy'
  <2> SUFFICES ASSUME ~gaveUp PROVE Tidy'
    BY <1>1
  <2>1. ~IsUp(used)
    BY <1>1 DEF LaunchersGo, Goes, IsUp
  <2>2. NoneUp
    BY <1>1, <2>1 DEF Tidy, NoneUp
  <2>3. NoneUp' /\ lock # None
    BY <1>1, <2>2 DEF NoneUp, IsUp
  <2> QED
    BY <1>1, <2>3 DEF Tidy, NoneUp
<1> QED
  BY <1>3, <1>4, <1>5, <1>6, <1>7, <1>8, <1>9

LEMMA CleanupDirKeeps ==
    ASSUME WebshotInv, NEW u \in Users, CleanupDir(u)
    PROVE  WebshotInv'
<1> USE DEF WebshotInv
<1>1. /\ pc[u] = "cleanup" /\ browser = None /\ DeleteProfileDir /\ lock' = None
      /\ Goto(u, "finished")
      /\ UNCHANGED <<launcher, browser, used, retried, dir, gaveUp, tab, expired>>
      /\ lock = u /\ u \in Cleaners
      /\ dirs' \subseteq dirs /\ (NoneUp => dirs' = dirs \ {dir})
  BY DirDeleted DEF CleanupDir, TypeOK, Roles
<1>2. /\ pc' \in [Users -> Places] /\ pc'[u] = "finished"
      /\ \A v \in Users : v # u => pc'[v] = pc[v]
  BY <1>1, Moved DEF Places
<1>3. LaunchersGo' /\ Untouched'
  BY <1>1 DEF LaunchersGo, Untouched
<1>4. TypeOK'
  <2>1. TypeOKLaunch'
    BY <1>3, TypesNext
  <2>2. lock' \in Users \cup {None} /\ \A v \in Users : pc'[v] \in Holding <=> lock' = v
    BY <1>1, <1>2 DEF TypeOK, Holding
  <2>3. dirs' \subseteq 1..dir'
    BY <1>1 DEF TypeOK
  <2>4. tab' \in [Users -> Launchers \cup {None}] /\ expired' \subseteq Shots
    BY <1>1 DEF TypeOK
  <2>5. browser' \in Launchers \cup {None}
    BY <1>1 DEF TypeOK
  <2> QED
    BY <1>2, <2>1, <2>2, <2>3, <2>4, <2>5 DEF TypeOK, Places, Holding
<1>5. Roles'
  BY <1>1, <1>2 DEF Roles
<1>6. Current'
  BY <1>1, <1>2 DEF Current
<1>7. Tabs'
  BY <1>1, <1>2 DEF Tabs
<1>8. Panics'
  <2>1. Cleaned'
    BY <1>1, <1>2 DEF Cleaned
  <2> QED
    BY <1>1, <1>2, <2>1 DEF Panics
<1>9. ~gaveUp' => Tidy'
  <2> SUFFICES ASSUME ~gaveUp PROVE Tidy'
    BY <1>1
  <2>1. NoneUp /\ dirs' = {}
    BY <1>1 DEF Tidy
  <2>2. NoneUp'
    BY <1>1, <2>1 DEF NoneUp, IsUp
  <2> QED
    BY <1>1, <2>1, <2>2 DEF Tidy, NoneUp
<1> QED
  BY <1>3, <1>4, <1>5, <1>6, <1>7, <1>8, <1>9

LEMMA CleanupBrowserKeeps ==
    ASSUME WebshotInv, NEW u \in Users, CleanupBrowser(u)
    PROVE  WebshotInv'
<1> USE DEF WebshotInv
<1>1. /\ pc[u] = "cleanup" /\ browser # None /\ CleanupCancel(browser)
      /\ Goto(u, "cleaning")
      /\ UNCHANGED <<lock, browser, used, retried, dir, dirs, gaveUp, tab, expired>>
      /\ browser = used /\ used \in Launchers /\ used # 0 /\ used \in 1..used
      /\ launcher[used].resolved /\ lock = u /\ u \in Cleaners
  BY DEF CleanupBrowser, shared, Current, TypeOK, Roles
<1>2. /\ pc' \in [Users -> Places] /\ pc'[u] = "cleaning"
      /\ \A v \in Users : v # u => pc'[v] = pc[v]
  BY <1>1, Moved DEF Places
<1>a. OneGoes(used)
  <2> DEFINE s == launcher[used]
  <2> DEFINE t == [s EXCEPT !.cleanup = "look", !.done = TRUE]
  <2>1. s \in LauncherRecord /\ Goes(s) /\ s.resolved
    BY <1>1 DEF LaunchersGo
  <2>2. /\ t \in LauncherRecord /\ Goes(t) /\ t.resolved
        /\ s.process # "none" /\ (t.process = "up" => s.process = "up")
    BY <2>1 DEF LauncherRecord, Goes
  <2>3. launcher' = [launcher EXCEPT ![used] = t]
    BY <1>1 DEF CleanupCancel
  <2> QED
    BY <1>1, <2>1, <2>2, <2>3, OneChanges
<1>b. \A l \in Launchers : IsUp(l)' => IsUp(l)
  <2> SUFFICES ASSUME NEW l \in Launchers, launcher'[l].process = "up"
               PROVE  launcher[l].process = "up"
    BY DEF IsUp
  <2>1. CASE l = used
    BY <1>1, <1>a, <2>1 DEF OneGoes, IsUp
  <2>2. CASE l # used
    BY <1>a, <2>2 DEF OneGoes
  <2> QED
    BY <2>1, <2>2
<1>3. LaunchersGo' /\ Untouched'
  BY <1>1, <1>a DEF OneGoes, Untouched
<1>4. TypeOK'
  <2>1. TypeOKLaunch'
    BY <1>3, TypesNext
  <2>2. lock' \in Users \cup {None} /\ \A v \in Users : pc'[v] \in Holding <=> lock' = v
    BY <1>1, <1>2 DEF TypeOK, Holding
  <2>3. dirs' \subseteq 1..dir'
    BY <1>1 DEF TypeOK
  <2>4. tab' \in [Users -> Launchers \cup {None}] /\ expired' \subseteq Shots
    BY <1>1 DEF TypeOK
  <2>5. browser' \in Launchers \cup {None}
    BY <1>1 DEF TypeOK
  <2> QED
    BY <1>2, <2>1, <2>2, <2>3, <2>4, <2>5 DEF TypeOK, Places, Holding
<1>5. Roles'
  BY <1>1, <1>2 DEF Roles
<1>6. Current'
  BY <1>1, <1>2, <1>a DEF Current, OneGoes
<1>7. Tabs'
  BY <1>1, <1>2 DEF Tabs
<1>8. Panics'
  <2>1. Cleaned => Cleaned'
    BY <1>1, <1>2, CleanedStays DEF Users, TypeOK
  <2> QED
    BY <1>1, <1>2, <2>1 DEF Panics
<1>9. ~gaveUp' => Tidy'
  <2>1. \A l \in 1..used : l \in Launchers
    BY <1>1 DEF Current
  <2>2. lock # None /\ \A v \in Users : pc'[v] # "connect" /\ pc'[v] # "cleanup"
    BY <1>1, <1>2 DEF TypeOK
  <2> QED
    BY <1>1, <1>b, <2>1, <2>2 DEF Tidy
<1> QED
  BY <1>3, <1>4, <1>5, <1>6, <1>7, <1>8, <1>9

LEMMA OpenTabKeeps ==
    ASSUME WebshotInv, NEW u \in Users, OpenTab(u)
    PROVE  WebshotInv'
<1> USE DEF WebshotInv
<1>1. /\ pc[u] = "page" /\ browser # None /\ u \in Shots
      /\ UNCHANGED <<launcher, lock, browser, used, retried, dir, dirs, gaveUp, expired>>
  BY DEF OpenTab, shared, Roles
<1>2. PICK place \in {"shoot", "finished"} :
        /\ Goto(u, place)
        /\ \/ place = "shoot" /\ tab' = [tab EXCEPT ![u] = browser]
           \/ place = "finished" /\ UNCHANGED tab
  BY DEF OpenTab
<1>3. /\ pc' \in [Users -> Places] /\ pc'[u] = place
      /\ \A v \in Users : v # u => pc'[v] = pc[v]
  BY <1>2, Moved DEF Places
<1>4. LaunchersGo' /\ Untouched'
  BY <1>1 DEF LaunchersGo, Untouched
<1>5. TypeOK'
  <2>1. TypeOKLaunch'
    BY <1>4, TypesNext
  <2>2. \A v \in Users : pc'[v] \in Holding <=> lock' = v
    BY <1>1, <1>3 DEF TypeOK, Holding
  <2>3. tab' \in [Users -> Launchers \cup {None}]
    BY <1>1, <1>2 DEF TypeOK
  <2> QED
    BY <1>1, <1>3, <2>1, <2>2, <2>3 DEF TypeOK, Places, Holding
<1>6. Roles' /\ Current'
  BY <1>1, <1>3 DEF Roles, Current
<1>7. Tabs'
  BY <1>1, <1>2, <1>3 DEF Tabs, TypeOK
<1>8. Panics'
  <2>1. Cleaned => Cleaned'
    BY <1>1, <1>3, CleanedStays
  <2> QED
    BY <1>1, <1>3, <2>1 DEF Panics
<1>9. ~gaveUp' => Tidy'
  BY <1>1, <1>3 DEF Tidy, NoneUp, IsUp
<1> QED
  BY <1>4, <1>5, <1>6, <1>7, <1>8, <1>9

LEMMA ExpireKeeps ==
    ASSUME WebshotInv, NEW u \in Users, Expire(u)
    PROVE  WebshotInv'
<1> USE DEF WebshotInv
<1>1. /\ u \in Shots /\ expired' = expired \cup {u}
      /\ UNCHANGED <<launcher, pc, lock, browser, used, retried, dir, dirs, gaveUp, tab>>
  BY DEF Expire, shared, Roles
<1>2. LaunchersGo' /\ Untouched'
  BY <1>1 DEF LaunchersGo, Untouched
<1>3. TypeOK'
  BY <1>1, <1>2, TypesNext DEF TypeOK
<1>4. Roles' /\ Current'
  BY <1>1 DEF Roles, Current
<1>5. Tabs'
  BY <1>1 DEF Tabs
<1>6. Panics'
  BY <1>1 DEF Panics, Cleaned
<1>7. ~gaveUp' => Tidy'
  BY <1>1 DEF Tidy, NoneUp, IsUp
<1> QED
  BY <1>2, <1>3, <1>4, <1>5, <1>6, <1>7

LEMMA RunKeeps ==
    ASSUME WebshotInv, NEW l \in Launchers, Run(l)
    PROVE  WebshotInv'
<1> USE DEF WebshotInv
<1>1. /\ UNCHANGED <<pc, lock, browser, used, retried, dir, dirs, gaveUp, tab, expired>>
      /\ OneGoes(l)
  BY LauncherGoes DEF Run, shared
<1>2. LaunchersGo' /\ \A m \in Launchers : m # l => launcher'[m] = launcher[m]
  BY <1>1 DEF OneGoes
<1>3. l \in 1..used
  BY <1>1 DEF OneGoes, Untouched, Fresh
<1>4. Untouched'
  BY <1>1, <1>2, <1>3 DEF Untouched
<1>5. TypeOK'
  BY <1>1, <1>2, TypesNext DEF TypeOK
<1>6. Roles'
  BY <1>1 DEF Roles
<1>7. Current'
  <2>1. browser # None => browser = used /\ used # 0 /\ launcher'[used].resolved
    BY <1>1, <1>2 DEF Current, OneGoes, TypeOK
  <2> QED
    BY <1>1, <2>1 DEF Current
<1>8. Tabs' /\ Panics'
  BY <1>1 DEF Tabs, Panics, Cleaned
<1>9. ~gaveUp' => Tidy'
  <2>1. \A m \in Launchers : IsUp(m)' => IsUp(m)
    BY <1>1 DEF OneGoes, IsUp
  <2>2. \A m \in 1..used : m \in Launchers
    BY DEF Current
  <2> QED
    BY <1>1, <2>1, <2>2 DEF Tidy, NoneUp
<1> QED
  BY <1>2, <1>4, <1>5, <1>6, <1>7, <1>8, <1>9

LEMMA WebshotBegins == Init => WebshotInv
<1> SUFFICES ASSUME Init PROVE WebshotInv
  OBVIOUS
<1> USE DEF Init, InitShared
<1>1. Fresh(TRUE) \in LauncherRecord /\ Goes(Fresh(TRUE))
  BY DEF Fresh, LauncherRecord, Goes
<1>2. LaunchersGo /\ Untouched
  BY <1>1 DEF LaunchersGo, Untouched
<1>3. TypeOK
  BY <1>2, LaunchTypes DEF TypeOK
<1>4. Roles /\ Tabs /\ Panics
  BY DEF Roles, Tabs, Panics
<1>5. Current
  <2>1. 0 \in 0..MaxLaunch /\ 0 \in Nat
    OBVIOUS
  <2>2. gaveUp \in BOOLEAN /\ browser = None /\ \A u \in Users : pc[u] = "idle"
    OBVIOUS
  <2> QED
    BY <2>1, <2>2 DEF Current
<1>6. Tidy
  BY DEF Tidy, NoneUp
<1> QED
  BY <1>2, <1>3, <1>4, <1>5, <1>6 DEF WebshotInv

LEMMA WebshotStep == WebshotInv /\ [Next]_vars => WebshotInv'
<1> SUFFICES ASSUME WebshotInv, [Next]_vars PROVE WebshotInv'
  OBVIOUS
<1>1. ASSUME NEW u \in Users, Enter(u) \/ Step(u) \/ Expire(u)
      PROVE  WebshotInv'
  BY <1>1, EnterShotKeeps, EnterInitKeeps, EnterFailsKeeps, EnterCleanupKeeps, ConnectKeeps,
     ConnectFailsKeeps, TryAgainKeeps, ConnectedKeeps, InitFailsKeeps, PanicKeeps, OpenTabKeeps,
     CloseTabKeeps, CleanupBrowserKeeps, ForgetBrowserKeeps, CleanupDirKeeps, ExpireKeeps
     DEF Enter, Step
<1>2. CASE UNCHANGED vars
  <2> USE <1>2 DEF vars, shared, WebshotInv
  <2>1. LaunchersGo' /\ Untouched'
    BY DEF LaunchersGo, Untouched
  <2>2. TypeOK'
    BY <2>1, TypesNext DEF TypeOK
  <2>3. Roles' /\ Current' /\ Tabs' /\ Panics'
    BY DEF Roles, Current, Tabs, Panics, Cleaned
  <2>4. ~gaveUp' => Tidy'
    BY DEF Tidy, NoneUp, IsUp
  <2> QED
    BY <2>1, <2>2, <2>3, <2>4
<1> QED
  BY <1>1, <1>2, RunKeeps DEF Next

(* What a Webshot has started it has ended or uses: no browser of a Launch *)
(* that failed or was retried runs on, no directory is left without a      *)
(* browser, a tab outlives its screenshot only when its context is over,   *)
(* and only a Cleanup makes a screenshot panic (chrome.go:237-357,         *)
(* :464-622).                                                              *)
THEOREM NothingIsLeft == FairSpec => []NothingLeft
<1>1. WebshotInv => NothingLeft
  BY DEF WebshotInv, NothingLeft, Tidy, Tabs, Panics, Cleaned, Users
<1>2. FairSpec => Init /\ [][Next]_vars
  BY DEF FairSpec
<1> QED
  BY <1>1, <1>2, WebshotBegins, WebshotStep, PTL

-----------------------------------------------------------------------------
(* The cache of browsers *)

HIDE WebshotAssumption

USE DEF At, Holds, Release, Revisions, disk

LEMMA ReadLatestKeeps ==
    ASSUME InstallInv, NEW p \in Installers, ReadLatest(p)
    PROVE  InstallInv'
<1> USE InstallAssumption DEF InstallInv, CacheSafe, ReadLatest
<1>1. InstallTypeOK'
  BY DEF InstallTypeOK, LockSound
<1>2. LockSound'
  BY DEF InstallTypeOK, LockSound
<1>3. OneZip'
  BY DEF InstallTypeOK, LockSound, OneZip
<1>4. LatestComplete'
  BY DEF InstallTypeOK, LockSound, LatestComplete, FilesKnown
<1>5. FilesKnown'
  BY DEF InstallTypeOK, LockSound, FilesKnown
<1>6. (latest # 0 => files[latest] # "none")'
  BY DEF InstallTypeOK, LockSound, FilesKnown
<1> QED
  BY <1>1, <1>2, <1>3, <1>4, <1>5, <1>6

LEMMA NewerKeeps ==
    ASSUME InstallInv, NEW p \in Installers, Newer(p)
    PROVE  InstallInv'
<1> USE InstallAssumption DEF InstallInv, CacheSafe, Newer
<1>1. InstallTypeOK'
  BY DEF InstallTypeOK, LockSound
<1>2. LockSound'
  BY DEF InstallTypeOK, LockSound
<1>3. OneZip'
  BY DEF InstallTypeOK, LockSound, OneZip
<1>4. LatestComplete'
  BY DEF InstallTypeOK, LockSound, LatestComplete, FilesKnown
<1>5. FilesKnown'
  BY DEF InstallTypeOK, LockSound, FilesKnown
<1>6. (latest # 0 => files[latest] # "none")'
  BY DEF InstallTypeOK, LockSound, FilesKnown
<1> QED
  BY <1>1, <1>2, <1>3, <1>4, <1>5, <1>6

LEMMA NotNewerKeeps ==
    ASSUME InstallInv, NEW p \in Installers, NotNewer(p)
    PROVE  InstallInv'
<1> USE InstallAssumption DEF InstallInv, CacheSafe, NotNewer
<1>1. InstallTypeOK'
  BY DEF InstallTypeOK, LockSound
<1>2. LockSound'
  BY DEF InstallTypeOK, LockSound
<1>3. OneZip'
  BY DEF InstallTypeOK, LockSound, OneZip
<1>4. LatestComplete'
  BY DEF InstallTypeOK, LockSound, LatestComplete, FilesKnown
<1>5. FilesKnown'
  BY DEF InstallTypeOK, LockSound, FilesKnown
<1>6. (latest # 0 => files[latest] # "none")'
  BY DEF InstallTypeOK, LockSound, FilesKnown
<1> QED
  BY <1>1, <1>2, <1>3, <1>4, <1>5, <1>6

LEMMA TakeLockKeeps ==
    ASSUME InstallInv, NEW p \in Installers, TakeLock(p)
    PROVE  InstallInv'
<1> USE InstallAssumption DEF InstallInv, CacheSafe, TakeLock
<1>1. InstallTypeOK'
  BY DEF InstallTypeOK, LockSound
<1>2. LockSound'
  BY DEF InstallTypeOK, LockSound
<1>3. OneZip'
  BY DEF InstallTypeOK, LockSound, OneZip
<1>4. LatestComplete'
  BY DEF InstallTypeOK, LockSound, LatestComplete, FilesKnown
<1>5. FilesKnown'
  BY DEF InstallTypeOK, LockSound, FilesKnown
<1>6. (latest # 0 => files[latest] # "none")'
  BY DEF InstallTypeOK, LockSound, FilesKnown
<1> QED
  BY <1>1, <1>2, <1>3, <1>4, <1>5, <1>6

LEMMA DownloadKeeps ==
    ASSUME InstallInv, NEW p \in Installers, Download(p)
    PROVE  InstallInv'
<1> USE InstallAssumption DEF InstallInv, CacheSafe, Download
<1>1. InstallTypeOK'
  BY DEF InstallTypeOK, LockSound
<1>2. LockSound'
  BY DEF InstallTypeOK, LockSound
<1>3. OneZip'
  BY DEF InstallTypeOK, LockSound, OneZip
<1>4. LatestComplete'
  BY DEF InstallTypeOK, LockSound, LatestComplete, FilesKnown
<1>5. FilesKnown'
  BY DEF InstallTypeOK, LockSound, FilesKnown
<1>6. (latest # 0 => files[latest] # "none")'
  BY DEF InstallTypeOK, LockSound, FilesKnown
<1> QED
  BY <1>1, <1>2, <1>3, <1>4, <1>5, <1>6

LEMMA DownloadFailsKeeps ==
    ASSUME InstallInv, NEW p \in Installers, DownloadFails(p)
    PROVE  InstallInv'
<1> USE InstallAssumption DEF InstallInv, CacheSafe, DownloadFails
<1>1. InstallTypeOK'
  BY DEF InstallTypeOK, LockSound
<1>2. LockSound'
  BY DEF InstallTypeOK, LockSound
<1>3. OneZip'
  BY DEF InstallTypeOK, LockSound, OneZip
<1>4. LatestComplete'
  BY DEF InstallTypeOK, LockSound, LatestComplete, FilesKnown
<1>5. FilesKnown'
  BY DEF InstallTypeOK, LockSound, FilesKnown
<1>6. (latest # 0 => files[latest] # "none")'
  BY DEF InstallTypeOK, LockSound, FilesKnown
<1> QED
  BY <1>1, <1>2, <1>3, <1>4, <1>5, <1>6

LEMMA UnzipBeginsKeeps ==
    ASSUME InstallInv, NEW p \in Installers, UnzipBegins(p)
    PROVE  InstallInv'
<1> USE InstallAssumption DEF InstallInv, CacheSafe, UnzipBegins
<1>1. InstallTypeOK'
  BY DEF InstallTypeOK, LockSound
<1>2. LockSound'
  BY DEF InstallTypeOK, LockSound
<1>3. OneZip'
  BY DEF InstallTypeOK, LockSound, OneZip
<1>4. LatestComplete'
  BY DEF InstallTypeOK, LockSound, LatestComplete, FilesKnown
<1>5. FilesKnown'
  BY DEF InstallTypeOK, LockSound, FilesKnown
<1>6. (latest # 0 => files[latest] # "none")'
  BY DEF InstallTypeOK, LockSound, FilesKnown
<1> QED
  BY <1>1, <1>2, <1>3, <1>4, <1>5, <1>6

LEMMA UnzipEndsKeeps ==
    ASSUME InstallInv, NEW p \in Installers, UnzipEnds(p)
    PROVE  InstallInv'
<1> USE InstallAssumption DEF InstallInv, CacheSafe, UnzipEnds
<1>1. InstallTypeOK'
  BY DEF InstallTypeOK, LockSound
<1>2. LockSound'
  BY DEF InstallTypeOK, LockSound
<1>3. OneZip'
  BY DEF InstallTypeOK, LockSound, OneZip
<1>4. LatestComplete'
  BY DEF InstallTypeOK, LockSound, LatestComplete, FilesKnown
<1>5. FilesKnown'
  BY DEF InstallTypeOK, LockSound, FilesKnown
<1>6. (latest # 0 => files[latest] # "none")'
  BY DEF InstallTypeOK, LockSound, FilesKnown
<1> QED
  BY <1>1, <1>2, <1>3, <1>4, <1>5, <1>6

LEMMA UnzipRetriesKeeps ==
    ASSUME InstallInv, NEW p \in Installers, UnzipRetries(p)
    PROVE  InstallInv'
<1> USE InstallAssumption DEF InstallInv, CacheSafe, UnzipRetries
<1>1. InstallTypeOK'
  <2>1. attempts' \in [Installers -> 0..2]
    <3>1. attempts[p] \in 0..2 /\ attempts[p] < 2
      BY DEF InstallTypeOK
    <3>2. attempts[p] + 1 \in 0..2
      BY <3>1
    <3> QED
      BY <3>2 DEF InstallTypeOK
  <2> QED
    BY <2>1 DEF InstallTypeOK
<1>2. LockSound'
  BY DEF InstallTypeOK, LockSound
<1>3. OneZip'
  BY DEF InstallTypeOK, LockSound, OneZip
<1>4. LatestComplete'
  BY DEF InstallTypeOK, LockSound, LatestComplete, FilesKnown
<1>5. FilesKnown'
  BY DEF InstallTypeOK, LockSound, FilesKnown
<1>6. (latest # 0 => files[latest] # "none")'
  BY DEF InstallTypeOK, LockSound, FilesKnown
<1> QED
  BY <1>1, <1>2, <1>3, <1>4, <1>5, <1>6

LEMMA UnzipFailsKeeps ==
    ASSUME InstallInv, NEW p \in Installers, UnzipFails(p)
    PROVE  InstallInv'
<1> USE InstallAssumption DEF InstallInv, CacheSafe, UnzipFails
<1>1. InstallTypeOK'
  <2>1. revision[p] \in 1..MaxRevision
    BY DEF InstallTypeOK, LockSound
  <2>2. zips' \in [1..MaxRevision -> SUBSET Installers]
    BY <2>1 DEF InstallTypeOK
  <2>3. locked' \in [1..MaxRevision -> Installers \cup {Nobody}]
    BY <2>1 DEF InstallTypeOK
  <2>4. stage' \in [Installers -> {"read", "resolve", "lock", "download", "unzip",
            "unzipping", "record", "recording", "choose", "using", "failed", "crashed"}]
    BY DEF InstallTypeOK
  <2> QED
    BY <2>1, <2>2, <2>3, <2>4 DEF InstallTypeOK
<1>2. LockSound'
  BY DEF InstallTypeOK, LockSound
<1>3. OneZip'
  BY DEF InstallTypeOK, LockSound, OneZip
<1>4. LatestComplete'
  BY DEF InstallTypeOK, LockSound, LatestComplete, FilesKnown
<1>5. FilesKnown'
  BY DEF InstallTypeOK, LockSound, FilesKnown
<1>6. (latest # 0 => files[latest] # "none")'
  BY DEF InstallTypeOK, LockSound, FilesKnown
<1> QED
  BY <1>1, <1>2, <1>3, <1>4, <1>5, <1>6

LEMMA RecordFailsKeeps ==
    ASSUME InstallInv, NEW p \in Installers, RecordFails(p)
    PROVE  InstallInv'
<1> USE InstallAssumption DEF InstallInv, CacheSafe, RecordFails
<1>1. InstallTypeOK'
  BY DEF InstallTypeOK, LockSound
<1>2. LockSound'
  BY DEF InstallTypeOK, LockSound
<1>3. OneZip'
  BY DEF InstallTypeOK, LockSound, OneZip
<1>4. LatestComplete'
  BY DEF InstallTypeOK, LockSound, LatestComplete, FilesKnown
<1>5. FilesKnown'
  BY DEF InstallTypeOK, LockSound, FilesKnown
<1>6. (latest # 0 => files[latest] # "none")'
  BY DEF InstallTypeOK, LockSound, FilesKnown
<1> QED
  BY <1>1, <1>2, <1>3, <1>4, <1>5, <1>6

LEMMA RecordBeginsKeeps ==
    ASSUME InstallInv, NEW p \in Installers, RecordBegins(p)
    PROVE  InstallInv'
<1> USE InstallAssumption DEF InstallInv, CacheSafe, RecordBegins
<1>1. InstallTypeOK'
  BY DEF InstallTypeOK, LockSound
<1>2. LockSound'
  BY DEF InstallTypeOK, LockSound
<1>3. OneZip'
  BY DEF InstallTypeOK, LockSound, OneZip
<1>4. LatestComplete'
  BY DEF InstallTypeOK, LockSound, LatestComplete, FilesKnown
<1>5. FilesKnown'
  BY DEF InstallTypeOK, LockSound, FilesKnown
<1>6. (latest # 0 => files[latest] # "none")'
  BY DEF InstallTypeOK, LockSound, FilesKnown
<1> QED
  BY <1>1, <1>2, <1>3, <1>4, <1>5, <1>6

LEMMA RecordEndsKeeps ==
    ASSUME InstallInv, NEW p \in Installers, RecordEnds(p)
    PROVE  InstallInv'
<1> USE InstallAssumption DEF InstallInv, CacheSafe, RecordEnds
<1>1. InstallTypeOK'
  BY DEF InstallTypeOK, LockSound
<1>2. LockSound'
  BY DEF InstallTypeOK, LockSound
<1>3. OneZip'
  BY DEF InstallTypeOK, LockSound, OneZip
<1>4. LatestComplete'
  BY DEF InstallTypeOK, LockSound, LatestComplete, FilesKnown
<1>5. FilesKnown'
  BY DEF InstallTypeOK, LockSound, FilesKnown
<1>6. (latest # 0 => files[latest] # "none")'
  BY DEF InstallTypeOK, LockSound, FilesKnown
<1> QED
  BY <1>1, <1>2, <1>3, <1>4, <1>5, <1>6

LEMMA ChooseKeeps ==
    ASSUME InstallInv, NEW p \in Installers, Choose(p)
    PROVE  InstallInv'
<1> USE InstallAssumption DEF InstallInv, CacheSafe, Choose
<1>1. InstallTypeOK'
  BY DEF InstallTypeOK, LockSound
<1>2. LockSound'
  BY DEF InstallTypeOK, LockSound
<1>3. OneZip'
  BY DEF InstallTypeOK, LockSound, OneZip
<1>4. LatestComplete'
  BY DEF InstallTypeOK, LockSound, LatestComplete, FilesKnown
<1>5. FilesKnown'
  BY DEF InstallTypeOK, LockSound, FilesKnown
<1>6. (latest # 0 => files[latest] # "none")'
  BY DEF InstallTypeOK, LockSound, FilesKnown
<1> QED
  BY <1>1, <1>2, <1>3, <1>4, <1>5, <1>6

LEMMA ChooseFailsKeeps ==
    ASSUME InstallInv, NEW p \in Installers, ChooseFails(p)
    PROVE  InstallInv'
<1> USE InstallAssumption DEF InstallInv, CacheSafe, ChooseFails
<1>1. InstallTypeOK'
  BY DEF InstallTypeOK, LockSound
<1>2. LockSound'
  BY DEF InstallTypeOK, LockSound
<1>3. OneZip'
  BY DEF InstallTypeOK, LockSound, OneZip
<1>4. LatestComplete'
  BY DEF InstallTypeOK, LockSound, LatestComplete, FilesKnown
<1>5. FilesKnown'
  BY DEF InstallTypeOK, LockSound, FilesKnown
<1>6. (latest # 0 => files[latest] # "none")'
  BY DEF InstallTypeOK, LockSound, FilesKnown
<1> QED
  BY <1>1, <1>2, <1>3, <1>4, <1>5, <1>6

LEMMA CrashKeeps ==
    ASSUME InstallInv, NEW p \in Installers, Crash(p)
    PROVE  InstallInv'
<1> USE InstallAssumption DEF InstallInv, CacheSafe, Crash
<1>1. InstallTypeOK'
  <2>1. locked' \in [1..MaxRevision -> Installers \cup {Nobody}]
    BY DEF InstallTypeOK
  <2>2. crashes' \in 0..MaxCrashes
    BY DEF InstallTypeOK
  <2>3. stage' \in [Installers -> {"read", "resolve", "lock", "download", "unzip",
            "unzipping", "record", "recording", "choose", "using", "failed", "crashed"}]
    BY DEF InstallTypeOK
  <2> QED
    BY <2>1, <2>2, <2>3 DEF InstallTypeOK
<1>2. LockSound'
  BY DEF InstallTypeOK, LockSound
<1>3. OneZip'
  BY DEF InstallTypeOK, LockSound, OneZip
<1>4. LatestComplete'
  BY DEF InstallTypeOK, LockSound, LatestComplete, FilesKnown
<1>5. FilesKnown'
  BY DEF InstallTypeOK, LockSound, FilesKnown
<1>6. (latest # 0 => files[latest] # "none")'
  BY DEF InstallTypeOK, LockSound, FilesKnown
<1> QED
  BY <1>1, <1>2, <1>3, <1>4, <1>5, <1>6

LEMMA RestartKeeps ==
    ASSUME InstallInv, NEW p \in Installers, Restart(p)
    PROVE  InstallInv'
<1> USE InstallAssumption DEF InstallInv, CacheSafe, Restart
<1>1. InstallTypeOK'
  BY DEF InstallTypeOK, LockSound
<1>2. LockSound'
  BY DEF InstallTypeOK, LockSound
<1>3. OneZip'
  BY DEF InstallTypeOK, LockSound, OneZip
<1>4. LatestComplete'
  BY DEF InstallTypeOK, LockSound, LatestComplete, FilesKnown
<1>5. FilesKnown'
  BY DEF InstallTypeOK, LockSound, FilesKnown
<1>6. (latest # 0 => files[latest] # "none")'
  BY DEF InstallTypeOK, LockSound, FilesKnown
<1> QED
  BY <1>1, <1>2, <1>3, <1>4, <1>5, <1>6

(* The empty cache is safe. *)
LEMMA EmptyCache == InstallInit => InstallInv
  BY InstallAssumption DEF InstallInit, InstallRest, InstallInv, CacheSafe, InstallTypeOK,
     LockSound, OneZip, LatestComplete, FilesKnown

(* Every step of every installer, and of the world around, keeps the cache safe. *)
LEMMA InstallStep == InstallInv /\ [InstallNext]_installVars => InstallInv'
<1> SUFFICES ASSUME InstallInv, [InstallNext]_installVars
             PROVE  InstallInv'
  OBVIOUS
<1>1. ASSUME NEW p \in Installers, ReadLatest(p)
      PROVE  InstallInv'
  BY <1>1, ReadLatestKeeps
<1>2. ASSUME NEW p \in Installers, Newer(p)
      PROVE  InstallInv'
  BY <1>2, NewerKeeps
<1>3. ASSUME NEW p \in Installers, NotNewer(p)
      PROVE  InstallInv'
  BY <1>3, NotNewerKeeps
<1>4. ASSUME NEW p \in Installers, TakeLock(p)
      PROVE  InstallInv'
  BY <1>4, TakeLockKeeps
<1>5. ASSUME NEW p \in Installers, Download(p)
      PROVE  InstallInv'
  BY <1>5, DownloadKeeps
<1>6. ASSUME NEW p \in Installers, DownloadFails(p)
      PROVE  InstallInv'
  BY <1>6, DownloadFailsKeeps
<1>7. ASSUME NEW p \in Installers, UnzipBegins(p)
      PROVE  InstallInv'
  BY <1>7, UnzipBeginsKeeps
<1>8. ASSUME NEW p \in Installers, UnzipEnds(p)
      PROVE  InstallInv'
  BY <1>8, UnzipEndsKeeps
<1>9. ASSUME NEW p \in Installers, UnzipRetries(p)
      PROVE  InstallInv'
  BY <1>9, UnzipRetriesKeeps
<1>10. ASSUME NEW p \in Installers, UnzipFails(p)
      PROVE  InstallInv'
  BY <1>10, UnzipFailsKeeps
<1>11. ASSUME NEW p \in Installers, RecordBegins(p)
      PROVE  InstallInv'
  BY <1>11, RecordBeginsKeeps
<1>12. ASSUME NEW p \in Installers, RecordEnds(p)
      PROVE  InstallInv'
  BY <1>12, RecordEndsKeeps
<1>13. ASSUME NEW p \in Installers, RecordFails(p)
      PROVE  InstallInv'
  BY <1>13, RecordFailsKeeps
<1>14. ASSUME NEW p \in Installers, Choose(p)
      PROVE  InstallInv'
  BY <1>14, ChooseKeeps
<1>15. ASSUME NEW p \in Installers, ChooseFails(p)
      PROVE  InstallInv'
  BY <1>15, ChooseFailsKeeps
<1>16. ASSUME NEW p \in Installers, Crash(p)
      PROVE  InstallInv'
  BY <1>16, CrashKeeps
<1>17. ASSUME NEW p \in Installers, Restart(p)
      PROVE  InstallInv'
  BY <1>17, RestartKeeps
<1>18. CASE Publish
  BY <1>18, InstallAssumption DEF Publish, InstallInv, CacheSafe, InstallTypeOK,
     LockSound, OneZip, LatestComplete, FilesKnown
<1>19. CASE UNCHANGED installVars
  BY <1>19 DEF installVars, InstallInv, CacheSafe, InstallTypeOK, LockSound,
     OneZip, LatestComplete, FilesKnown
<1> QED
  BY <1>1, <1>2, <1>3, <1>4, <1>5, <1>6, <1>7, <1>8, <1>9, <1>10, <1>11, <1>12, <1>13, <1>14,
     <1>15, <1>16, <1>17, <1>18, <1>19 DEF InstallNext, GoesOn, DownloadEnds

(* The cache is safe in every state that any number of installers, which   *)
(* may crash and begin again at any time, can bring it to.                 *)
THEOREM CacheIsSafe == InstallSpec => []CacheSafe
<1>1. InstallInv => CacheSafe
  BY DEF InstallInv
<1> QED
  BY <1>1, EmptyCache, InstallStep, PTL DEF InstallSpec
=============================================================================
