------------------------------ MODULE Webshot -------------------------------
(***************************************************************************)
(* A Webshot: goroutines that take screenshots share one browser, which    *)
(* the first of them starts under the lock and Cleanup ends.  A launch     *)
(* that fails for its sandbox is tried once more without.  A screenshot    *)
(* reads the browser after Init has given the lock back, opens a tab with  *)
(* a context that times out, and closes it with that same context.         *)
(***************************************************************************)
EXTENDS Launch

CONSTANTS
    Shots,      \* the goroutines that take a screenshot
    Cleaners,   \* those that call Cleanup
    MaxLaunch,  \* bound on the browsers started
    None

Users == Shots \cup Cleaners

ASSUME WebshotAssumption ==
    /\ Shots \cap Cleaners = {}
    /\ None \notin Users \cup Launchers
    /\ MaxLaunch \in Nat /\ 1..MaxLaunch \subseteq Launchers

VARIABLES
    pc,         \* pc[u]: where the goroutine u is
    lock,       \* who holds the Webshot's lock
    browser,    \* Webshot.Browser, as its launcher
    used,       \* how many launchers there have been: the last is the current
    retried,    \* the current Init has taken its second attempt
    dir,        \* Webshot.TempDir, numbered
    dirs,       \* the directories that exist
    tab,        \* tab[u]: the browser that u has opened a tab in
    expired,    \* the screenshots whose page context is over
    gaveUp      \* history: an Init failed for another reason than its Launch

shared == <<lock, browser, used, retried, dir, dirs, gaveUp>>
vars == <<launcher, pc, shared, tab, expired>>

InitShared ==
    /\ lock = None
    /\ browser = None
    /\ used = 0
    /\ retried = FALSE
    /\ dir = 0
    /\ dirs = {}
    /\ tab = [u \in Users |-> None]
    /\ expired = {}
    /\ gaveUp = FALSE

Init ==
    /\ launcher = [l \in Launchers |-> Fresh(TRUE)]
    /\ pc = [u \in Users |-> "idle"]
    /\ InitShared

Goto(u, place) == pc' = [pc EXCEPT ![u] = place]

(* What a browser that is up writes may outlast the removal. *)
DeleteProfileDir ==
    \E left \in IF \E l \in 1..used : IsUp(l) THEN BOOLEAN ELSE {FALSE} :
        dirs' = IF left THEN dirs ELSE dirs \ {dir}

-----------------------------------------------------------------------------
(* Init, with the lock *)

(* Init returns at once if there is a browser. *)
EnterShot(u) ==
    /\ pc[u] = "idle" /\ u \in Shots
    /\ lock = None
    /\ browser # None
    /\ Goto(u, "page")
    /\ UNCHANGED <<launcher, shared, tab, expired>>

EnterInit(u) ==
    /\ pc[u] = "idle" /\ u \in Shots
    /\ lock = None
    /\ browser = None
    /\ lock' = u
    /\ dir' = dir + 1
    /\ dirs' = dirs \cup {dir'}
    /\ retried' = FALSE
    /\ Goto(u, "connect")
    /\ UNCHANGED <<launcher, browser, used, gaveUp, tab, expired>>

(* The directory cannot be made, or not be given to the user. *)
EnterFails(u) ==
    /\ pc[u] = "idle" /\ u \in Shots
    /\ lock = None
    /\ browser = None
    /\ \E made \in BOOLEAN :
         /\ dir' = IF made THEN dir + 1 ELSE dir
         /\ dirs' = IF made THEN dirs \cup {dir'} ELSE dirs
         /\ gaveUp' = (gaveUp \/ made)
    /\ Goto(u, "finished")
    /\ UNCHANGED <<launcher, lock, browser, used, retried, tab, expired>>

(* Connect makes a launcher, whose Launch starts or fails at once. *)
Connect(u) ==
    /\ pc[u] = "connect"
    /\ used < MaxLaunch
    /\ used' = used + 1
    /\ Start(used') \/ (LaunchEarly(used') /\ launcher'[used'].outcome = "error")
    /\ Goto(u, "launch")
    /\ UNCHANGED <<lock, browser, retried, dir, dirs, gaveUp, tab, expired>>

(* No launcher can be made. *)
ConnectFails(u) ==
    /\ pc[u] = "connect"
    /\ DeleteProfileDir
    /\ lock' = None
    /\ Goto(u, "finished")
    /\ UNCHANGED <<launcher, browser, used, retried, dir, gaveUp, tab, expired>>

Launched(u) == pc[u] = "launch" /\ launcher[used].call = "returned"

TryAgain(u) ==
    /\ Launched(u)
    /\ launcher[used].outcome = "nosandbox"
    /\ ~retried
    /\ retried' = TRUE
    /\ Goto(u, "connect")
    /\ UNCHANGED <<launcher, lock, browser, used, dir, dirs, gaveUp, tab, expired>>

Connected(u) ==
    /\ Launched(u)
    /\ launcher[used].outcome = "url"
    /\ IsUp(used)
    /\ browser' = used
    /\ lock' = None
    /\ Goto(u, "page")
    /\ UNCHANGED <<launcher, used, retried, dir, dirs, gaveUp, tab, expired>>

(* Mistake: the error path forgets the lock. *)
InitFailsLocked(u) ==
    /\ Launched(u)
    /\ ~(launcher[used].outcome = "nosandbox" /\ ~retried)
    /\ gaveUp' = (gaveUp \/ launcher[used].resolved)
    /\ DeleteProfileDir
    /\ Goto(u, "finished")
    /\ UNCHANGED <<launcher, browser, used, lock, retried, dir, tab, expired>>

(* Launch failed, or the client cannot connect to what it started; cleanup *)
(* finds no browser in the Webshot and removes the directory only.         *)
InitFails(u) ==
    /\ Launched(u)
    /\ ~(launcher[used].outcome = "nosandbox" /\ ~retried)
    /\ gaveUp' = (gaveUp \/ launcher[used].resolved)
    /\ DeleteProfileDir
    /\ lock' = None
    /\ Goto(u, "finished")
    /\ UNCHANGED <<launcher, browser, used, retried, dir, tab, expired>>

-----------------------------------------------------------------------------
(* The rest of Screenshot, without the lock *)

(* A method of the nil Browser panics. *)
Panic(u) ==
    /\ pc[u] = "page"
    /\ browser = None
    /\ Goto(u, "panicked")
    /\ UNCHANGED <<launcher, shared, tab, expired>>

OpenTab(u) ==
    /\ pc[u] = "page"
    /\ browser # None
    /\ \/ /\ IsUp(browser) /\ u \notin expired
          /\ tab' = [tab EXCEPT ![u] = browser]
          /\ Goto(u, "shoot")
       \/ UNCHANGED tab /\ Goto(u, "finished")
    /\ UNCHANGED <<launcher, shared, expired>>

(* Navigation and captures succeed or fail; then the deferred Close, which *)
(* the browser obeys while the page's context lasts.                       *)
CloseTab(u) ==
    /\ pc[u] = "shoot"
    /\ tab' = [tab EXCEPT ![u] = IF u \in expired THEN @ ELSE None]
    /\ Goto(u, "finished")
    /\ UNCHANGED <<launcher, shared, expired>>

Expire(u) ==
    /\ pc[u] \in {"page", "shoot"}
    /\ u \notin expired
    /\ expired' = expired \cup {u}
    /\ UNCHANGED <<launcher, pc, shared, tab>>

-----------------------------------------------------------------------------
(* Cleanup, with the lock *)

EnterCleanup(u) ==
    /\ pc[u] = "idle" /\ u \in Cleaners
    /\ lock = None
    /\ lock' = u
    /\ Goto(u, "cleanup")
    /\ UNCHANGED <<launcher, browser, used, retried, dir, dirs, gaveUp, tab, expired>>

CleanupBrowser(u) ==
    /\ pc[u] = "cleanup"
    /\ browser # None
    /\ CleanupCancel(browser)
    /\ Goto(u, "cleaning")
    /\ UNCHANGED <<shared, tab, expired>>

(* After the launcher's Cleanup, Close finds nobody to talk to. *)
ForgetBrowser(u) ==
    /\ pc[u] = "cleaning"
    /\ launcher[browser].cleanup = "returned"
    /\ browser' = None
    /\ Goto(u, "cleanup")
    /\ UNCHANGED <<launcher, lock, used, retried, dir, dirs, gaveUp, tab, expired>>

CleanupDir(u) ==
    /\ pc[u] = "cleanup"
    /\ browser = None
    /\ DeleteProfileDir
    /\ lock' = None
    /\ Goto(u, "finished")
    /\ UNCHANGED <<launcher, browser, used, retried, dir, gaveUp, tab, expired>>

-----------------------------------------------------------------------------
Enter(u) == EnterShot(u) \/ EnterInit(u) \/ EnterFails(u) \/ EnterCleanup(u)

Step(u) ==
    \/ Connect(u) \/ ConnectFails(u) \/ TryAgain(u) \/ Connected(u)
    \/ InitFails(u) \/ Panic(u) \/ OpenTab(u) \/ CloseTab(u)
    \/ CleanupBrowser(u) \/ ForgetBrowser(u) \/ CleanupDir(u)

(* Only what Connect has started runs, prints and dies. *)
Run(l) ==
    /\ Works(l) \/ Happens(l)
    /\ UNCHANGED <<pc, shared, tab, expired>>

Next ==
    \/ \E u \in Users : Enter(u) \/ Step(u) \/ Expire(u)
    \/ \E l \in Launchers : Run(l)

(* Every goroutine takes its steps, and the lock in its turn. *)
Fairness ==
    /\ \A u \in Users : WF_vars(Step(u)) /\ SF_vars(Enter(u))
    /\ LaunchFairness

FairSpec == Init /\ [][Next]_vars /\ Fairness

-----------------------------------------------------------------------------
TypeOK ==
    /\ TypeOKLaunch
    /\ pc \in [Users -> {"idle", "connect", "launch", "page", "shoot",
                         "cleanup", "cleaning", "finished", "panicked"}]
    /\ lock \in Users \cup {None}
    /\ \A u \in Users :
         pc[u] \in {"connect", "launch", "cleanup", "cleaning"} <=> lock = u
    /\ browser \in Launchers \cup {None}
    /\ dirs \subseteq 1..dir
    /\ tab \in [Users -> Launchers \cup {None}]
    /\ expired \subseteq Shots

(* No browser runs but the one that the next screenshot uses or that is    *)
(* being started, retries included, and no directory is left when there is *)
(* none ("this requires a call to cleanup() if it doesn't error",          *)
(* chrome.go:246), unless an Init failed before its Launch or after it.  A *)
(* tab outlives its screenshot only when the page's context was over by    *)
(* the time of the deferred Close.  A goroutine panics only if it came     *)
(* between another's Cleanup and the next Init.                            *)
NothingLeft ==
    /\ TypeOK
    /\ ~gaveUp =>
         /\ \A l \in 1..used : IsUp(l) => l = browser \/ (lock # None /\ l = used)
         /\ lock = None /\ browser = None => dirs = {}
    /\ \A u \in Shots :
         /\ pc[u] = "finished" /\ tab[u] # None /\ IsUp(tab[u]) => u \in expired
         /\ pc[u] = "panicked" => \E c \in Cleaners : pc[c] = "finished" \/ lock = c

(* Every goroutine returns or panics, whatever becomes of the browsers.    *)
CallersReturn == <>[]\A u \in Users : pc[u] \in {"finished", "panicked"}
=============================================================================
