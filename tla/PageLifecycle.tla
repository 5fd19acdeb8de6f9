---------------------------- MODULE PageLifecycle ----------------------------
(***************************************************************************)
(* How pages come and go.  A Page object stands for one session with a     *)
(* target of the browser.  PageFromTarget attaches to a target or returns  *)
(* the Page object in the cache, PageWithContext creates the target first; *)
(* the session's own goroutine ends the session's context when it sees the *)
(* session detached; Close and ForceClose close the target and drop what   *)
(* the browser object has cached and recorded of the page.                 *)
(*                                                                         *)
(* Each user is a goroutine that gets a page of its target, then awaits a  *)
(* long operation, closes the page or force-closes it.  A target may also  *)
(* vanish on its own.  Events reach their listeners late but in order.     *)
(***************************************************************************)
EXTENDS Naturals, FiniteSets

CONSTANTS
    Targets,        \* the targets the browser can have
    Users,          \* goroutines
    Scenes,         \* who may deal with which target, and how
    None            \* no user (a free lock), no page

(* The users take part, and target[u] is the target u deals with; those in *)
(* creates make theirs, with PageWithContext; role[u] is what u does with  *)
(* the page.                                                               *)
Scene ==
    [users : SUBSET Users, target : [Users -> Targets], creates : SUBSET Users,
     role : [Users -> {"operate", "close", "force"}]]

ASSUME PageAssumption ==
    /\ Scenes \subseteq Scene
    /\ \A s \in Scenes : \A u, v \in s.creates : s.target[u] = s.target[v] => u = v
    /\ None \notin Users

(* A page is named by the user that attached it. *)
Pages == Users

VARIABLES
    scene,          \* the scene that is played
    target,         \* target[t]: "none", "open" or "gone"
    attached,       \* pages whose session the browser has
    lock,           \* Browser.targetsLock
    cache,          \* cache[t]: the page loadCachedPage returns, or None
    states,         \* pages with an entry of their session in Browser.states
    listening,      \* pages whose initEvents goroutine is subscribed
    notice,         \* pages to whose goroutine a detached event is on its way
    ended,          \* pages whose session context is done
    override,       \* pages whose ctx was replaced by that of a caller
    pc,             \* pc[u]: where u is
    page,           \* page[u]: the page u has got
    seen,           \* seen[u]: what the events of a closing user tell it
    result,         \* result[u]: what Close or ForceClose returned
    expired,        \* users that close with a context that has ended
    bound           \* users whose operation or close ends with the session

browser == <<target, attached>>
sessions == <<listening, notice, ended, override>>
user == <<pc, page, seen, result, expired, bound>>
vars == <<scene, browser, lock, cache, states, sessions, user>>

TargetOf(u) == scene.target[u]
Creates     == scene.creates
Role(u)     == scene.role[u]

Init ==
    /\ scene \in Scenes
    /\ target \in [Targets -> {"none", "open"}]
    /\ \A t \in Targets : target[t] = "none" <=> \E u \in Creates : TargetOf(u) = t
    /\ attached = {}
    /\ lock = None
    /\ cache = [t \in Targets |-> None]
    /\ states = {}
    /\ listening = {}
    /\ notice = {}
    /\ ended = {}
    /\ override = {}
    /\ pc = [u \in Users |-> "idle"]
    /\ page = [u \in Users |-> None]
    /\ seen = [u \in Users |-> "nothing"]
    /\ result = [u \in Users |-> "none"]
    /\ expired = {}
    /\ bound = {}

Goto(u, where) == pc' = [pc EXCEPT ![u] = where]

(* What u does has the context that its page had when u began: that of the *)
(* session, or of a caller of PageWithContext, which does not end here.    *)
Bind(u) == bound' = IF page[u] \in override THEN bound ELSE bound \cup {u}

(* The session's context is done, and u began with it. *)
Done(u) == u \in bound /\ page[u] \in ended

(* The browser ends target t: its sessions are detached, which those tell  *)
(* that listen by now, and users that await its end are told, too.         *)
Vanishes(t) ==
    LET lost == {p \in attached : TargetOf(p) = t} IN
    /\ target' = [target EXCEPT ![t] = "gone"]
    /\ attached' = attached \ lost
    /\ notice' = notice \cup (lost \cap listening)

(* Close's own subscription tells the users in its loop of the end of t.   *)
Told(t) ==
    [u \in Users |-> IF TargetOf(u) = t /\ pc[u] \in {"asked", "await"} /\ seen[u] = "nothing"
                     THEN "destroyed" ELSE seen[u]]

-----------------------------------------------------------------------------
(* PageWithContext and PageFromTargetWithContext *)

Create(u) ==
    /\ pc[u] = "idle"
    /\ u \in scene.users \cap Creates
    /\ target' = [target EXCEPT ![TargetOf(u)] = "open"]
    /\ Goto(u, "open?")
    /\ UNCHANGED <<scene, attached, lock, cache, states, sessions, page, seen, result, expired, bound>>

Find(u) ==
    /\ pc[u] = "idle"
    /\ u \in scene.users \ Creates
    /\ target[TargetOf(u)] # "none"
    /\ Goto(u, "open?")
    /\ UNCHANGED <<scene, browser, lock, cache, states, sessions, page, seen, result, expired, bound>>

(* Mistake: PageFromTarget does not take the lock. *)
LookUpUnlocked(u) ==
    /\ pc[u] = "open?"
    /\ page' = [page EXCEPT ![u] = cache[TargetOf(u)]]
    /\ Goto(u, IF page'[u] = None THEN "attach" ELSE "unlock")
    /\ UNCHANGED <<scene, browser, lock, cache, states, sessions, seen, result, expired, bound>>

LookUp(u) ==
    /\ pc[u] = "open?"
    /\ lock = None
    /\ lock' = u
    /\ page' = [page EXCEPT ![u] = cache[TargetOf(u)]]
    /\ Goto(u, IF page'[u] = None THEN "attach" ELSE "unlock")
    /\ UNCHANGED <<scene, browser, cache, states, sessions, seen, result, expired, bound>>

Attach(u) ==
    /\ pc[u] = "attach"
    /\ IF target[TargetOf(u)] = "open"
       THEN /\ attached' = attached \cup {u}
            /\ page' = [page EXCEPT ![u] = u]
            /\ Goto(u, "emulate")
       ELSE /\ Goto(u, "fail")
            /\ UNCHANGED <<attached, page>>
    /\ UNCHANGED <<scene, target, lock, cache, states, sessions, seen, result, expired, bound>>

(* Every request the browser serves is recorded under its session.         *)
Emulate(u) ==
    /\ pc[u] = "emulate"
    /\ u \in attached
    /\ states' = states \cup {u}
    /\ Goto(u, "publish")
    /\ UNCHANGED <<scene, browser, lock, cache, sessions, page, seen, result, expired, bound>>

(* No page is returned, but the session stays attached. *)
EmulateFail(u) ==
    /\ pc[u] = "emulate"
    /\ page' = [page EXCEPT ![u] = None]
    /\ Goto(u, "fail")
    /\ UNCHANGED <<scene, browser, lock, cache, states, sessions, seen, result, expired, bound>>

Publish(u) ==
    /\ pc[u] = "publish"
    /\ cache' = [cache EXCEPT ![TargetOf(u)] = u]
    /\ listening' = listening \cup {u}
    /\ Goto(u, "enable")
    /\ UNCHANGED <<scene, browser, lock, states, notice, ended, override, page, seen, result, expired, bound>>

(* The error of Page.enable is ignored. *)
EnablePage(u) ==
    /\ pc[u] = "enable"
    /\ states' = IF u \in attached THEN states \cup {u} ELSE states
    /\ Goto(u, "unlock")
    /\ UNCHANGED <<scene, browser, lock, cache, sessions, page, seen, result, expired, bound>>

Unlock(u) ==
    /\ pc[u] = "unlock"
    /\ lock' = None
    /\ Goto(u, IF u \in Creates THEN "adopt" ELSE "opened")
    /\ UNCHANGED <<scene, browser, cache, states, sessions, page, seen, result, expired, bound>>

(* PageWithContext gives the page the context of its caller, in place of   *)
(* the one that ends with the session, and navigates if it has an address. *)
Adopt(u) ==
    /\ pc[u] = "adopt"
    /\ override' = override \cup {page[u]}
    /\ \E where \in {"opened", "navigate"} : Goto(u, where)
    /\ UNCHANGED <<scene, browser, lock, cache, states, listening, notice, ended, page, seen, result, expired, bound>>

Navigate(u) ==
    /\ pc[u] = "navigate"
    /\ page[u] \in attached
    /\ Goto(u, "navigated")
    /\ UNCHANGED <<scene, browser, lock, cache, states, sessions, page, seen, result, expired, bound>>

NavigateRecord(u) ==
    /\ pc[u] = "navigated"
    /\ states' = states \cup {page[u]}
    /\ Goto(u, "opened")
    /\ UNCHANGED <<scene, browser, lock, cache, sessions, page, seen, result, expired, bound>>

NavigateFail(u) ==
    /\ pc[u] = "navigate"
    /\ Goto(u, "discard")
    /\ UNCHANGED <<scene, browser, lock, cache, states, sessions, page, seen, result, expired, bound>>

Fail(u) ==
    /\ pc[u] = "fail"
    /\ lock' = None
    /\ Goto(u, IF u \in Creates THEN "discard" ELSE "finished")
    /\ UNCHANGED <<scene, browser, cache, states, sessions, page, seen, result, expired, bound>>

(* The deferred TargetCloseTarget of PageWithContext: nothing else.        *)
Discard(u) ==
    /\ pc[u] = "discard"
    /\ Vanishes(TargetOf(u))
    /\ seen' = Told(TargetOf(u))
    /\ Goto(u, "finished")
    /\ UNCHANGED <<scene, lock, cache, states, listening, ended, override, page, result, expired, bound>>

-----------------------------------------------------------------------------
(* initEvents: the goroutine of a session *)

(* Mistake: the goroutine ends and leaves the session's context as it is.  *)
SessionEndsQuietly(p) ==
    /\ p \in notice
    /\ notice' = notice \ {p}
    /\ listening' = listening \ {p}
    /\ UNCHANGED <<scene, browser, lock, cache, states, ended, override, user>>

SessionEnds(p) ==
    /\ p \in notice
    /\ ended' = ended \cup {p}
    /\ notice' = notice \ {p}
    /\ listening' = listening \ {p}
    /\ UNCHANGED <<scene, browser, lock, cache, states, override, user>>

-----------------------------------------------------------------------------
(* A long operation *)

OperateStart(u) ==
    /\ pc[u] = "opened"
    /\ Role(u) = "operate"
    /\ Goto(u, IF page[u] \in attached THEN "operate" ELSE "finished")
    /\ Bind(u)
    /\ UNCHANGED <<scene, browser, lock, cache, states, sessions, page, seen, result, expired>>

(* The response arrives; Browser.Call goes on to record the request.       *)
OperateAnswer(u) ==
    /\ pc[u] = "operate"
    /\ page[u] \in attached
    /\ Goto(u, "record")
    /\ UNCHANGED <<scene, browser, lock, cache, states, sessions, page, seen, result, expired, bound>>

OperateRecord(u) ==
    /\ pc[u] = "record"
    /\ states' = states \cup {page[u]}
    /\ Goto(u, "finished")
    /\ UNCHANGED <<scene, browser, lock, cache, sessions, page, seen, result, expired, bound>>

OperateAbort(u) ==
    /\ pc[u] = "operate"
    /\ Done(u)
    /\ Goto(u, "finished")
    /\ UNCHANGED <<scene, browser, lock, cache, states, sessions, page, seen, result, expired, bound>>

-----------------------------------------------------------------------------
(* Close and ForceClose *)

(* What cleanupStates drops. *)
Cleanup(p) ==
    /\ cache' = [cache EXCEPT ![TargetOf(p)] = None]
    /\ states' = states \ {p}

CloseLock(u) ==
    /\ pc[u] = "opened"
    /\ Role(u) = "close"
    /\ lock = None
    /\ lock' = u
    /\ Goto(u, "request")
    /\ Bind(u)
    /\ UNCHANGED <<scene, browser, cache, states, sessions, page, seen, result, expired>>

CloseFailed(u) ==
    /\ lock' = None
    /\ result' = [result EXCEPT ![u] = "error"]
    /\ Goto(u, "finished")

(* PageClose, with its retries while the page is not active yet. *)
CloseRequest(u) ==
    /\ pc[u] = "request"
    /\ \/ page[u] \in attached /\ Goto(u, "asked") /\ UNCHANGED <<lock, result>>
       \/ page[u] \notin attached /\ CloseFailed(u)
    /\ UNCHANGED <<scene, browser, cache, states, sessions, page, seen, expired, bound>>

CloseRecord(u) ==
    /\ pc[u] = "asked"
    /\ states' = states \cup {page[u]}
    /\ Goto(u, "await")
    /\ UNCHANGED <<scene, browser, lock, cache, sessions, page, seen, result, expired, bound>>

(* The session or the context ended before the response. *)
CloseError(u) ==
    /\ pc[u] = "asked"
    /\ page[u] \notin attached \/ Done(u) \/ u \in expired
    /\ CloseFailed(u)
    /\ UNCHANGED <<scene, browser, cache, states, sessions, page, seen, expired, bound>>

(* The context that the user gave to Close, or ForceClose made, ends.      *)
Expire(u) ==
    /\ Role(u) # "operate"
    /\ pc[u] \in {"opened", "request", "asked", "await"}
    /\ u \notin expired
    /\ expired' = expired \cup {u}
    /\ UNCHANGED <<scene, browser, lock, cache, states, sessions, pc, page, seen, result, bound>>

(* The browser closes the page, or its beforeunload dialog is dismissed.   *)
PageCloses(u) ==
    /\ pc[u] \in {"asked", "await"}
    /\ target[TargetOf(u)] = "open"
    /\ seen[u] = "nothing"
    /\ Vanishes(TargetOf(u))
    /\ seen' = Told(TargetOf(u))
    /\ UNCHANGED <<scene, lock, cache, states, listening, ended, override, pc, page, result, expired, bound>>

PageStays(u) ==
    /\ pc[u] \in {"asked", "await"}
    /\ target[TargetOf(u)] = "open"
    /\ seen[u] = "nothing"
    /\ seen' = [seen EXCEPT ![u] = "dismissed"]
    /\ UNCHANGED <<scene, browser, lock, cache, states, sessions, pc, page, result, expired, bound>>

CloseReturn(u, outcome) ==
    /\ lock' = None
    /\ result' = [result EXCEPT ![u] = outcome]
    /\ Goto(u, "finished")

(* Mistake: a dismissed dialog is taken for the end of the page. *)
CloseSeesAny(u) ==
    /\ pc[u] = "await"
    /\ seen[u] # "nothing"
    /\ Cleanup(page[u])
    /\ CloseReturn(u, "closed")
    /\ UNCHANGED <<scene, browser, sessions, page, seen, expired, bound>>

(* Mistake: the page stays in the cache. *)
CloseKeepsCache(u) ==
    /\ pc[u] = "await"
    /\ seen[u] = "destroyed"
    /\ CloseReturn(u, "closed")
    /\ UNCHANGED <<scene, browser, cache, states, sessions, page, seen, expired, bound>>

CloseDestroyed(u) ==
    /\ pc[u] = "await"
    /\ seen[u] = "destroyed"
    /\ Cleanup(page[u])
    /\ CloseReturn(u, "closed")
    /\ UNCHANGED <<scene, browser, sessions, page, seen, expired, bound>>

(* Mistake: Close returns early with the lock held. *)
CloseDismissedLocked(u) ==
    /\ pc[u] = "await"
    /\ seen[u] = "dismissed"
    /\ result' = [result EXCEPT ![u] = "canceled"]
    /\ Goto(u, "finished")
    /\ UNCHANGED <<scene, browser, lock, cache, states, sessions, page, seen, expired, bound>>

CloseDismissed(u) ==
    /\ pc[u] = "await"
    /\ seen[u] = "dismissed"
    /\ CloseReturn(u, "canceled")
    /\ UNCHANGED <<scene, browser, cache, states, sessions, page, seen, expired, bound>>

(* The events end with the page's context, and success is still true.      *)
CloseContextDone(u) ==
    /\ pc[u] = "await"
    /\ u \in expired \/ Done(u)
    /\ Cleanup(page[u])
    /\ CloseReturn(u, "closed")
    /\ UNCHANGED <<scene, browser, sessions, page, seen, expired, bound>>

(* TargetCloseTarget takes no notice of the page's context or of dialogs.  *)
ForceClose(u) ==
    /\ pc[u] = "opened"
    /\ Role(u) = "force"
    /\ Vanishes(TargetOf(u))
    /\ seen' = Told(TargetOf(u))
    /\ Goto(u, "cleanup")
    /\ UNCHANGED <<scene, lock, cache, states, listening, ended, override, page, result, expired, bound>>

(* No answer within the timeout. *)
ForceTimeout(u) ==
    /\ pc[u] = "opened"
    /\ Role(u) = "force"
    /\ u \in expired
    /\ result' = [result EXCEPT ![u] = "error"]
    /\ Goto(u, "cleanup")
    /\ UNCHANGED <<scene, browser, lock, cache, states, sessions, page, seen, expired, bound>>

(* The page is forgotten whatever became of it. *)
ForceCleanup(u) ==
    /\ pc[u] = "cleanup"
    /\ Cleanup(page[u])
    /\ result' = [result EXCEPT ![u] = IF @ = "error" THEN @ ELSE "closed"]
    /\ Goto(u, "finished")
    /\ UNCHANGED <<scene, browser, lock, sessions, page, seen, expired, bound>>

-----------------------------------------------------------------------------
(* The target crashes, or its window is closed by somebody else.           *)
Vanish(t) ==
    /\ target[t] = "open"
    /\ Vanishes(t)
    /\ seen' = Told(t)
    /\ UNCHANGED <<scene, lock, cache, states, listening, ended, override, pc, page, result, expired, bound>>

OpenStep(u) ==
    \/ Create(u) \/ Find(u) \/ LookUp(u) \/ Attach(u) \/ Emulate(u) \/ EmulateFail(u)
    \/ Publish(u) \/ EnablePage(u) \/ Unlock(u) \/ Adopt(u) \/ Navigate(u)
    \/ NavigateRecord(u) \/ NavigateFail(u) \/ Fail(u) \/ Discard(u)

CloseStep(u) ==
    \/ CloseLock(u) \/ CloseRequest(u) \/ CloseRecord(u) \/ CloseError(u)
    \/ CloseDestroyed(u) \/ CloseDismissed(u) \/ CloseContextDone(u)
    \/ ForceClose(u) \/ ForceTimeout(u) \/ ForceCleanup(u)

(* What u does next, the browser's answer to its PageClose included, but   *)
(* not the answer to its operation.                                        *)
Progress(u) ==
    \/ OpenStep(u)
    \/ CloseStep(u)
    \/ OperateStart(u) \/ OperateRecord(u) \/ OperateAbort(u)
    \/ PageCloses(u) \/ PageStays(u)

Next ==
    \/ \E u \in Users :
         \/ Progress(u)
         \/ OperateAnswer(u)
         \/ Expire(u)
    \/ \E p \in Pages : SessionEnds(p)
    \/ \E t \in Targets : Vanish(t)

Spec == Init /\ [][Next]_vars

(* Goroutines run, and the browser decides what becomes of a page that is  *)
(* asked to close.  An operation need never be answered.  A sync.Mutex     *)
(* serves whoever waits for it: strong fairness for taking the lock.       *)
FairSpec ==
    /\ Spec
    /\ \A u \in Users :
         /\ WF_vars(Progress(u))
         /\ SF_vars(LookUp(u) \/ CloseLock(u))
    /\ \A p \in Pages : WF_vars(SessionEnds(p))

-----------------------------------------------------------------------------
(* Every variable holds a value of its type, and whoever is inside         *)
(* PageFromTarget or Close holds the lock.                                 *)
TypeOK ==
    /\ scene \in Scenes
    /\ target \in [Targets -> {"none", "open", "gone"}]
    /\ attached \subseteq Pages
    /\ lock \in Users \cup {None}
    /\ cache \in [Targets -> Pages \cup {None}]
    /\ states \subseteq Pages
    /\ listening \subseteq Pages
    /\ notice \subseteq listening
    /\ ended \subseteq Pages
    /\ override \subseteq Pages
    /\ page \in [Users -> Pages \cup {None}]
    /\ seen \in [Users -> {"nothing", "destroyed", "dismissed"}]
    /\ result \in [Users -> {"none", "closed", "canceled", "error"}]
    /\ expired \subseteq Users
    /\ bound \subseteq Users
    /\ \A u \in Users :
         pc[u] \in {"attach", "emulate", "publish", "enable", "unlock", "fail",
                    "request", "asked", "await"} <=> lock = u

(* Concurrent users of one target share one session: no two of them attach *)
(* to it, so that each sees the states and events of the others' page.  A  *)
(* close whose context ended may have made the browser forget a page that  *)
(* is still open; then the next user attaches anew.                        *)
OneSession ==
    /\ TypeOK
    /\ \A p, q \in attached :
         /\ TargetOf(p) = TargetOf(q)
         /\ page[p] = p /\ page[q] = q
         /\ \A u \in expired : TargetOf(u) # TargetOf(p)
         => p = q

(* Close without an error means that the page is gone ("Close tries to     *)
(* close page", page.go:318), whoever ended it, unless the closing user's  *)
(* own context ended meanwhile.                                            *)
ClosedIsGone ==
    \A u \in Users :
        result[u] = "closed" /\ ~(Role(u) = "close" /\ u \in expired)
            => target[TargetOf(u)] = "gone"

Quiet == \A u \in Users : pc[u] \in {"idle", "finished"}

(* Nobody recorded a request of page p after a close of it: its users only *)
(* closed it, and a navigation of the one that made it came before that.   *)
OnlyClosed(p) ==
    \A v \in Users : page[v] = p =>
        result[v] = "closed" \/ (result[v] = "error" /\ v \notin Creates)

(* Nothing is kept of a page that was closed ("accumulate one entry per    *)
(* CDP call forever. Call this on page close to release that memory",      *)
(* states.go:64-65), however many close it at once and whichever of them   *)
(* fails, if no other request on it is answered meanwhile: that one is     *)
(* recorded late.                                                          *)
NothingKept ==
    Quiet => \A u \in Users : result[u] = "closed" /\ OnlyClosed(page[u]) =>
        /\ page[u] \notin states
        /\ cache[TargetOf(u)] # page[u]

Operating(u) == pc[u] = "operate" /\ target[TargetOf(u)] = "gone"

(* When a page is closed by anybody, all ongoing operations on it end that *)
(* began with the context of its session.                                  *)
OperationsAbort ==
    \A u \in Users :
        Operating(u) /\ u \in bound ~> pc[u] \in {"record", "finished"}

(* What the comment says of every page ("When a page is closed by Rod or   *)
(* not all the ongoing operations an events on it will abort", page.go:34). *)
EveryOperationAborts ==
    \A u \in Users : Operating(u) ~> pc[u] \in {"record", "finished"}

(* Close and PageFromTarget get through, although each holds the lock of   *)
(* all pages while it waits for the browser.                               *)
UsersReturn ==
    \A u \in Users : pc[u] = "open?" ~> pc[u] \in {"operate", "finished"}
=============================================================================
