------------------------------ MODULE JSContext ------------------------------
(***************************************************************************)
(* Page.Evaluate, run by several goroutines on a page that navigates.      *)
(*                                                                         *)
(* Every call into the page needs the object id of its window, which the   *)
(* page and its clones share and which dies with the document; and a       *)
(* helper function that is installed in the window once and whose object   *)
(* id each Page object caches by window.  The browser refuses an id of an  *)
(* earlier document.  Evaluate means to forget the window then and to      *)
(* begin again, but errors.Is finds no ErrCtxNotFound in what the client   *)
(* returns: cdp.Error.Is compares pointers, and every response is decoded  *)
(* into an error of its own.  The error goes to the caller and the window  *)
(* stays.  Only Navigate and Reload forget it.                             *)
(*                                                                         *)
(* A request takes effect in the browser and the goroutine acts on the     *)
(* response in a later step; the request for the window is sent with the   *)
(* lock of the window's id held.  Clones are taken before the page has     *)
(* helpers, so that two Page objects do not share a map of them.  The page *)
(* is not an iframe and the helper needs no other.  One goroutine          *)
(* navigates; the evaluation that a Reload begins with is an evaluator's.  *)
(***************************************************************************)
EXTENDS Naturals, Sequences

CONSTANTS
    Evaluators,     \* goroutines that call Evaluate, one call after the other
    Pages,          \* the Page objects: a page and its clones
    Sharings,       \* which Page object each goroutine may be using
    MaxDocument,    \* bound: how many documents the page has in turn
    MaxNavigations, \* bound: how many times Navigate succeeds
    None            \* no goroutine: a free lock

ASSUME JSContextAssumption ==
    /\ Sharings \subseteq [Evaluators -> Pages]
    /\ MaxDocument \in Nat \ {0}
    /\ MaxNavigations \in Nat
    /\ None \notin Evaluators

VARIABLES
    pageOf,         \* pageOf[g]: the Page object that g uses
    document,       \* the browser: the number of the current document
    windows,        \* windows[i]: the document of the window with object id i
    jsCtxID,        \* Page.jsCtxID, 0 for the empty string
    lock,           \* Page.jsCtxLock, while a request for the window is under way
    helpers,        \* helpers[o]: Page.helpers of o, by object id of a window;
                    \* a nil map is one without entries
    navigator,      \* "idle", or "unset" before the last step of Navigate
    navigations,    \* how many times the browser has answered Navigate
    since,          \* history: the document when it last did
    pc,             \* pc[g]: where Evaluate is
    stage,          \* stage[g]: what it is about: "functions", "helper", "main"
    ctx,            \* ctx[g]: the window it got last
    held,           \* held[g]: the documents of the functions it has got
    cancelled       \* cancelled[g]: the context of g is done

shared == <<jsCtxID, lock, helpers>>
navigation == <<navigator, navigations, since>>
vars == <<pageOf, document, windows, shared, navigation, pc, stage, ctx, held, cancelled>>

(* The object that all helpers hang from, and the helper itself.           *)
Names == {"functions", "helper"}

NothingHeld == [n \in Names |-> 0]

NoHelpers == [i \in {} |-> {}]

Alive(i) == windows[i] = document

Init ==
    /\ pageOf \in Sharings
    /\ document = 1
    /\ windows = << >>
    /\ jsCtxID = 0
    /\ lock = None
    /\ helpers = [o \in Pages |-> NoHelpers]
    /\ navigator = "idle"
    /\ navigations = 0
    /\ since = 1
    /\ pc = [g \in Evaluators |-> "idle"]
    /\ stage = [g \in Evaluators |-> "functions"]
    /\ ctx = [g \in Evaluators |-> 0]
    /\ held = [g \in Evaluators |-> NothingHeld]
    /\ cancelled = [g \in Evaluators |-> FALSE]

Goto(g, where) == pc' = [pc EXCEPT ![g] = where]

-----------------------------------------------------------------------------
(* getJSCtxID, before the helper is looked up and before the main call *)

(* Where Evaluate goes on once it has a window. *)
AfterWindow(g) == IF stage[g] = "main" THEN "main" ELSE "look"

(* Evaluate is called, for the first time or again.  Bound of the model: a *)
(* goroutine whose context is done does not call it any more.              *)
Begin(g) ==
    /\ pc[g] \in {"idle", "returned", "lost", "refused"}
    /\ ~cancelled[g]
    /\ Goto(g, "window?")
    /\ stage' = [stage EXCEPT ![g] = "functions"]
    /\ ctx' = [ctx EXCEPT ![g] = 0]
    /\ held' = [held EXCEPT ![g] = NothingHeld]
    /\ UNCHANGED <<pageOf, document, windows, shared, navigation, cancelled>>

WindowKnown(g) ==
    /\ pc[g] = "window?"
    /\ lock = None
    /\ jsCtxID # 0
    /\ ctx' = [ctx EXCEPT ![g] = jsCtxID]
    /\ Goto(g, AfterWindow(g))
    /\ UNCHANGED <<pageOf, document, windows, shared, navigation, stage, held, cancelled>>

(* Mistake: the lock is not held over the request. *)
WindowAskUnlocked(g) ==
    /\ pc[g] = "window?"
    /\ lock = None
    /\ jsCtxID = 0
    /\ Goto(g, "window")
    /\ UNCHANGED <<pageOf, document, windows, shared, navigation, stage, ctx, held, cancelled>>

(* The lock is held until the response, or the end of the context, comes.  *)
WindowAsk(g) ==
    /\ pc[g] = "window?"
    /\ lock = None
    /\ jsCtxID = 0
    /\ lock' = g
    /\ Goto(g, "window")
    /\ UNCHANGED <<pageOf, document, windows, jsCtxID, helpers, navigation, stage, ctx, held,
                   cancelled>>

(* The browser gives the window of its document a new object id. *)
WindowAnswer(g) ==
    /\ pc[g] = "window"
    /\ windows' = Append(windows, document)
    /\ ctx' = [ctx EXCEPT ![g] = Len(windows')]
    /\ Goto(g, "answered")
    /\ UNCHANGED <<pageOf, document, shared, navigation, stage, held, cancelled>>

(* Mistake: the helpers of every clone are reset. *)
WindowStoreResetsAll(g) ==
    /\ pc[g] = "answered"
    /\ jsCtxID' = ctx[g]
    /\ helpers' = [o \in Pages |-> NoHelpers]
    /\ lock' = None
    /\ Goto(g, AfterWindow(g))
    /\ UNCHANGED <<pageOf, document, windows, navigation, stage, ctx, held, cancelled>>

(* The id is shared, and the Page object of g has no helpers any more.     *)
WindowStore(g) ==
    /\ pc[g] = "answered"
    /\ jsCtxID' = ctx[g]
    /\ helpers' = [helpers EXCEPT ![pageOf[g]] = NoHelpers]
    /\ lock' = None
    /\ Goto(g, AfterWindow(g))
    /\ UNCHANGED <<pageOf, document, windows, navigation, stage, ctx, held, cancelled>>

-----------------------------------------------------------------------------
(* ensureJSHelper, for the functions object and then for the helper *)

(* With a helper the next stage begins; the main call asks for the window  *)
(* again and may get another one.                                          *)
Advance(g) ==
    IF stage[g] = "functions"
    THEN stage' = [stage EXCEPT ![g] = "helper"] /\ Goto(g, "look")
    ELSE stage' = [stage EXCEPT ![g] = "main"] /\ Goto(g, "window?")

(* The helpers of Page object o by window, as getHelper leaves them: with  *)
(* an entry for window i.                                                  *)
WithEntry(o, i) ==
    [j \in DOMAIN helpers[o] \cup {i} |->
        IF j \in DOMAIN helpers[o] THEN helpers[o][j] ELSE {}]

Look(g) ==
    /\ pc[g] = "look"
    /\ LET o == pageOf[g]
           found == {d \in 1..MaxDocument : <<stage[g], d>> \in WithEntry(o, ctx[g])[ctx[g]]}
       IN /\ helpers' = [helpers EXCEPT ![o] = WithEntry(o, ctx[g])]
          /\ \/ /\ found = {}
                /\ Goto(g, "call")
                /\ UNCHANGED <<held, stage>>
             \/ /\ \E d \in found : held' = [held EXCEPT ![g][stage[g]] = d]
                /\ Advance(g)
    /\ UNCHANGED <<pageOf, document, windows, jsCtxID, lock, navigation, ctx, cancelled>>

(* The browser makes the function in the window, if that still exists, and *)
(* finds no context of that id otherwise.                                  *)
Call(g) ==
    /\ pc[g] = "call"
    /\ IF Alive(ctx[g])
       THEN held' = [held EXCEPT ![g][stage[g]] = document] /\ Goto(g, "store")
       ELSE Goto(g, "lost") /\ UNCHANGED held
    /\ UNCHANGED <<pageOf, document, windows, shared, navigation, stage, ctx, cancelled>>

(* Mistake: the id is stored for the window the page has now. *)
StoreForCurrent(g) ==
    /\ pc[g] = "store"
    /\ LET o == pageOf[g] IN
         IF jsCtxID \in DOMAIN helpers[o]
         THEN /\ helpers' = [helpers EXCEPT ![o][jsCtxID] =
                               @ \cup {<<stage[g], held[g][stage[g]]>>}]
              /\ Advance(g)
         ELSE Goto(g, "panicked") /\ UNCHANGED <<helpers, stage>>
    /\ UNCHANGED <<pageOf, document, windows, jsCtxID, lock, navigation, ctx, held, cancelled>>

(* setHelper writes to the entry getHelper made.  When the helpers were    *)
(* reset in between there is none, and a write to a nil map panics.        *)
Store(g) ==
    /\ pc[g] = "store"
    /\ LET o == pageOf[g] IN
         IF ctx[g] \in DOMAIN helpers[o]
         THEN /\ helpers' = [helpers EXCEPT ![o][ctx[g]] =
                               @ \cup {<<stage[g], held[g][stage[g]]>>}]
              /\ Advance(g)
         ELSE Goto(g, "panicked") /\ UNCHANGED <<helpers, stage>>
    /\ UNCHANGED <<pageOf, document, windows, jsCtxID, lock, navigation, ctx, held, cancelled>>

-----------------------------------------------------------------------------
(* The main call, and the end of the context *)

(* The helper may be of an earlier document than the window, which was     *)
(* taken anew: that is another error than the one for a lost window.       *)
Main(g) ==
    /\ pc[g] = "main"
    /\ \/ ~Alive(ctx[g]) /\ Goto(g, "lost")
       \/ Alive(ctx[g]) /\ held[g].helper # document /\ Goto(g, "refused")
       \/ Alive(ctx[g]) /\ held[g].helper = document /\ Goto(g, "returned")
    /\ UNCHANGED <<pageOf, document, windows, shared, navigation, stage, ctx, held, cancelled>>

HoldsLock(g) == pc[g] \in {"window", "answered"}

(* Mistake: the error is returned with the lock held. *)
GiveUpLocked(g) ==
    /\ cancelled[g]
    /\ HoldsLock(g) \/ pc[g] \in {"call", "main"}
    /\ Goto(g, "failed")
    /\ UNCHANGED <<pageOf, document, windows, shared, navigation, stage, ctx, held, cancelled>>

(* A request returns the error of a context that is done. *)
GiveUp(g) ==
    /\ cancelled[g]
    /\ HoldsLock(g) \/ pc[g] \in {"call", "main"}
    /\ lock' = IF HoldsLock(g) THEN None ELSE lock
    /\ Goto(g, "failed")
    /\ UNCHANGED <<pageOf, document, windows, jsCtxID, helpers, navigation, stage, ctx, held,
                   cancelled>>

Ended(g) == pc[g] \in {"returned", "lost", "refused", "failed", "panicked"}

Cancel(g) ==
    /\ ~cancelled[g]
    /\ ~Ended(g)
    /\ cancelled' = [cancelled EXCEPT ![g] = TRUE]
    /\ UNCHANGED <<pageOf, document, windows, shared, navigation, pc, stage, ctx, held>>

-----------------------------------------------------------------------------
(* Navigation *)

(* The browser has another document: the page was navigated, by Navigate   *)
(* or Reload, by a link or by a script.                                    *)
Commit ==
    /\ document < MaxDocument
    /\ document' = document + 1
    /\ UNCHANGED <<pageOf, windows, shared, navigation, pc, stage, ctx, held, cancelled>>

(* The browser answers Navigate, "immediately after the server responds    *)
(* the http header" (page.go:169), when it has the new document or before. *)
Navigate ==
    /\ navigator = "idle"
    /\ navigations < MaxNavigations
    /\ navigator' = "unset"
    /\ navigations' = navigations + 1
    /\ since' = document
    /\ UNCHANGED <<pageOf, document, windows, shared, pc, stage, ctx, held, cancelled>>

(* The last step of Navigate, and of Reload: the window is forgotten.      *)
NavigateUnset ==
    /\ navigator = "unset"
    /\ lock = None
    /\ jsCtxID' = 0
    /\ navigator' = "idle"
    /\ UNCHANGED <<pageOf, document, windows, lock, helpers, navigations, since, pc, stage, ctx,
                   held, cancelled>>

-----------------------------------------------------------------------------
(* The steps of g that wait for no response of the browser. *)
LocalStep(g) ==
    \/ WindowKnown(g)
    \/ WindowAsk(g)
    \/ Look(g)
    \/ Store(g)
    \/ WindowStore(g)
    \/ GiveUp(g)

ResponseStep(g) ==
    \/ WindowAnswer(g)
    \/ Call(g)
    \/ Main(g)

Next ==
    \/ \E g \in Evaluators : Begin(g) \/ LocalStep(g) \/ ResponseStep(g) \/ Cancel(g)
    \/ Commit
    \/ Navigate
    \/ NavigateUnset

Spec == Init /\ [][Next]_vars

(* Goroutines run and the browser answers.  No context has to end and no   *)
(* page has to navigate.                                                   *)
FairSpec ==
    /\ Spec
    /\ WF_vars(NavigateUnset)
    /\ \A g \in Evaluators : WF_vars(LocalStep(g) \/ ResponseStep(g))

-----------------------------------------------------------------------------
(* Every variable holds a value of its type; the lock is held by the       *)
(* goroutine that asks for the window, and by nobody else.                 *)
TypeOK ==
    /\ pageOf \in Sharings
    /\ document \in 1..MaxDocument
    /\ windows \in Seq(1..MaxDocument)
    /\ jsCtxID \in 0..Len(windows)
    /\ lock \in Evaluators \cup {None}
    /\ \A o \in Pages : \A i \in DOMAIN helpers[o] :
         i \in 1..Len(windows) /\ helpers[o][i] \subseteq Names \X (1..MaxDocument)
    /\ navigator \in {"idle", "unset"}
    /\ navigations \in 0..MaxNavigations
    /\ since \in 1..document
    /\ pc \in [Evaluators -> {"idle", "window?", "window", "answered", "look", "call", "store",
                              "main", "returned", "lost", "refused", "failed", "panicked"}]
    /\ stage \in [Evaluators -> {"functions", "helper", "main"}]
    /\ ctx \in [Evaluators -> 0..Len(windows)]
    /\ held \in [Evaluators -> [Names -> 0..MaxDocument]]
    /\ cancelled \in [Evaluators -> BOOLEAN]
    /\ \A g \in Evaluators : lock = g <=> HoldsLock(g)

(* What is cached for a window belongs to that window's document: a helper *)
(* is never looked up for one document and found for another, although     *)
(* responses are stored long after the window has been replaced.           *)
CacheSound ==
    /\ TypeOK
    /\ \A o \in Pages : \A i \in DOMAIN helpers[o] : \A entry \in helpers[o][i] :
         entry[2] = windows[i]

(* What a goroutine has made in its window, which the browser may have     *)
(* replaced since, is of that window's document; whoever has an answer,    *)
(* looks for a helper or makes one has had a window.                       *)
MadeInWindow ==
    \A g \in Evaluators :
        /\ pc[g] = "answered" => ctx[g] \in 1..Len(windows)
        /\ pc[g] \in {"look", "call", "store"} =>
             stage[g] \in Names /\ ctx[g] \in 1..Len(windows)
        /\ pc[g] = "store" => held[g][stage[g]] = windows[ctx[g]]

CacheInv == CacheSound /\ MadeInWindow /\ DOMAIN helpers = Pages

Panicked == \E g \in Evaluators : pc[g] = "panicked"

(* Evaluators on clones of one page do not make each other panic, although *)
(* they share the window that the helpers are filed under, and whoever     *)
(* fetches it anew resets helpers.                                         *)
ClonesSafe == (\A g, h \in Evaluators : g # h => pageOf[g] # pageOf[h]) => ~Panicked

(* When Navigate has returned, the page has no window of a document from   *)
(* before the browser's answer: no goroutine that had asked for the window *)
(* earlier puts it back.  It would stay, as no error makes a page forget   *)
(* its window.                                                             *)
WindowFresh == navigator = "idle" /\ jsCtxID # 0 => windows[jsCtxID] >= since

(* Every Evaluate ends, with a result or an error, although the lock of    *)
(* the window is held over a request and awaited without a context: no end *)
(* of a context, however it comes, leaves the lock taken.                  *)
EvaluateReturns == \A g \in Evaluators : pc[g] = "window?" ~> Ended(g)

(* "js context will be invalid if a frame is reloaded or not ready, then   *)
(* the isNilContextErr will be true, then we retry the eval again"         *)
(* (page_eval.go:126): no evaluation ends because its window was lost.     *)
LostRetried == \A g \in Evaluators : pc[g] # "lost"
=============================================================================
