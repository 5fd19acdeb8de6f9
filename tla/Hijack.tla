------------------------------- MODULE Hijack -------------------------------
(***************************************************************************)
(* A HijackRouter: the browser pauses the requests that match a pattern    *)
(* and emits an event for each, the router's loop starts one goroutine per *)
(* event, and that goroutine runs the handlers that match the request's    *)
(* URL, in the order they were added, and answers the request as they say. *)
(*                                                                         *)
(* The owner of the router makes it, which switches interception on and    *)
(* then subscribes to the events, adds and removes handlers, runs it in a  *)
(* goroutine and stops it.  Handlers are the users' code: what one decides *)
(* for a request is any of its Verdicts.  The pipe of events between the    *)
(* subscription and the loop is the one module Goob proves faithful.       *)
(***************************************************************************)
EXTENDS Naturals, Sequences, SequencesExt

CONSTANTS
    Requests,       \* the requests the page makes
    Handlers,       \* the handlers the owner may add, each with a pattern
    Url,            \* Url[h]: the requests whose URL the pattern matches
    Typed,          \* Typed[h]: those that are of the resource type of h, too
    Verdicts,       \* Verdicts[h]: what h may decide for a request
    Needed          \* the handlers a careful owner adds before Run

ASSUME HijackAssumption ==
    /\ Url \in [Handlers -> SUBSET Requests]
    /\ Typed \in [Handlers -> SUBSET Requests]
    /\ \A h \in Handlers : Typed[h] \subseteq Url[h]
    /\ Verdicts \in [Handlers -> SUBSET {"continue", "skip", "fail", "fulfill"}]
    /\ Needed \subseteq Handlers

VARIABLES
    careful,        \* whether the owner adds what is Needed before Run, removes
                    \* none, and lets the page make requests only after Run
    router,         \* where the owner is with the router
    loop,           \* the loop of Run: "none", "running" or "ended"
    handlers,       \* HijackRouter.handlers
    patterns,       \* HijackRouter.enable.Patterns, as the sets they match
    fetch,          \* the browser intercepts requests
    active,         \* the patterns it has been given
    state,          \* state[r]: the request, as the browser sees it
    queue,          \* the events on their way to the loop
    missed,         \* requests whose event found nobody subscribed
    pc,             \* pc[r]: where the goroutine of r is
    todo,           \* todo[r]: the handlers its loop has yet to look at
    ctx,            \* ctx[r]: the fields of its Hijack that handlers set
    chosen,         \* history: chosen[r]: the handlers run for r, with what they decided
    answers         \* history: how many answers were sent for r

owner   == <<careful, router, handlers, patterns>>
browser == <<fetch, active, state>>
worker  == <<pc, todo, ctx, chosen>>
vars == <<owner, loop, browser, queue, missed, worker, answers>>

Field == {"continue", "skip", "fail"}

Init ==
    /\ careful \in BOOLEAN
    /\ router = "new"
    /\ loop = "none"
    /\ handlers = << >>
    /\ patterns = {}
    /\ fetch = FALSE
    /\ active = {}
    /\ state = [r \in Requests |-> "idle"]
    /\ queue = << >>
    /\ missed = {}
    /\ pc = [r \in Requests |-> "none"]
    /\ todo = [r \in Requests |-> << >>]
    /\ ctx = [r \in Requests |-> {}]
    /\ chosen = [r \in Requests |-> {}]
    /\ answers = [r \in Requests |-> 0]

-----------------------------------------------------------------------------
(* The owner of the router *)

(* The router first switches interception on, with no pattern yet, and     *)
(* subscribes to the events afterwards.                                    *)
Enable ==
    /\ router = "new"
    /\ router' = "enabled"
    /\ fetch' = TRUE
    /\ active' = patterns
    /\ UNCHANGED <<careful, loop, handlers, patterns, state, queue, missed, worker, answers>>

Subscribe ==
    /\ router = "enabled"
    /\ router' = "subscribed"
    /\ UNCHANGED <<careful, loop, handlers, patterns, browser, queue, missed, worker, answers>>

(* Mistake: the pattern of the handler is not sent. *)
AddNoPattern(h) ==
    /\ router = "subscribed"
    /\ h \notin ToSet(handlers)
    /\ handlers' = Append(handlers, h)
    /\ active' = patterns
    /\ UNCHANGED <<careful, router, loop, patterns, fetch, state, queue, missed, worker, answers>>

AddHandler(h) ==
    /\ router = "subscribed"
    /\ h \notin ToSet(handlers)
    /\ handlers' = Append(handlers, h)
    /\ patterns' = patterns \cup {Typed[h]}
    /\ active' = patterns'
    /\ UNCHANGED <<careful, router, loop, fetch, state, queue, missed, worker, answers>>

(* The patterns that stay are made anew, without their resource types.     *)
RemoveHandler(h) ==
    /\ ~careful
    /\ router = "subscribed"
    /\ \E i \in 1..Len(handlers) :
         /\ handlers[i] = h
         /\ handlers' = RemoveAt(handlers, i)
    /\ patterns' = {Url[g] : g \in ToSet(handlers) \ {h}}
    /\ active' = patterns'
    /\ UNCHANGED <<careful, router, loop, fetch, state, queue, missed, worker, answers>>

Run ==
    /\ router = "subscribed"
    /\ careful => Needed \subseteq ToSet(handlers)
    /\ router' = "running"
    /\ loop' = "running"
    /\ UNCHANGED <<careful, handlers, patterns, browser, queue, missed, worker, answers>>

(* Stop ends the context of the subscription, then switches off.           *)
StopCancel ==
    /\ router \in {"subscribed", "running"}
    /\ router' = "stopping"
    /\ UNCHANGED <<careful, loop, handlers, patterns, browser, queue, missed, worker, answers>>

(* The browser lets go of what it still holds when interception is off.    *)
StopDisable ==
    /\ router = "stopping"
    /\ router' = "stopped"
    /\ fetch' = FALSE
    /\ state' = [r \in Requests |-> IF state[r] = "paused" THEN "released" ELSE state[r]]
    /\ UNCHANGED <<careful, loop, handlers, patterns, active, queue, missed, worker, answers>>

-----------------------------------------------------------------------------
(* The browser *)

(* Without a pattern every request is affected. *)
Intercepted(r) == fetch /\ (active = {} \/ \E m \in active : r \in m)

Request(r) ==
    /\ state[r] = "idle"
    /\ careful => loop # "none"
    /\ IF Intercepted(r)
       THEN /\ state' = [state EXCEPT ![r] = "paused"]
            /\ IF router \in {"subscribed", "running"}
               THEN queue' = Append(queue, r) /\ UNCHANGED missed
               ELSE missed' = missed \cup {r} /\ UNCHANGED queue
       ELSE /\ state' = [state EXCEPT ![r] = "passed"]
            /\ UNCHANGED <<queue, missed>>
    /\ UNCHANGED <<owner, loop, fetch, active, worker, answers>>

(* An answer for a request that is not paused is refused. *)
Answer(r, verdict) ==
    /\ answers' = [answers EXCEPT ![r] = @ + 1]
    /\ state' = [state EXCEPT ![r] = IF @ = "paused" THEN verdict ELSE @]

-----------------------------------------------------------------------------
(* The loop of Run, and the goroutine it starts for each event *)

(* An ended context does not stop an event the loop is already offered.    *)
TakeEvent ==
    /\ loop = "running"
    /\ queue # << >>
    /\ queue' = Tail(queue)
    /\ pc' = [pc EXCEPT ![Head(queue)] = "range"]
    /\ todo' = [todo EXCEPT ![Head(queue)] = handlers]
    /\ UNCHANGED <<owner, loop, browser, missed, ctx, chosen, answers>>

LoopEnd ==
    /\ loop = "running"
    /\ router \in {"stopping", "stopped"}
    /\ loop' = "ended"
    /\ UNCHANGED <<owner, browser, queue, missed, worker, answers>>

(* Mistake: every handler runs for every request. *)
MatchesAll(r, h) == TRUE

Matches(r, h) == r \in Url[h]

PassHandler(r) ==
    /\ pc[r] = "range"
    /\ todo[r] # << >>
    /\ ~Matches(r, Head(todo[r]))
    /\ todo' = [todo EXCEPT ![r] = Tail(@)]
    /\ UNCHANGED <<owner, loop, browser, queue, missed, pc, ctx, chosen, answers>>

(* The handler sets a field of the Hijack; only "fulfill" leaves the       *)
(* fields as they are.  Nothing ever clears one.                           *)
RunHandler(r) ==
    /\ pc[r] = "range"
    /\ todo[r] # << >>
    /\ Matches(r, Head(todo[r]))
    /\ \E choice \in Verdicts[Head(todo[r])] :
         /\ ctx' = [ctx EXCEPT ![r] = @ \cup ({choice} \cap Field)]
         /\ chosen' = [chosen EXCEPT ![r] = @ \cup {<<Head(todo[r]), choice>>}]
    /\ todo' = [todo EXCEPT ![r] = Tail(@)]
    /\ pc' = [pc EXCEPT ![r] = "decide"]
    /\ UNCHANGED <<owner, loop, browser, queue, missed, answers>>

(* Mistake: no return after the request has been continued. *)
DecideContinueOn(r) ==
    /\ pc[r] = "decide"
    /\ "continue" \in ctx[r]
    /\ Answer(r, "continued")
    /\ pc' = [pc EXCEPT ![r] = "range"]
    /\ UNCHANGED <<owner, loop, fetch, active, queue, missed, todo, ctx, chosen>>

DecideContinue(r) ==
    /\ pc[r] = "decide"
    /\ "continue" \in ctx[r]
    /\ Answer(r, "continued")
    /\ pc' = [pc EXCEPT ![r] = "done"]
    /\ UNCHANGED <<owner, loop, fetch, active, queue, missed, todo, ctx, chosen>>

(* Mistake: a handler that skips ends the loop. *)
DecideSkipReturns(r) ==
    /\ pc[r] = "decide"
    /\ "continue" \notin ctx[r]
    /\ "skip" \in ctx[r]
    /\ pc' = [pc EXCEPT ![r] = "done"]
    /\ UNCHANGED <<owner, loop, browser, queue, missed, todo, ctx, chosen, answers>>

DecideSkip(r) ==
    /\ pc[r] = "decide"
    /\ "continue" \notin ctx[r]
    /\ "skip" \in ctx[r]
    /\ pc' = [pc EXCEPT ![r] = "range"]
    /\ UNCHANGED <<owner, loop, browser, queue, missed, todo, ctx, chosen, answers>>

DecideFail(r) ==
    /\ pc[r] = "decide"
    /\ ctx[r] = {"fail"}
    /\ Answer(r, "failed")
    /\ pc' = [pc EXCEPT ![r] = "done"]
    /\ UNCHANGED <<owner, loop, fetch, active, queue, missed, todo, ctx, chosen>>

(* Only a refused answer ends the loop over the handlers.                  *)
DecideFulfill(r) ==
    /\ pc[r] = "decide"
    /\ ctx[r] = {}
    /\ Answer(r, "fulfilled")
    /\ pc' = [pc EXCEPT ![r] = IF state[r] = "paused" THEN "range" ELSE "done"]
    /\ UNCHANGED <<owner, loop, fetch, active, queue, missed, todo, ctx, chosen>>

RangeEnd(r) ==
    /\ pc[r] = "range"
    /\ todo[r] = << >>
    /\ pc' = [pc EXCEPT ![r] = "done"]
    /\ UNCHANGED <<owner, loop, browser, queue, missed, todo, ctx, chosen, answers>>

-----------------------------------------------------------------------------
OwnerStep ==
    \/ Enable
    \/ Subscribe
    \/ \E h \in Handlers : AddHandler(h) \/ RemoveHandler(h)
    \/ Run
    \/ StopCancel
    \/ StopDisable

WorkerStep(r) ==
    \/ PassHandler(r)
    \/ RunHandler(r)
    \/ DecideContinue(r)
    \/ DecideSkip(r)
    \/ DecideFail(r)
    \/ DecideFulfill(r)
    \/ RangeEnd(r)

Next ==
    \/ OwnerStep
    \/ TakeEvent
    \/ LoopEnd
    \/ \E r \in Requests : Request(r) \/ WorkerStep(r)

Spec == Init /\ [][Next]_vars

(* Goroutines run, handlers return, and an owner that began to stop the    *)
(* router gets through.  Nobody has to add, run or stop anything.          *)
RouterFairness ==
    /\ WF_vars(TakeEvent)
    /\ WF_vars(StopDisable)
    /\ \A r \in Requests : WF_vars(WorkerStep(r))

-----------------------------------------------------------------------------
(* Every variable holds a value of its type, and a goroutine exists only   *)
(* for a request whose event reached the loop, once.                       *)
TypeOK ==
    /\ careful \in BOOLEAN
    /\ router \in {"new", "enabled", "subscribed", "running", "stopping", "stopped"}
    /\ loop \in {"none", "running", "ended"}
    /\ handlers \in Seq(Handlers)
    /\ IsInjective(handlers)
    /\ patterns \subseteq SUBSET Requests
    /\ fetch \in BOOLEAN
    /\ active \subseteq SUBSET Requests
    /\ state \in [Requests -> {"idle", "passed", "paused", "continued", "failed",
                               "fulfilled", "released"}]
    /\ queue \in Seq(Requests)
    /\ missed \subseteq Requests
    /\ pc \in [Requests -> {"none", "range", "decide", "done"}]
    /\ todo \in [Requests -> Seq(Handlers)]
    /\ ctx \in [Requests -> SUBSET Field]
    /\ chosen \in [Requests -> SUBSET (Handlers \X {"continue", "skip", "fail", "fulfill"})]
    /\ answers \in [Requests -> Nat]
    /\ \A r \in Requests :
         /\ r \in ToSet(queue) \cup missed => pc[r] = "none"
         /\ pc[r] # "none" => state[r] \notin {"idle", "passed"}

(* No handler that answers with a response shares a request with another. *)
RespondersAlone ==
    \A g, h \in Handlers :
        g # h /\ "fulfill" \in Verdicts[g] => Url[g] \cap Url[h] = {}

(* A request gets one answer, if of the handlers that match it none        *)
(* answers with a response and has others after it: the loop over the      *)
(* handlers ends with a continue or a fail, and not with a response.       *)
AnsweredOnce ==
    /\ TypeOK
    /\ RespondersAlone => \A r \in Requests : answers[r] <= 1

(* A handler that shares a request with one that may skip it neither fails *)
(* it nor responds: Skip stays set, and the loop would go on.              *)
SkippersYield ==
    \A g, h \in Handlers :
        g # h /\ "skip" \in Verdicts[g] /\ Url[g] \cap Url[h] # {}
            => Verdicts[h] \subseteq {"continue", "skip"}

Outcome(choice) ==
    CASE choice = "continue" -> "continued"
      [] choice = "fail"     -> "failed"
      [] choice = "fulfill"  -> "fulfilled"

(* The i-th handler ran for r, once, and decided so. *)
DecidedTo(r, i, choice) ==
    {d \in chosen[r] : d[1] = handlers[i]} = {<<handlers[i], choice>>}

(* All that match r before the i-th skipped it. *)
SkippedBefore(r, i) ==
    \A j \in 1..(i - 1) : r \in Url[handlers[j]] => DecidedTo(r, j, "skip")

(* A request is answered as the first matching handler decided that did    *)
(* not skip it, whichever goroutines and answers are in flight.            *)
FirstDecides ==
    SkippersYield => \A r \in Requests : state[r] \in {"continued", "failed", "fulfilled"} =>
        \E i \in 1..Len(handlers) : \E choice \in {"continue", "fail", "fulfill"} :
            /\ r \in Url[handlers[i]]
            /\ SkippedBefore(r, i)
            /\ DecidedTo(r, i, choice)
            /\ state[r] = Outcome(choice)

(* The browser holds only requests that a handler was added for ("Remove   *)
(* handler via the pattern", hijack.go:131), if the owner is careful: with *)
(* no handler left, or none yet, every request is intercepted, and what is *)
(* left of the patterns after a removal forgets the resource types.        *)
OnlyWanted ==
    careful /\ Needed # {} => \A r \in Requests :
        state[r] = "paused" => \E h \in ToSet(handlers) : r \in Typed[h]

(* A paused request does not stay paused, although another handler skipped *)
(* it first, or the router is stopped with its event or answer in flight,  *)
(* if the owner is careful: the event of a request made before the router  *)
(* has subscribed finds nobody.                                            *)
NoneStuck ==
    \A r \in Requests : careful /\ state[r] = "paused" ~> state[r] # "paused"
=============================================================================
