---------------------------- MODULE RequestIdle -----------------------------
(***************************************************************************)
(* WaitRequestIdle: a loop over the page's network events keeps the        *)
(* requests that run and counts them in an IdleCounter, whose timer is     *)
(* stopped by a request that begins and started by the end of the last     *)
(* one, and which another goroutine waits on.  A timer stopped or reset    *)
(* after it has fired sends nothing any more (Go 1.23 and later).          *)
(***************************************************************************)
EXTENDS Integers, FiniteSets, Sequences

CONSTANTS
    Requests,   \* the requests the page makes
    Duration    \* the time the page must be quiet, in ticks

ASSUME IdleAssumption ==
    /\ IsFiniteSet(Requests)
    /\ Duration \in Nat \ {0}

VARIABLES
    net,        \* net[r]: the request, as the browser sees it
    early,      \* the requests made before the loop was subscribed
    excluded,   \* those of a type or URL that is not waited for
    wire,       \* the events on their way to the loop
    waitList,   \* the requests that the loop waits for
    job,        \* IdleCounter.job
    timer,      \* what is left until IdleCounter.tmr fires, or Off
    idler,      \* the goroutine in IdleCounter.Wait
    looping,    \* the loop over the events has not ended
    over,       \* the page's context is done
    quiet       \* history: ticks since the last request ended or Wait began

Off == -1

counter == <<waitList, job, timer>>
page == <<net, early, excluded>>
idleVars == <<page, wire, counter, idler, looping, over, quiet>>

IdleInit ==
    /\ early \in SUBSET Requests
    /\ excluded \in SUBSET Requests
    /\ net = [r \in Requests |-> IF r \in early THEN "running" ELSE "idle"]
    /\ wire = << >>
    /\ waitList = {} /\ job = 0 /\ timer = Off
    /\ idler = "begin"
    /\ looping = TRUE
    /\ over = FALSE
    /\ quiet = 0

-----------------------------------------------------------------------------
(* The browser's requests.  A redirect emits the request's event again.    *)

Emit(r, before, after, event) ==
    /\ net[r] = before
    /\ net' = [net EXCEPT ![r] = after]
    /\ wire' = Append(wire, <<event, r>>)
    /\ UNCHANGED <<early, excluded, counter, idler, looping, over, quiet>>

Request(r)  == Emit(r, "idle", "running", "sent")
Redirect(r) == Emit(r, "running", "redirected", "sent")
Finish(r)   == Emit(r, "running", "ended", "over") \/ Emit(r, "redirected", "ended", "over")

-----------------------------------------------------------------------------
(* The loop over the events, with the IdleCounter's Add and Done *)

Event(kind) == looping /\ wire # << >> /\ Head(wire)[1] = kind

Add(r) ==
    /\ waitList' = waitList \cup {r}
    /\ job' = job + 1
    /\ timer' = Off

(* Mistake: the end of the last request does not start the timer. *)
DoneQuietly(r) ==
    /\ waitList' = waitList \ {r}
    /\ job' = job - 1
    /\ timer' = timer

Done(r) ==
    /\ waitList' = waitList \ {r}
    /\ job' = job - 1
    /\ timer' = IF job' = 0 THEN Duration ELSE timer

(* Mistake: a redirected request is counted again. *)
HearSentTwice ==
    /\ Event("sent")
    /\ LET r == Head(wire)[2] IN IF r \in excluded THEN UNCHANGED counter ELSE Add(r)
    /\ wire' = Tail(wire)
    /\ UNCHANGED <<page, idler, looping, over, quiet>>

HearSent ==
    /\ Event("sent")
    /\ LET r == Head(wire)[2] IN
         IF r \in excluded \cup waitList THEN UNCHANGED counter ELSE Add(r)
    /\ wire' = Tail(wire)
    /\ UNCHANGED <<page, idler, looping, over, quiet>>

HearOver ==
    /\ Event("over")
    /\ LET r == Head(wire)[2] IN
         IF r \in waitList THEN Done(r) /\ quiet' = 0 ELSE UNCHANGED <<counter, quiet>>
    /\ wire' = Tail(wire)
    /\ UNCHANGED <<page, idler, looping, over>>

-----------------------------------------------------------------------------
(* IdleCounter.Wait, after which the context of the loop is cancelled *)

WaitBegin ==
    /\ idler = "begin"
    /\ idler' = "select"
    /\ timer' = IF job = 0 THEN Duration ELSE timer
    /\ quiet' = 0
    /\ UNCHANGED <<page, wire, waitList, job, looping, over>>

WaitIdle ==
    /\ idler = "select"
    /\ timer = 0
    /\ idler' = "idle"
    /\ timer' = Off
    /\ UNCHANGED <<page, wire, waitList, job, looping, over, quiet>>

WaitCancelled ==
    /\ idler = "select"
    /\ over
    /\ idler' = "cancelled"
    /\ timer' = Off
    /\ UNCHANGED <<page, wire, waitList, job, looping, over, quiet>>

LoopEnds ==
    /\ looping
    /\ over \/ idler \in {"idle", "cancelled"}
    /\ looping' = FALSE
    /\ UNCHANGED <<page, wire, counter, idler, over, quiet>>

Tick ==
    /\ timer' = IF timer \in 1..Duration THEN timer - 1 ELSE timer
    /\ quiet' = IF waitList = {} /\ quiet < Duration THEN quiet + 1 ELSE quiet
    /\ <<timer, quiet>>' # <<timer, quiet>>
    /\ UNCHANGED <<page, wire, waitList, job, idler, looping, over>>

EndPage ==
    /\ ~over
    /\ over' = TRUE
    /\ UNCHANGED <<page, wire, counter, idler, looping, quiet>>

-----------------------------------------------------------------------------
IdleNext ==
    \/ \E r \in Requests : Request(r) \/ Redirect(r) \/ Finish(r)
    \/ HearSent \/ HearOver \/ WaitBegin \/ WaitIdle \/ WaitCancelled \/ LoopEnds
    \/ Tick \/ EndPage

(* Requests end, events arrive, time passes and goroutines run.            *)
IdleFairness ==
    /\ \A r \in Requests : WF_idleVars(Finish(r))
    /\ WF_idleVars(HearSent \/ HearOver) /\ WF_idleVars(Tick)
    /\ WF_idleVars(WaitBegin) /\ WF_idleVars(WaitIdle \/ WaitCancelled)
    /\ WF_idleVars(LoopEnds)

-----------------------------------------------------------------------------
IdleTypeOK ==
    /\ net \in [Requests -> {"idle", "running", "redirected", "ended"}]
    /\ wire \in Seq({"sent", "over"} \X Requests)
    /\ waitList \subseteq Requests \ excluded
    /\ timer \in {Off} \cup 0..Duration
    /\ idler \in {"begin", "select", "idle", "cancelled"}
    /\ quiet \in 0..Duration

(* The counter counts the requests of the list, so that Done never panics, *)
(* and its timer is off while there are any.                               *)
Counted == job = Cardinality(waitList) /\ (job > 0 => timer = Off)

(* The counter counts (above), and the wait for quiet ends by itself only  *)
(* after the whole duration without a request in the list, counted from    *)
(* the end of the last or from the call, whichever is later; then every    *)
(* request that runs is one that was made too early or is not waited for,  *)
(* or whose event has yet to arrive.                                       *)
IdleForDuration ==
    /\ [](IdleTypeOK /\ Counted)
    /\ [][idler' = "idle" /\ idler # "idle" =>
         /\ waitList = {} /\ quiet = Duration
         /\ \A r \in Requests \ (early \cup excluded) :
              net[r] \in {"running", "redirected"} /\ looping
                => \E i \in 1..Len(wire) : wire[i][2] = r]_idleVars

(* The wait returns, by itself if the requests do, or with its context.    *)
IdleReturns == <>(~looping /\ idler \in {"idle", "cancelled"})
=============================================================================
