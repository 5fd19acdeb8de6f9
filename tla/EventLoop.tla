----------------------------- MODULE EventLoop ------------------------------
(***************************************************************************)
(* From the connection to the callbacks of eachEvent: the composition of   *)
(* the client (CDPClient) with the event hub, by what the hub promises     *)
(* (Broadcast, which Goob implements), and the goroutines around it.       *)
(*                                                                         *)
(* One goroutine of the Browser carries events from the client's channel   *)
(* to the hub and ends the hub when the channel is closed.  A loop of      *)
(* eachEvent takes the events of its subscription one after the other; its *)
(* callback may call the browser, whose answer the client's reader must    *)
(* still be able to bring although more events are on their way.           *)
(***************************************************************************)
EXTENDS CDPClient

CONSTANTS
    Listeners,  \* the calls of eachEvent
    CallOf,     \* CallOf[l]: the call that l's callback makes, or None
    Wants       \* Wants[l]: the events that have a callback

ASSUME EventLoopAssumption ==
    /\ CallOf \in [Listeners -> Calls \cup {None}]
    /\ \A l, m \in Listeners : CallOf[l] = CallOf[m] /\ CallOf[l] # None => l = m
    /\ Wants \in [Listeners -> SUBSET (1..MaxEvents)]
    /\ None \notin 1..MaxEvents

VARIABLES
    carried,    \* the event that the carrier has taken, or None
    hubUp,      \* the context of the hub is not done
    loop,       \* loop[l]: where eachEvent is
    ended,      \* the listeners whose context is done
    log, channel, start, received   \* the hub, as in Broadcast

Hub == INSTANCE Broadcast WITH
    Subscribers <- Listeners, Event <- 1..MaxEvents, Keen <- Listeners

carrier == <<carried, hubUp>>
listeners == <<loop, ended>>
hub == <<log, channel, start, received>>
all == <<vars, carrier, listeners, hub>>

LoopInit ==
    /\ Init
    /\ Hub!Init
    /\ carried = None
    /\ hubUp = TRUE
    /\ loop = [l \in Listeners |-> "idle"]
    /\ ended = {}

-----------------------------------------------------------------------------
(* The carrier: initEvents *)

(* Mistake: the reader hands the event to the loops themselves, which take *)
(* none while they are in a callback.                                      *)
CarryToLoops ==
    /\ carried = None
    /\ \A l \in Listeners : loop[l] # "callback"
    /\ EmitEvent
    /\ carried' = Head(inbox).event
    /\ UNCHANGED <<hubUp, listeners, hub>>

(* The client's reader hands over an event when the carrier is ready.      *)
Carry ==
    /\ carried = None
    /\ EmitEvent
    /\ carried' = Head(inbox).event
    /\ UNCHANGED <<hubUp, listeners, hub>>

Publish ==
    /\ carried # None
    /\ Hub!Publish
    /\ log' = Append(log, carried)
    /\ carried' = None
    /\ UNCHANGED <<vars, hubUp, listeners>>

(* Mistake: the carrier ends without ending the hub. *)
EndHubNever ==
    /\ carried = None
    /\ reader = "exit"
    /\ hubUp
    /\ UNCHANGED all

(* The client's channel is closed; the deferred cancel ends the hub.       *)
EndHub ==
    /\ carried = None
    /\ reader = "exit"
    /\ hubUp
    /\ hubUp' = FALSE
    /\ UNCHANGED <<vars, carried, listeners, hub>>

-----------------------------------------------------------------------------
(* eachEvent *)

Listen(l) ==
    /\ loop[l] = "idle"
    /\ loop' = [loop EXCEPT ![l] = "range"]
    /\ Hub!Subscribe(l)
    /\ UNCHANGED <<vars, carrier, ended>>

(* An event that no callback is for is passed over. *)
Take(l) ==
    /\ loop[l] = "range"
    /\ Hub!Deliver(l)
    /\ loop' = [loop EXCEPT ![l] =
            IF log[Hub!Cursor(l) + 1] \in Wants[l] THEN "callback" ELSE "range"]
    /\ UNCHANGED <<vars, carrier, ended>>

(* The callback calls the browser, the first time that it runs.            *)
CallBrowser(l) ==
    /\ loop[l] = "callback"
    /\ CallOf[l] # None
    /\ Store(CallOf[l])
    /\ UNCHANGED <<carrier, listeners, hub>>

(* It has returned, and says whether the loop is to go on. *)
CallbackReturns(l) ==
    /\ loop[l] = "callback"
    /\ CallOf[l] # None => pc[CallOf[l]] = "returned"
    /\ \E next \in {"range", "returned"} : loop' = [loop EXCEPT ![l] = next]
    /\ UNCHANGED <<vars, carrier, ended, hub>>

(* The context of a listener, with which its callback calls. *)
EndListener(l) ==
    /\ loop[l] \in {"range", "callback"}
    /\ l \notin ended
    /\ ended' = ended \cup {l}
    /\ IF CallOf[l] # None /\ pc[CallOf[l]] # "returned"
       THEN Cancel(CallOf[l]) ELSE UNCHANGED vars
    /\ UNCHANGED <<carrier, loop, hub>>

(* The subscription ends with the loop, its context or the hub. *)
CloseChannel(l) ==
    /\ loop[l] = "returned" \/ l \in ended \/ ~hubUp
    /\ Hub!Close(l)
    /\ UNCHANGED <<vars, carrier, listeners>>

LoopReturns(l) ==
    /\ loop[l] = "range"
    /\ channel[l] = "closed"
    /\ loop' = [loop EXCEPT ![l] = "returned"]
    /\ UNCHANGED <<vars, carrier, ended, hub>>

-----------------------------------------------------------------------------
InCallback == {CallOf[l] : l \in Listeners}

(* A call of a callback is begun by it and has its listener's context.     *)
Progress(c) ==
    IF c \in InCallback
    THEN SendOk(c) \/ SendFail(c) \/ ReturnCancelled(c) \/ Leave(c)
    ELSE CallStep(c)

(* The reader, which waits for the carrier with an event in its hands.     *)
ReaderAlone ==
    /\ \/ ReadEvent \/ ReadFail \/ RangeEnd
       \/ \E c \in Calls : ReadResponse(c) \/ HandOver(c) \/ HandSkip(c) \/ RangeVisit(c)
    /\ UNCHANGED <<carrier, listeners, hub>>

Client ==
    /\ BrowserStep \/ \E c \in Calls : Progress(c)
    /\ UNCHANGED <<carrier, listeners, hub>>

Listener(l) ==
    \/ Take(l) \/ CallBrowser(l) \/ CallbackReturns(l) \/ CloseChannel(l) \/ LoopReturns(l)

LoopNext ==
    \/ ReaderAlone \/ Client
    \/ Carry \/ Publish \/ EndHub
    \/ \E l \in Listeners : Listen(l) \/ EndListener(l) \/ Listener(l)

(* As in CDPClient, but that nobody is trusted to receive from the         *)
(* client's channel: the carrier goroutine does, and so does a listener.    *)
LoopFairness ==
    /\ \A c \in Calls :
         /\ WF_vars(SendOk(c) \/ SendFail(c))
         /\ WF_vars(ReturnCancelled(c))
         /\ WF_vars(Leave(c))
         /\ WF_vars(Answer(c))
    /\ WF_all(ReaderAlone \/ Carry)
    /\ WF_all(Publish \/ EndHub)
    /\ \A l \in Listeners : WF_all(CloseChannel(l)) /\ WF_all(Listener(l))

LoopSpec == LoopInit /\ [][LoopNext]_all /\ LoopFairness

-----------------------------------------------------------------------------
LoopTypeOK ==
    /\ TypeOK
    /\ carried \in 1..MaxEvents \cup {None}
    /\ loop \in [Listeners -> {"idle", "range", "callback", "returned"}]
    /\ channel \in [Listeners -> {"new", "open", "closed"}]

(* A listener receives the events that the browser emits, from the first   *)
(* that is published after it has subscribed, in the browser's order and   *)
(* none missing, however slow its callbacks are and whatever responses     *)
(* come in between; and none but the one that is being carried is missing  *)
(* in the hub.                                                             *)
EventsInOrder ==
    /\ LoopTypeOK
    /\ \A i \in 1..Len(events) : events[i] = i
    /\ events = log \o (IF carried = None THEN << >> ELSE <<carried>>)
    /\ \A l \in Listeners : \A i \in 1..Len(received[l]) : received[l][i] = start[l] + i

(* While the browser is up every listener is served: it takes every event  *)
(* that is emitted, or ends, although its callbacks call the browser; and  *)
(* when the connection is closed every loop returns, one that waits for an *)
(* answer included, unless the reader waits for a call whose Send failed.  *)
ListenersServed ==
    \A l \in Listeners :
        /\ [](peer = "up") =>
             (loop[l] = "range" ~> loop[l] = "returned" \/ Hub!Cursor(l) = emitted)
        /\ conn = "closed" ~>
             loop[l] \in {"idle", "returned"} \/ \E c \in Calls : Abandoned(c)
=============================================================================
