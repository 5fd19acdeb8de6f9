------------------------------ MODULE CDPClient ------------------------------
(***************************************************************************)
(* The DevTools connection of lib/cdp: many goroutines call the browser    *)
(* over one web socket and one reader goroutine hands every response to    *)
(* the call it belongs to and every event to the client's event channel.   *)
(*                                                                         *)
(* A call stores a callback under its id before it sends the request, then *)
(* waits for its context or for the callback, which hands the result over  *)
(* an unbuffered channel and works once.  When the socket fails the reader *)
(* runs the callback of every call it finds pending, with the error, and   *)
(* exits.  The browser answers in any order, emits events on its own, and  *)
(* may disappear at any time.                                              *)
(***************************************************************************)
EXTENDS Naturals, Sequences, FiniteSets

CONSTANTS
    Calls,          \* the calls made; a call stands for its request id too
    MaxEvents,      \* bound: how many events the browser emits
    None            \* no call

ASSUME CDPAssumption ==
    /\ MaxEvents \in Nat
    /\ None \notin Calls
    /\ Calls \cap {"none", "sendError", "readError", "ctxError"} = {}

VARIABLES
    pc,             \* pc[c]: where Call is
    ret,            \* ret[c]: what Call returns
    cancelled,      \* cancelled[c]: the context of the call is done
    pending,        \* Client.pending: the ids that have a callback
    once,           \* the calls whose callback has been used
    reader,         \* where consumeMessages is
    hand,           \* the call whose callback the reader runs, or None
    result,         \* what the reader passes to that callback
    must, seen,     \* sync.Map.Range: ids it has to visit, ids it has visited
    conn,           \* the socket: "open", or "closed" from this side
    peer,           \* the browser: "up" or "down"
    requests,       \* what the browser has received and not answered
    inbox,          \* what the browser has sent and the reader not read
    emitted,        \* how many events the browser has emitted
    events,         \* history: the events received from Client.event
    answered        \* history: calls whose response the reader has read

callers == <<pc, ret, cancelled>>
consume == <<reader, hand, result, must, seen>>
browser == <<peer, requests, inbox, emitted>>
vars == <<callers, pending, once, consume, conn, browser, events, answered>>

Response(c) == [id |-> c, event |-> 0]
EventMsg(n) == [id |-> None, event |-> n]
Message == {Response(c) : c \in Calls} \cup {EventMsg(n) : n \in 1..MaxEvents}

(* What Call returns: nothing yet, the response of a call, or an error.    *)
Errors == {"sendError", "readError", "ctxError"}

Init ==
    /\ pc = [c \in Calls |-> "idle"]
    /\ ret = [c \in Calls |-> "none"]
    /\ cancelled = [c \in Calls |-> FALSE]
    /\ pending = {}
    /\ once = {}
    /\ reader = "read"
    /\ hand = None
    /\ result = "none"
    /\ must = {}
    /\ seen = {}
    /\ conn = "open"
    /\ peer = "up"
    /\ requests = {}
    /\ inbox = << >>
    /\ emitted = 0
    /\ events = << >>
    /\ answered = {}

-----------------------------------------------------------------------------
(* Call *)

Store(c) ==
    /\ pc[c] = "idle"
    /\ pending' = pending \cup {c}
    /\ pc' = [pc EXCEPT ![c] = "send"]
    /\ UNCHANGED <<ret, cancelled, once, consume, conn, browser, events, answered>>

(* A frame written to a browser that is gone may still be accepted by the  *)
(* operating system; it reaches nobody.                                    *)
SendOk(c) ==
    /\ pc[c] = "send"
    /\ conn = "open"
    /\ requests' = IF peer = "up" THEN requests \cup {c} ELSE requests
    /\ pc' = [pc EXCEPT ![c] = "wait"]
    /\ UNCHANGED <<ret, cancelled, pending, once, consume, conn, peer, inbox,
                   emitted, events, answered>>

(* A failed Send closes the socket and ends the call without a look at the *)
(* channel its callback writes to.                                         *)
SendFail(c) ==
    /\ pc[c] = "send"
    /\ conn = "closed" \/ peer = "down"
    /\ conn' = "closed"
    /\ ret' = [ret EXCEPT ![c] = "sendError"]
    /\ pc' = [pc EXCEPT ![c] = "leave"]
    /\ UNCHANGED <<cancelled, pending, once, consume, browser, events, answered>>

ReturnCancelled(c) ==
    /\ pc[c] = "wait"
    /\ cancelled[c]
    /\ ret' = [ret EXCEPT ![c] = "ctxError"]
    /\ pc' = [pc EXCEPT ![c] = "leave"]
    /\ UNCHANGED <<cancelled, pending, once, consume, conn, browser, events, answered>>

(* The deferred pending.Delete. *)
Leave(c) ==
    /\ pc[c] = "leave"
    /\ pending' = pending \ {c}
    /\ pc' = [pc EXCEPT ![c] = "returned"]
    /\ UNCHANGED <<ret, cancelled, once, consume, conn, browser, events, answered>>

Cancel(c) ==
    /\ ~cancelled[c]
    /\ pc[c] # "returned"
    /\ cancelled' = [cancelled EXCEPT ![c] = TRUE]
    /\ UNCHANGED <<pc, ret, pending, once, consume, conn, browser, events, answered>>

-----------------------------------------------------------------------------
(* The browser *)

Answer(c) ==
    /\ peer = "up"
    /\ c \in requests
    /\ requests' = requests \ {c}
    /\ inbox' = Append(inbox, Response(c))
    /\ UNCHANGED <<callers, pending, once, consume, conn, peer, emitted, events, answered>>

Emit ==
    /\ peer = "up"
    /\ emitted < MaxEvents
    /\ emitted' = emitted + 1
    /\ inbox' = Append(inbox, EventMsg(emitted + 1))
    /\ UNCHANGED <<callers, pending, once, consume, conn, peer, requests, events, answered>>

Crash ==
    /\ peer = "up"
    /\ peer' = "down"
    /\ requests' = {}
    /\ UNCHANGED <<callers, pending, once, consume, conn, inbox, emitted, events, answered>>

-----------------------------------------------------------------------------
(* consumeMessages *)

(* Mistake: a callback that can be used again. *)
RunCallbackAgain(c, res, otherwise) ==
    /\ reader' = "hand"
    /\ once' = once \cup {c}
    /\ hand' = c
    /\ result' = res

(* The callback of c is entered, and blocks in its select, only the first  *)
(* time: sync.Once turns every later call of it into nothing.              *)
RunCallback(c, res, otherwise) ==
    IF c \in once
    THEN /\ reader' = otherwise
         /\ UNCHANGED <<once, hand, result>>
    ELSE /\ reader' = "hand"
         /\ once' = once \cup {c}
         /\ hand' = c
         /\ result' = res

ReadEvent ==
    /\ reader = "read"
    /\ inbox # << >>
    /\ Head(inbox).id = None
    /\ reader' = "event"
    /\ UNCHANGED <<callers, pending, once, hand, result, must, seen, conn, browser,
                   events, answered>>

(* Mistake: an event is dropped when the consumer is not there yet. *)
EmitEventOrDrop ==
    /\ reader = "event"
    /\ events' \in {events, Append(events, Head(inbox).event)}
    /\ inbox' = Tail(inbox)
    /\ reader' = "read"
    /\ UNCHANGED <<callers, pending, once, hand, result, must, seen, conn, peer,
                   requests, emitted, answered>>

(* The consumer of Client.Event takes the event the reader offers. *)
EmitEvent ==
    /\ reader = "event"
    /\ events' = Append(events, Head(inbox).event)
    /\ inbox' = Tail(inbox)
    /\ reader' = "read"
    /\ UNCHANGED <<callers, pending, once, hand, result, must, seen, conn, peer,
                   requests, emitted, answered>>

(* Mistake: the response goes to a call that waits, not to the one it is for. *)
ReadResponseAny(c) ==
    /\ reader = "read"
    /\ inbox # << >>
    /\ Head(inbox).id # None
    /\ inbox' = Tail(inbox)
    /\ answered' = answered \cup {Head(inbox).id}
    /\ IF c \in pending
       THEN RunCallback(c, Head(inbox).id, "read")
       ELSE UNCHANGED <<reader, once, hand, result>>
    /\ UNCHANGED <<callers, pending, must, seen, conn, peer, requests, emitted, events>>

ReadResponse(c) ==
    /\ reader = "read"
    /\ inbox # << >>
    /\ Head(inbox).id = c
    /\ inbox' = Tail(inbox)
    /\ answered' = answered \cup {c}
    /\ IF c \in pending
       THEN RunCallback(c, c, "read")
       ELSE UNCHANGED <<reader, once, hand, result>>
    /\ UNCHANGED <<callers, pending, must, seen, conn, peer, requests, emitted, events>>

(* Where the reader goes on after a callback: Range, or the next message.  *)
AfterCallback == IF result = "readError" THEN "range" ELSE "read"

(* The rendezvous of the callback with the call's select. *)
HandOver(c) ==
    /\ reader = "hand"
    /\ hand = c
    /\ pc[c] = "wait"
    /\ ret' = [ret EXCEPT ![c] = result]
    /\ pc' = [pc EXCEPT ![c] = "leave"]
    /\ reader' = AfterCallback
    /\ hand' = None
    /\ result' = "none"
    /\ UNCHANGED <<cancelled, pending, once, must, seen, conn, browser, events, answered>>

(* Mistake: the callback does not wait for the call. *)
HandSkipAlways(c) ==
    /\ reader = "hand"
    /\ hand = c
    /\ reader' = AfterCallback
    /\ hand' = None
    /\ result' = "none"
    /\ UNCHANGED <<callers, pending, once, must, seen, conn, browser, events, answered>>

HandSkip(c) ==
    /\ reader = "hand"
    /\ hand = c
    /\ cancelled[c]
    /\ reader' = AfterCallback
    /\ hand' = None
    /\ result' = "none"
    /\ UNCHANGED <<callers, pending, once, must, seen, conn, browser, events, answered>>

(* Mistake: the reader gives up a connection on which nothing is wrong. *)
ReadFailAnyTime ==
    /\ reader = "read"
    /\ conn' = "closed"
    /\ reader' = "range"
    /\ must' = pending
    /\ seen' = {}
    /\ UNCHANGED <<callers, pending, once, hand, result, browser, events, answered>>

(* A socket closed from this side fails at the next read, though messages  *)
(* that were already buffered may be read before; one that the browser     *)
(* dropped fails at once or once drained.                                  *)
ReadFail ==
    /\ reader = "read"
    /\ conn = "closed" \/ peer = "down"
    /\ conn' = "closed"
    /\ reader' = "range"
    /\ must' = pending
    /\ seen' = {}
    /\ UNCHANGED <<callers, pending, once, hand, result, browser, events, answered>>

(* Range visits no key twice and every key that stays in the map; one that *)
(* is stored or deleted meanwhile it may visit or not.                     *)
RangeVisit(c) ==
    /\ reader = "range"
    /\ c \in (pending \cup must) \ seen
    /\ seen' = seen \cup {c}
    /\ RunCallback(c, "readError", "range")
    /\ UNCHANGED <<callers, pending, must, conn, browser, events, answered>>

(* The deferred close of the event channel. *)
RangeEnd ==
    /\ reader = "range"
    /\ must \cap pending \subseteq seen
    /\ reader' = "exit"
    /\ UNCHANGED <<callers, pending, once, hand, result, must, seen, conn, browser,
                   events, answered>>

-----------------------------------------------------------------------------
CallStep(c) ==
    \/ Store(c)
    \/ SendOk(c)
    \/ SendFail(c)
    \/ ReturnCancelled(c)
    \/ Leave(c)
    \/ Cancel(c)

BrowserStep ==
    \/ \E c \in Calls : Answer(c)
    \/ Emit
    \/ Crash

ReaderStep ==
    \/ ReadEvent
    \/ EmitEvent
    \/ \E c \in Calls : ReadResponse(c) \/ HandOver(c) \/ HandSkip(c) \/ RangeVisit(c)
    \/ ReadFail
    \/ RangeEnd

Next ==
    \/ \E c \in Calls : CallStep(c)
    \/ BrowserStep
    \/ ReaderStep

Spec == Init /\ [][Next]_vars

(* Every goroutine that can run does, a browser that is up answers, and    *)
(* the consumer of Client.Event keeps receiving, as its comment demands.   *)
(* Nobody has to call, to cancel or to crash.                              *)
Fairness ==
    /\ \A c \in Calls :
         /\ WF_vars(SendOk(c) \/ SendFail(c))
         /\ WF_vars(ReturnCancelled(c))
         /\ WF_vars(Leave(c))
         /\ WF_vars(Answer(c))
    /\ WF_vars(ReaderStep)

FairSpec == Spec /\ Fairness

-----------------------------------------------------------------------------
(* Every variable holds a value of its type. *)
TypeOK ==
    /\ pc \in [Calls -> {"idle", "send", "wait", "leave", "returned"}]
    /\ ret \in [Calls -> {"none"} \cup Errors \cup Calls]
    /\ cancelled \in [Calls -> BOOLEAN]
    /\ pending \subseteq Calls
    /\ once \subseteq Calls
    /\ reader \in {"read", "event", "hand", "range", "exit"}
    /\ hand \in Calls \cup {None}
    /\ result \in {"none", "readError"} \cup Calls
    /\ must \subseteq Calls
    /\ seen \subseteq Calls
    /\ conn \in {"open", "closed"}
    /\ peer \in {"up", "down"}
    /\ requests \subseteq Calls
    /\ inbox \in Seq(Message)
    /\ emitted \in 0..MaxEvents
    /\ events \in Seq(1..MaxEvents)
    /\ answered \subseteq Calls
    /\ hand # None <=> reader = "hand"
    /\ result # "none" <=> reader = "hand"

(* A call returns the response to its own request or an error, and a       *)
(* response only if the browser sent one; and a response that the reader   *)
(* has read reaches its call, unless the call's own context is done: the   *)
(* callback is there before the request is sent and until the call has     *)
(* returned, however late the caller is.                                   *)
OwnAnswer ==
    /\ TypeOK
    /\ \A c \in Calls : ret[c] \in Calls => ret[c] = c /\ c \in answered
    /\ \A c \in answered :
         ret[c] = c \/ (hand = c /\ result = c) \/ cancelled[c]

(* The reader waits in the callback of a call that no longer listens only  *)
(* when that call's Send failed: never because the call was answered twice *)
(* or gave up.                                                             *)
Abandoned(c) ==
    reader = "hand" /\ hand = c /\ pc[c] \in {"leave", "returned"} /\ ~cancelled[c]

AbandonedOnlyBySendError ==
    \A c \in Calls : Abandoned(c) => ret[c] = "sendError"

(* What makes OwnAnswer inductive.  A callback is there from before the     *)
(* request until the call leaves; what a call has returned shows where it   *)
(* is, and whether its callback was used.                                   *)
CallInv ==
    \A c \in Calls :
        /\ c \in pending <=> pc[c] \in {"send", "wait", "leave"}
        /\ ret[c] = "none" <=> pc[c] \in {"idle", "send", "wait"}
        /\ ret[c] = "ctxError" => cancelled[c]
        /\ ret[c] \in {c, "readError"} => c \in once /\ hand # c

(* After a read has failed the reader reads no more.                        *)
Ranging == reader \in {"range", "exit"} \/ result = "readError"

(* Until then it has used no callback but for a response that it has read.  *)
ReaderInv ==
    /\ ~Ranging => once \subseteq answered
    /\ hand # None => hand \in once
    /\ result \in Calls => result = hand /\ hand \in answered
    /\ \A c \in Calls : ret[c] = "readError" => Ranging
    /\ reader = "event" => inbox # << >> /\ Head(inbox).id = None

(* A request that has been sent is in one place: with the browser, in the   *)
(* inbox, once, or answered.                                                *)
InInbox(c) == \E i \in 1..Len(inbox) : inbox[i].id = c

RequestInv ==
    /\ \A c \in Calls :
         /\ c \in requests => ~InInbox(c) /\ c \notin answered
         /\ InInbox(c) => c \notin answered
         /\ c \in requests \/ InInbox(c) \/ c \in answered =>
              pc[c] \in {"wait", "leave", "returned"} /\ ret[c] # "sendError"
    /\ \A i, j \in 1..Len(inbox) :
         inbox[i].id = inbox[j].id /\ inbox[i].id # None => i = j

ClientInv == OwnAnswer /\ CallInv /\ ReaderInv /\ RequestInv

(* Only the browser ends the connection: this side closes the socket after *)
(* the browser has gone.                                                   *)
LostByPeer == conn = "closed" \/ reader \in {"range", "exit"} \/ result = "readError" => peer = "down"

(* The client is what RemoteCalls promises of a connection to the browser: *)
(* however sending, reading, callbacks, contexts and a crash interleave, a *)
(* call is carried out at most once, never after its Send failed, and ends *)
(* once, with its own answer or an error that has its reason.              *)
Service == INSTANCE RemoteCalls WITH
    asked <- {c \in Calls : pc[c] # "idle"},
    outcome <- ret,
    givenUp <- cancelled,
    performed <- {c \in Calls : InInbox(c) \/ c \in answered}

ServiceSpec == Service!Spec

(* A call whose context is done returns, whatever the socket, the browser  *)
(* and the reader do.                                                      *)
CancelReturns ==
    \A c \in Calls : cancelled[c] /\ pc[c] # "idle" ~> pc[c] = "returned"

(* With a browser that stays up every call returns, with its response if   *)
(* nobody cancels it.                                                      *)
CallReturns ==
    [](peer = "up") => \A c \in Calls :
        pc[c] = "send" ~> pc[c] = "returned" /\ (ret[c] = c \/ cancelled[c])

(* After the socket fails, the reader runs every callback, closes the      *)
(* event channel and exits, or waits for a call whose Send failed.         *)
ReaderEnds ==
    conn = "closed" ~> reader = "exit" \/ \E c \in Calls : Abandoned(c)

(* Nobody waits for ever: callers with a browser that answers or a context *)
(* that ends, and the reader, as the three formulas above say.             *)
NobodyWaits == CancelReturns /\ CallReturns /\ ReaderEnds

(* What the package's test of a crash expects of every pending call: a     *)
(* call that waits when the browser disappears returns.                    *)
CrashEndsCalls ==
    \A c \in Calls : peer = "down" /\ pc[c] = "wait" ~> pc[c] = "returned"
=============================================================================
