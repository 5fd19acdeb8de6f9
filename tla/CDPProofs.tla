----------------------------- MODULE CDPProofs ------------------------------
(***************************************************************************)
(* Proofs about the DevTools connection, for any number of calls, events   *)
(* and event loops: the client keeps its promises, it does nothing that it *)
(* does not do alone when it is used by loops whose callbacks call the     *)
(* browser, and every loop takes the browser's events in order.            *)
(***************************************************************************)
EXTENDS EventLoop, SequenceTheorems, TLAPS

(* A message is a response to a call or an event. *)
LEMMA MessageKinds ==
    ASSUME NEW msg \in Message
    PROVE  /\ msg.id \in Calls \cup {None}
           /\ msg.id = None => msg.event \in 1..MaxEvents
  BY CDPAssumption DEF Message, Response, EventMsg

USE CDPAssumption DEF callers, consume, browser, Errors

LEMMA StoreKeeps ==
    ASSUME ClientInv, NEW c \in Calls, Store(c)
    PROVE  ClientInv'
<1> USE DEF ClientInv, OwnAnswer, Store
<1>1. TypeOK'
  BY MessageKinds DEF TypeOK, ReaderInv, Message
<1>2. OwnAnswer'
  BY <1>1 DEF TypeOK, CallInv, ReaderInv, RequestInv, InInbox, Ranging
<1>3. CallInv'
  BY DEF TypeOK, CallInv, ReaderInv
<1>4. ReaderInv'
  BY DEF TypeOK, CallInv, ReaderInv, RequestInv, InInbox, Ranging
<1>5. RequestInv'
  BY DEF TypeOK, CallInv, RequestInv, InInbox
<1> QED
  BY <1>2, <1>3, <1>4, <1>5

LEMMA SendOkKeeps ==
    ASSUME ClientInv, NEW c \in Calls, SendOk(c)
    PROVE  ClientInv'
<1> USE DEF ClientInv, OwnAnswer, SendOk
<1>1. TypeOK'
  BY MessageKinds DEF TypeOK, ReaderInv, Message
<1>2. OwnAnswer'
  BY <1>1 DEF TypeOK, CallInv, ReaderInv, RequestInv, InInbox, Ranging
<1>3. CallInv'
  BY DEF TypeOK, CallInv, ReaderInv
<1>4. ReaderInv'
  BY DEF TypeOK, CallInv, ReaderInv, RequestInv, InInbox, Ranging
<1>5. RequestInv'
  BY DEF TypeOK, CallInv, RequestInv, InInbox
<1> QED
  BY <1>2, <1>3, <1>4, <1>5

LEMMA SendFailKeeps ==
    ASSUME ClientInv, NEW c \in Calls, SendFail(c)
    PROVE  ClientInv'
<1> USE DEF ClientInv, OwnAnswer, SendFail
<1>1. TypeOK'
  BY MessageKinds DEF TypeOK, ReaderInv, Message
<1>2. OwnAnswer'
  BY <1>1 DEF TypeOK, CallInv, ReaderInv, RequestInv, InInbox, Ranging
<1>3. CallInv'
  BY DEF TypeOK, CallInv, ReaderInv
<1>4. ReaderInv'
  BY DEF TypeOK, CallInv, ReaderInv, RequestInv, InInbox, Ranging
<1>5. RequestInv'
  BY DEF TypeOK, CallInv, RequestInv, InInbox
<1> QED
  BY <1>2, <1>3, <1>4, <1>5

LEMMA ReturnCancelledKeeps ==
    ASSUME ClientInv, NEW c \in Calls, ReturnCancelled(c)
    PROVE  ClientInv'
<1> USE DEF ClientInv, OwnAnswer, ReturnCancelled
<1>1. TypeOK'
  BY MessageKinds DEF TypeOK, ReaderInv, Message
<1>2. OwnAnswer'
  BY <1>1 DEF TypeOK, CallInv, ReaderInv, RequestInv, InInbox, Ranging
<1>3. CallInv'
  BY DEF TypeOK, CallInv, ReaderInv
<1>4. ReaderInv'
  BY DEF TypeOK, CallInv, ReaderInv, RequestInv, InInbox, Ranging
<1>5. RequestInv'
  BY DEF TypeOK, CallInv, RequestInv, InInbox
<1> QED
  BY <1>2, <1>3, <1>4, <1>5

LEMMA LeaveKeeps ==
    ASSUME ClientInv, NEW c \in Calls, Leave(c)
    PROVE  ClientInv'
<1> USE DEF ClientInv, OwnAnswer, Leave
<1>1. TypeOK'
  BY MessageKinds DEF TypeOK, ReaderInv, Message
<1>2. OwnAnswer'
  BY <1>1 DEF TypeOK, CallInv, ReaderInv, RequestInv, InInbox, Ranging
<1>3. CallInv'
  BY DEF TypeOK, CallInv, ReaderInv
<1>4. ReaderInv'
  BY DEF TypeOK, CallInv, ReaderInv, RequestInv, InInbox, Ranging
<1>5. RequestInv'
  BY DEF TypeOK, CallInv, RequestInv, InInbox
<1> QED
  BY <1>2, <1>3, <1>4, <1>5

LEMMA CancelKeeps ==
    ASSUME ClientInv, NEW c \in Calls, Cancel(c)
    PROVE  ClientInv'
<1> USE DEF ClientInv, OwnAnswer, Cancel
<1>1. TypeOK'
  BY MessageKinds DEF TypeOK, ReaderInv, Message
<1>2. OwnAnswer'
  BY <1>1 DEF TypeOK, CallInv, ReaderInv, RequestInv, InInbox, Ranging
<1>3. CallInv'
  BY DEF TypeOK, CallInv, ReaderInv
<1>4. ReaderInv'
  BY DEF TypeOK, CallInv, ReaderInv, RequestInv, InInbox, Ranging
<1>5. RequestInv'
  BY DEF TypeOK, CallInv, RequestInv, InInbox
<1> QED
  BY <1>2, <1>3, <1>4, <1>5

LEMMA AnswerKeeps ==
    ASSUME ClientInv, NEW c \in Calls, Answer(c)
    PROVE  ClientInv'
<1> USE DEF ClientInv, OwnAnswer, Answer
<1> USE DEF Response, EventMsg
<1>1. TypeOK'
  BY MessageKinds DEF TypeOK, ReaderInv, Message
<1>2. OwnAnswer'
  BY <1>1 DEF TypeOK, CallInv, ReaderInv, RequestInv, InInbox, Ranging
<1>3. CallInv'
  BY DEF TypeOK, CallInv, ReaderInv
<1>4. ReaderInv'
  BY DEF TypeOK, CallInv, ReaderInv, RequestInv, InInbox, Ranging
<1>5. RequestInv'
  BY DEF TypeOK, CallInv, RequestInv, InInbox
<1> QED
  BY <1>2, <1>3, <1>4, <1>5

LEMMA ReadResponseKeeps ==
    ASSUME ClientInv, NEW c \in Calls, ReadResponse(c)
    PROVE  ClientInv'
<1> USE DEF ClientInv, OwnAnswer, ReadResponse, RunCallback
<1>1. TypeOK'
  BY MessageKinds DEF TypeOK, ReaderInv, Message
<1>2. OwnAnswer'
  BY <1>1 DEF TypeOK, CallInv, ReaderInv, RequestInv, InInbox, Ranging
<1>3. CallInv'
  BY DEF TypeOK, CallInv, ReaderInv
<1>4. ReaderInv'
  BY DEF TypeOK, CallInv, ReaderInv, RequestInv, InInbox, Ranging
<1>5. RequestInv'
  BY DEF TypeOK, CallInv, RequestInv, InInbox
<1> QED
  BY <1>2, <1>3, <1>4, <1>5

LEMMA HandOverKeeps ==
    ASSUME ClientInv, NEW c \in Calls, HandOver(c)
    PROVE  ClientInv'
<1> USE DEF ClientInv, OwnAnswer, HandOver, AfterCallback
<1>1. TypeOK'
  BY MessageKinds DEF TypeOK, ReaderInv, Message
<1>2. OwnAnswer'
  BY <1>1 DEF TypeOK, CallInv, ReaderInv, RequestInv, InInbox, Ranging
<1>3. CallInv'
  BY DEF TypeOK, CallInv, ReaderInv
<1>4. ReaderInv'
  BY DEF TypeOK, CallInv, ReaderInv, RequestInv, InInbox, Ranging
<1>5. RequestInv'
  BY DEF TypeOK, CallInv, RequestInv, InInbox
<1> QED
  BY <1>2, <1>3, <1>4, <1>5

LEMMA HandSkipKeeps ==
    ASSUME ClientInv, NEW c \in Calls, HandSkip(c)
    PROVE  ClientInv'
<1> USE DEF ClientInv, OwnAnswer, HandSkip, AfterCallback
<1>1. TypeOK'
  BY MessageKinds DEF TypeOK, ReaderInv, Message
<1>2. OwnAnswer'
  BY <1>1 DEF TypeOK, CallInv, ReaderInv, RequestInv, InInbox, Ranging
<1>3. CallInv'
  BY DEF TypeOK, CallInv, ReaderInv
<1>4. ReaderInv'
  BY DEF TypeOK, CallInv, ReaderInv, RequestInv, InInbox, Ranging
<1>5. RequestInv'
  BY DEF TypeOK, CallInv, RequestInv, InInbox
<1> QED
  BY <1>2, <1>3, <1>4, <1>5

LEMMA RangeVisitKeeps ==
    ASSUME ClientInv, NEW c \in Calls, RangeVisit(c)
    PROVE  ClientInv'
<1> USE DEF ClientInv, OwnAnswer, RangeVisit, RunCallback
<1>1. TypeOK'
  BY MessageKinds DEF TypeOK, ReaderInv, Message
<1>2. OwnAnswer'
  BY <1>1 DEF TypeOK, CallInv, ReaderInv, RequestInv, InInbox, Ranging
<1>3. CallInv'
  BY DEF TypeOK, CallInv, ReaderInv
<1>4. ReaderInv'
  BY DEF TypeOK, CallInv, ReaderInv, RequestInv, InInbox, Ranging
<1>5. RequestInv'
  BY DEF TypeOK, CallInv, RequestInv, InInbox
<1> QED
  BY <1>2, <1>3, <1>4, <1>5

LEMMA EmitKeeps ==
    ASSUME ClientInv, Emit
    PROVE  ClientInv'
<1> USE DEF ClientInv, OwnAnswer, Emit
<1> USE DEF Response, EventMsg
<1>1. TypeOK'
  BY MessageKinds DEF TypeOK, ReaderInv, Message
<1>2. OwnAnswer'
  BY <1>1 DEF TypeOK, CallInv, ReaderInv, RequestInv, InInbox, Ranging
<1>3. CallInv'
  BY DEF TypeOK, CallInv, ReaderInv
<1>4. ReaderInv'
  BY SMTT(30) DEF TypeOK, CallInv, ReaderInv, RequestInv, InInbox, Ranging
<1>5. RequestInv'
  BY SMTT(30) DEF TypeOK, CallInv, RequestInv, InInbox
<1> QED
  BY <1>2, <1>3, <1>4, <1>5

LEMMA CrashKeeps ==
    ASSUME ClientInv, Crash
    PROVE  ClientInv'
<1> USE DEF ClientInv, OwnAnswer, Crash
<1>1. TypeOK'
  BY MessageKinds DEF TypeOK, ReaderInv, Message
<1>2. OwnAnswer'
  BY <1>1 DEF TypeOK, CallInv, ReaderInv, RequestInv, InInbox, Ranging
<1>3. CallInv'
  BY DEF TypeOK, CallInv, ReaderInv
<1>4. ReaderInv'
  BY DEF TypeOK, CallInv, ReaderInv, RequestInv, InInbox, Ranging
<1>5. RequestInv'
  BY DEF TypeOK, CallInv, RequestInv, InInbox
<1> QED
  BY <1>2, <1>3, <1>4, <1>5

LEMMA ReadEventKeeps ==
    ASSUME ClientInv, ReadEvent
    PROVE  ClientInv'
<1> USE DEF ClientInv, OwnAnswer, ReadEvent
<1>1. TypeOK'
  BY MessageKinds DEF TypeOK, ReaderInv, Message
<1>2. OwnAnswer'
  BY <1>1 DEF TypeOK, CallInv, ReaderInv, RequestInv, InInbox, Ranging
<1>3. CallInv'
  BY DEF TypeOK, CallInv, ReaderInv
<1>4. ReaderInv'
  BY DEF TypeOK, CallInv, ReaderInv, RequestInv, InInbox, Ranging
<1>5. RequestInv'
  BY DEF TypeOK, CallInv, RequestInv, InInbox
<1> QED
  BY <1>2, <1>3, <1>4, <1>5

LEMMA EmitEventKeeps ==
    ASSUME ClientInv, EmitEvent
    PROVE  ClientInv'
<1> USE DEF ClientInv, OwnAnswer, EmitEvent
<1>1. TypeOK'
  <2>1. Head(inbox) \in Message /\ Head(inbox).id = None
    BY DEF TypeOK, ReaderInv
  <2>2. Head(inbox).event \in 1..MaxEvents
    BY <2>1, MessageKinds
  <2>3. events' \in Seq(1..MaxEvents)
    BY <2>2 DEF TypeOK
  <2>4. inbox' \in Seq(Message)
    BY DEF TypeOK, ReaderInv
  <2> QED
    BY <2>3, <2>4 DEF TypeOK
<1>2. OwnAnswer'
  BY <1>1 DEF TypeOK, CallInv, ReaderInv, RequestInv, InInbox, Ranging
<1>3. CallInv'
  BY DEF TypeOK, CallInv, ReaderInv
<1>4. ReaderInv'
  BY DEF TypeOK, CallInv, ReaderInv, RequestInv, InInbox, Ranging
<1>5. RequestInv'
  BY DEF TypeOK, CallInv, RequestInv, InInbox
<1> QED
  BY <1>2, <1>3, <1>4, <1>5

LEMMA ReadFailKeeps ==
    ASSUME ClientInv, ReadFail
    PROVE  ClientInv'
<1> USE DEF ClientInv, OwnAnswer, ReadFail
<1>1. TypeOK'
  BY MessageKinds DEF TypeOK, ReaderInv, Message
<1>2. OwnAnswer'
  BY <1>1 DEF TypeOK, CallInv, ReaderInv, RequestInv, InInbox, Ranging
<1>3. CallInv'
  BY DEF TypeOK, CallInv, ReaderInv
<1>4. ReaderInv'
  BY DEF TypeOK, CallInv, ReaderInv, RequestInv, InInbox, Ranging
<1>5. RequestInv'
  BY DEF TypeOK, CallInv, RequestInv, InInbox
<1> QED
  BY <1>2, <1>3, <1>4, <1>5

LEMMA RangeEndKeeps ==
    ASSUME ClientInv, RangeEnd
    PROVE  ClientInv'
<1> USE DEF ClientInv, OwnAnswer, RangeEnd
<1>1. TypeOK'
  BY MessageKinds DEF TypeOK, ReaderInv, Message
<1>2. OwnAnswer'
  BY <1>1 DEF TypeOK, CallInv, ReaderInv, RequestInv, InInbox, Ranging
<1>3. CallInv'
  BY DEF TypeOK, CallInv, ReaderInv
<1>4. ReaderInv'
  BY DEF TypeOK, CallInv, ReaderInv, RequestInv, InInbox, Ranging
<1>5. RequestInv'
  BY DEF TypeOK, CallInv, RequestInv, InInbox
<1> QED
  BY <1>2, <1>3, <1>4, <1>5

(* A client that has done nothing yet. *)
LEMMA ClientBegins == Init => ClientInv
  BY DEF Init, ClientInv, OwnAnswer, TypeOK, CallInv, ReaderInv, RequestInv, InInbox, Ranging

(* Every step of a call, of the reader and of the browser. *)
LEMMA ClientStep == ClientInv /\ [Next]_vars => ClientInv'
<1> SUFFICES ASSUME ClientInv, [Next]_vars
             PROVE  ClientInv'
  OBVIOUS
<1>1. ASSUME NEW c \in Calls, Store(c)
      PROVE  ClientInv'
  BY <1>1, StoreKeeps
<1>2. ASSUME NEW c \in Calls, SendOk(c)
      PROVE  ClientInv'
  BY <1>2, SendOkKeeps
<1>3. ASSUME NEW c \in Calls, SendFail(c)
      PROVE  ClientInv'
  BY <1>3, SendFailKeeps
<1>4. ASSUME NEW c \in Calls, ReturnCancelled(c)
      PROVE  ClientInv'
  BY <1>4, ReturnCancelledKeeps
<1>5. ASSUME NEW c \in Calls, Leave(c)
      PROVE  ClientInv'
  BY <1>5, LeaveKeeps
<1>6. ASSUME NEW c \in Calls, Cancel(c)
      PROVE  ClientInv'
  BY <1>6, CancelKeeps
<1>7. ASSUME NEW c \in Calls, Answer(c)
      PROVE  ClientInv'
  BY <1>7, AnswerKeeps
<1>8. ASSUME NEW c \in Calls, ReadResponse(c)
      PROVE  ClientInv'
  BY <1>8, ReadResponseKeeps
<1>9. ASSUME NEW c \in Calls, HandOver(c)
      PROVE  ClientInv'
  BY <1>9, HandOverKeeps
<1>10. ASSUME NEW c \in Calls, HandSkip(c)
      PROVE  ClientInv'
  BY <1>10, HandSkipKeeps
<1>11. ASSUME NEW c \in Calls, RangeVisit(c)
      PROVE  ClientInv'
  BY <1>11, RangeVisitKeeps
<1>12. CASE Emit
  BY <1>12, EmitKeeps
<1>13. CASE Crash
  BY <1>13, CrashKeeps
<1>14. CASE ReadEvent
  BY <1>14, ReadEventKeeps
<1>15. CASE EmitEvent
  BY <1>15, EmitEventKeeps
<1>16. CASE ReadFail
  BY <1>16, ReadFailKeeps
<1>17. CASE RangeEnd
  BY <1>17, RangeEndKeeps
<1>18. CASE UNCHANGED vars
  BY <1>18 DEF vars, ClientInv, OwnAnswer, TypeOK, CallInv, ReaderInv, RequestInv, InInbox,
     Ranging, AfterCallback
<1> QED
  BY <1>1, <1>2, <1>3, <1>4, <1>5, <1>6, <1>7, <1>8, <1>9, <1>10, <1>11, <1>12, <1>13, <1>14, <1>15, <1>16, <1>17, <1>18
     DEF Next, CallStep, BrowserStep, ReaderStep

(* The invariant holds of the client, whatever the browser does. *)
THEOREM ClientInvariant == Spec => []ClientInv
  BY ClientBegins, ClientStep, PTL DEF Spec

(* Every call returns its own response or an error, and no response that   *)
(* the reader has read is lost but to a call whose context is done.        *)
THEOREM EveryCallItsAnswer == Spec => []OwnAnswer
<1>1. ClientInv => OwnAnswer
  BY DEF ClientInv
<1> QED
  BY <1>1, ClientInvariant, PTL

(* The reader is held only by the callback of a call whose Send failed.    *)
THEOREM HeldOnlyBySendError == Spec => []AbandonedOnlyBySendError
<1>1. ClientInv => AbandonedOnlyBySendError
  <2> SUFFICES ASSUME ClientInv, NEW c \in Calls, Abandoned(c)
               PROVE  ret[c] = "sendError"
    BY DEF AbandonedOnlyBySendError
  <2>1. /\ ret[c] \in {"none"} \cup Errors \cup Calls
        /\ ret[c] \in Calls => ret[c] = c
    BY DEF ClientInv, OwnAnswer, TypeOK
  <2>2. hand = c /\ ~cancelled[c] /\ pc[c] \in {"leave", "returned"}
    BY DEF Abandoned
  <2> QED
    BY <2>1, <2>2 DEF ClientInv, CallInv, Errors
<1> QED
  BY <1>1, ClientInvariant, PTL

-----------------------------------------------------------------------------
(* The client used by event loops *)

(* A step of the composition is one of the client, or none of it. *)
LEMMA LoopStepIsClientStep == [LoopNext]_all => [Next]_vars
<1> SUFFICES ASSUME [LoopNext]_all
             PROVE  [Next]_vars
  OBVIOUS
<1> USE DEF CallStep, BrowserStep, ReaderStep
<1>1. ASSUME ReaderAlone
      PROVE  Next
  BY <1>1 DEF ReaderAlone, Next
<1>2. ASSUME Client
      PROVE  Next
  BY <1>2 DEF Client, Progress, Next
<1>3. ASSUME Carry
      PROVE  Next
  BY <1>3 DEF Carry, Next
<1>4. ASSUME Publish \/ EndHub
      PROVE  UNCHANGED vars
  BY <1>4 DEF Publish, EndHub
<1>5. ASSUME NEW l \in Listeners, EndListener(l)
      PROVE  [Next]_vars
  <2>1. CallOf[l] # None => CallOf[l] \in Calls
    BY EventLoopAssumption
  <2> QED
    BY <1>5, <2>1 DEF EndListener, Next
<1>6. ASSUME NEW l \in Listeners, Listener(l)
      PROVE  [Next]_vars
  <2>1. CASE CallBrowser(l)
    <3>1. CallOf[l] \in Calls
      BY <2>1, EventLoopAssumption DEF CallBrowser
    <3> QED
      BY <2>1, <3>1 DEF CallBrowser, Next
  <2>2. CASE Take(l) \/ CallbackReturns(l) \/ CloseChannel(l) \/ LoopReturns(l)
    BY <2>2 DEF Take, CallbackReturns, CloseChannel, LoopReturns
  <2> QED
    BY <1>6, <2>1, <2>2 DEF Listener
<1>7. ASSUME NEW l \in Listeners, Listen(l)
      PROVE  UNCHANGED vars
  BY <1>7 DEF Listen
<1>8. ASSUME UNCHANGED all
      PROVE  UNCHANGED vars
  BY <1>8 DEF all
<1> QED
  BY <1>1, <1>2, <1>3, <1>4, <1>5, <1>6, <1>7, <1>8 DEF LoopNext

(* The composition implements the client's specification. *)
THEOREM LoopIsClient == LoopSpec => Spec
<1>1. LoopInit => Init
  BY DEF LoopInit
<1> QED
  BY <1>1, LoopStepIsClientStep, PTL DEF LoopSpec, Spec

(* Calls made by the callbacks of events return their own responses, too,  *)
(* and only a failed Send holds the reader.                                *)
THEOREM LoopCallsItsAnswer == LoopSpec => [](OwnAnswer /\ AbandonedOnlyBySendError)
  BY LoopIsClient, EveryCallItsAnswer, HeldOnlyBySendError, PTL

-----------------------------------------------------------------------------
(* What the client promises to those who call *)

(* This side closes the socket after the browser has gone. *)
LEMMA LostStep == LostByPeer /\ [Next]_vars => LostByPeer'
<1> SUFFICES ASSUME LostByPeer, [Next]_vars
             PROVE  LostByPeer'
  OBVIOUS
<1> USE DEF LostByPeer
<1>1. ASSUME NEW c \in Calls, CallStep(c)
      PROVE  LostByPeer'
  BY <1>1 DEF CallStep, Store, SendOk, SendFail, ReturnCancelled, Leave, Cancel
<1>2. CASE BrowserStep
  BY <1>2 DEF BrowserStep, Answer, Emit, Crash
<1>3. CASE ReadEvent \/ EmitEvent \/ ReadFail \/ RangeEnd
  BY <1>3 DEF ReadEvent, EmitEvent, ReadFail, RangeEnd
<1>4. ASSUME NEW c \in Calls, ReadResponse(c)
      PROVE  LostByPeer'
  <2>1. c # "readError"
    OBVIOUS
  <2> QED
    BY <1>4, <2>1 DEF ReadResponse, RunCallback
<1>5. ASSUME NEW c \in Calls, HandOver(c) \/ HandSkip(c)
      PROVE  LostByPeer'
  BY <1>5 DEF HandOver, HandSkip, AfterCallback
<1>6. ASSUME NEW c \in Calls, RangeVisit(c)
      PROVE  LostByPeer'
  BY <1>6 DEF RangeVisit, RunCallback
<1>7. CASE UNCHANGED vars
  BY <1>7 DEF vars
<1> QED
  BY <1>1, <1>2, <1>3, <1>4, <1>5, <1>6, <1>7 DEF Next, ReaderStep

(* What the browser has carried out: its responses, read or not. *)
Performed == {c \in Calls : InInbox(c) \/ c \in answered}
Asked == {c \in Calls : pc[c] # "idle"}

(* A step that leaves the inbox and what was read of it alone. *)
LEMMA SamePerformed ==
    ASSUME inbox' = inbox, answered' = answered
    PROVE  Performed' = Performed
  BY DEF Performed, InInbox

(* A response that is sent is one more, an event none. *)
LEMMA PerformedAndSent ==
    ASSUME TypeOK, NEW msg \in Message, inbox' = Append(inbox, msg), answered' = answered
    PROVE  Performed' = Performed \cup ({msg.id} \cap Calls)
<1>1. PICK l : l = Len(inbox)
  OBVIOUS
<1>2. l \in Nat /\ Len(inbox') = l + 1 /\ inbox'[l + 1] = msg /\ \A i \in 1..l : inbox'[i] = inbox[i]
  BY <1>1 DEF TypeOK
<1>3. \A i \in 1..(l + 1) : i = l + 1 \/ i \in 1..l
  BY <1>2
<1>4. l + 1 \in 1..(l + 1) /\ \A i \in 1..l : i \in 1..(l + 1)
  BY <1>2
<1>5. ASSUME NEW c \in Calls
      PROVE  InInbox(c)' <=> InInbox(c) \/ c = msg.id
  BY <1>1, <1>2, <1>3, <1>4 DEF InInbox
<1> QED
  BY <1>5 DEF Performed

(* The first message that is read was sent before. *)
LEMMA PerformedAndRead ==
    ASSUME TypeOK, inbox # << >>, inbox' = Tail(inbox), answered' = answered \cup ({Head(inbox).id} \cap Calls)
    PROVE  Performed' = Performed
<1>1. PICK l : l = Len(inbox)
  OBVIOUS
<1>2. /\ l \in Nat /\ l # 0 /\ Len(inbox') = l - 1 /\ Head(inbox) = inbox[1]
      /\ \A i \in 1..(l - 1) : inbox'[i] = inbox[i + 1]
  BY <1>1 DEF TypeOK
<1>3. \A i \in 1..l : i = 1 \/ (i - 1 \in 1..(l - 1) /\ (i - 1) + 1 = i)
  BY <1>2
<1>4. 1 \in 1..l /\ \A i \in 1..(l - 1) : i + 1 \in 1..l
  BY <1>2
<1>5. ASSUME NEW c \in Calls, InInbox(c)'
      PROVE  InInbox(c)
  BY <1>1, <1>2, <1>4, <1>5 DEF InInbox
<1>6. ASSUME NEW c \in Calls, InInbox(c)
      PROVE  InInbox(c)' \/ c = Head(inbox).id
  BY <1>1, <1>2, <1>3, <1>6 DEF InInbox
<1>7. ASSUME NEW c \in Calls, c = Head(inbox).id
      PROVE  InInbox(c)
  BY <1>1, <1>2, <1>4, <1>7 DEF InInbox
<1> QED
  BY <1>5, <1>6, <1>7 DEF Performed

(* What a call does is one of the promised steps, or nothing that others   *)
(* can see.                                                                *)
LEMMA CallServes ==
    ASSUME ClientInv, LostByPeer, NEW c \in Calls, CallStep(c)
    PROVE  [Service!Next]_(Service!vars)
<1> USE DEF Service!vars, Service!Next
<1>0. TypeOK /\ CallInv /\ RequestInv
  BY DEF ClientInv, OwnAnswer
<1>1. Performed' = Performed
  BY SamePerformed DEF CallStep, Store, SendOk, SendFail, ReturnCancelled, Leave, Cancel
<1>2. CASE Store(c)
  <2>1. Asked' = Asked \cup {c} /\ c \notin Asked
    BY <1>0, <1>2 DEF Store, Asked, TypeOK
  <2>2. Service!Ask(c)
    BY <1>1, <1>2, <2>1 DEF Service!Ask, Store, Asked, Performed
  <2> QED
    BY <2>2
<1>3. CASE SendOk(c)
  <2>1. Asked' = Asked
    BY <1>0, <1>3 DEF SendOk, Asked, TypeOK
  <2> QED
    BY <1>1, <1>3, <2>1 DEF SendOk, Asked, Performed
<1>4. CASE SendFail(c)
  <2>1. Asked' = Asked /\ c \in Asked /\ ret[c] = "none" /\ c \notin Performed /\ peer = "down"
    BY <1>0, <1>4 DEF SendFail, Asked, Performed, TypeOK, CallInv, RequestInv, LostByPeer
  <2>2. Service!Ending(c, "sendError")
    BY <2>1 DEF Service!Ending, Performed
  <2>3. Service!End(c)
    BY <1>1, <1>4, <2>1, <2>2 DEF Service!End, SendFail, Asked, Performed
  <2> QED
    BY <2>3
<1>5. CASE ReturnCancelled(c)
  <2>1. Asked' = Asked /\ c \in Asked /\ ret[c] = "none" /\ cancelled[c]
    BY <1>0, <1>5 DEF ReturnCancelled, Asked, TypeOK, CallInv
  <2>2. Service!Ending(c, "ctxError")
    BY <2>1 DEF Service!Ending
  <2>3. Service!End(c)
    BY <1>1, <1>5, <2>1, <2>2 DEF Service!End, ReturnCancelled, Asked, Performed
  <2> QED
    BY <2>3
<1>6. CASE Leave(c)
  <2>1. Asked' = Asked
    BY <1>0, <1>6 DEF Leave, Asked, TypeOK
  <2> QED
    BY <1>1, <1>6, <2>1 DEF Leave, Asked, Performed
<1>7. CASE Cancel(c)
  <2>1. Service!GiveUp(c)
    BY <1>1, <1>7 DEF Service!GiveUp, Cancel, Asked, Performed
  <2> QED
    BY <2>1
<1> QED
  BY <1>2, <1>3, <1>4, <1>5, <1>6, <1>7 DEF CallStep

(* So is what the browser does. *)
LEMMA BrowserServes ==
    ASSUME ClientInv, BrowserStep
    PROVE  [Service!Next]_(Service!vars)
<1> USE DEF Service!vars, Service!Next
<1>0. TypeOK /\ CallInv /\ RequestInv
  BY DEF ClientInv, OwnAnswer
<1>1. ASSUME NEW c \in Calls, Answer(c)
      PROVE  Service!Perform(c)
  <2>1. Response(c) \in Message /\ Response(c).id = c
    BY DEF Message, Response
  <2>2. Performed' = Performed \cup {c}
    BY <1>0, <1>1, <2>1, PerformedAndSent DEF Answer
  <2>3. c \notin Performed /\ c \in Asked /\ ret[c] # "sendError" /\ peer = "up"
    BY <1>0, <1>1 DEF Answer, Performed, Asked, RequestInv
  <2> QED
    BY <1>1, <2>2, <2>3 DEF Service!Perform, Answer, Performed, Asked
<1>2. CASE Emit
  <2>1. EventMsg(emitted + 1) \in Message /\ EventMsg(emitted + 1).id = None
    <3>1. emitted + 1 \in 1..MaxEvents
      BY <1>0, <1>2 DEF Emit, TypeOK
    <3> QED
      BY <3>1 DEF Message, EventMsg
  <2>2. Performed' = Performed
    BY <1>0, <1>2, <2>1, PerformedAndSent DEF Emit
  <2> QED
    BY <1>2, <2>2 DEF Emit, Performed
<1>3. CASE Crash
  <2>1. Performed' = Performed
    BY <1>3, SamePerformed DEF Crash
  <2>2. Service!Disappear
    BY <1>3, <2>1 DEF Service!Disappear, Crash, Performed
  <2> QED
    BY <2>2
<1> QED
  BY <1>1, <1>2, <1>3 DEF BrowserStep

(* And what the reader does. *)
LEMMA ReaderServes ==
    ASSUME ClientInv, LostByPeer, ReaderStep
    PROVE  [Service!Next]_(Service!vars)
<1> USE DEF Service!vars, Service!Next
<1>0. TypeOK /\ CallInv /\ RequestInv /\ ReaderInv
  BY DEF ClientInv, OwnAnswer
<1>1. CASE ReadEvent \/ ReadFail \/ RangeEnd
  <2>1. Performed' = Performed
    BY <1>1, SamePerformed DEF ReadEvent, ReadFail, RangeEnd
  <2> QED
    BY <1>1, <2>1 DEF ReadEvent, ReadFail, RangeEnd, Performed
<1>2. CASE EmitEvent
  <2>1. inbox # << >> /\ Head(inbox).id = None
    BY <1>0, <1>2 DEF EmitEvent, ReaderInv
  <2>2. Performed' = Performed
    BY <1>0, <1>2, <2>1, PerformedAndRead DEF EmitEvent
  <2> QED
    BY <1>2, <2>2 DEF EmitEvent, Performed
<1>3. ASSUME NEW c \in Calls, ReadResponse(c)
      PROVE  UNCHANGED Service!vars
  <2>1. Performed' = Performed
    BY <1>0, <1>3, PerformedAndRead DEF ReadResponse
  <2> QED
    BY <1>3, <2>1 DEF ReadResponse, Performed
<1>4. ASSUME NEW c \in Calls, HandOver(c)
      PROVE  Service!End(c)
  <2>1. Performed' = Performed
    BY <1>4, SamePerformed DEF HandOver
  <2>2. Asked' = Asked /\ c \in Asked /\ ret[c] = "none"
    BY <1>0, <1>4 DEF HandOver, Asked, TypeOK, CallInv
  <2>3. result = c \/ result = "readError"
    BY <1>0, <1>4 DEF HandOver, TypeOK, ReaderInv
  <2>4. Service!Ending(c, result)
    BY <1>0, <1>4, <2>3 DEF HandOver, Service!Ending, ReaderInv, LostByPeer
  <2> QED
    BY <1>4, <2>1, <2>2, <2>3, <2>4 DEF Service!End, HandOver, Asked, Performed
<1>5. ASSUME NEW c \in Calls, HandSkip(c) \/ RangeVisit(c)
      PROVE  UNCHANGED Service!vars
  <2>1. Performed' = Performed
    BY <1>5, SamePerformed DEF HandSkip, RangeVisit
  <2> QED
    BY <1>5, <2>1 DEF HandSkip, RangeVisit, Performed
<1> QED
  BY <1>1, <1>2, <1>3, <1>4, <1>5 DEF ReaderStep

(* The client implements RemoteCalls: a call is carried out at most once,  *)
(* never after its Send has failed, and ends once, with its own answer or  *)
(* an error that has its reason.                                           *)
THEOREM ImplementsRemoteCalls == Spec => ServiceSpec
<1>1. Init => Service!Init /\ LostByPeer
  <2> SUFFICES ASSUME Init
               PROVE  Service!Init /\ LostByPeer
    OBVIOUS
  <2>1. \A c \in Calls : pc[c] = "idle" /\ ~InInbox(c) /\ c \notin answered
    BY DEF Init, InInbox
  <2> QED
    BY <2>1 DEF Init, Service!Init, LostByPeer
<1>2. ClientInv /\ LostByPeer /\ [Next]_vars => [Service!Next]_(Service!vars)
  <2>1. UNCHANGED vars => UNCHANGED Service!vars
    BY DEF vars, Service!vars, InInbox
  <2> QED
    BY <2>1, CallServes, BrowserServes, ReaderServes DEF Next
<1> QED
  BY <1>1, <1>2, LostStep, ClientInvariant, PTL DEF Spec, Service!Spec, ServiceSpec

(* So does the client that event loops use. *)
THEOREM LoopServesCalls == LoopSpec => ServiceSpec
  BY LoopIsClient, ImplementsRemoteCalls, PTL

-----------------------------------------------------------------------------
(* The events that the client reads *)

(* The events in the inbox are those that the browser has emitted and      *)
(* nobody has received, in order, with responses in between.               *)
EventInv ==
    /\ Len(events) <= emitted
    /\ \A i \in 1..Len(events) : events[i] = i
    /\ \A i \in 1..Len(inbox) : inbox[i].id = None =>
         inbox[i].event \in (Len(events) + 1)..emitted
    /\ \A i, j \in 1..Len(inbox) :
         inbox[i].id = None /\ inbox[j].id = None /\ i < j => inbox[i].event < inbox[j].event
    /\ \A n \in (Len(events) + 1)..emitted :
         \E i \in 1..Len(inbox) : inbox[i].id = None /\ inbox[i].event = n

(* What is left of the inbox. *)
LEMMA Read ==
    ASSUME TypeOK, inbox # << >>, inbox' = Tail(inbox)
    PROVE  /\ Len(inbox) \in Nat \ {0} /\ Len(inbox') = Len(inbox) - 1 /\ Head(inbox) = inbox[1]
           /\ \A i \in 1..Len(inbox') : i + 1 \in 1..Len(inbox) /\ inbox'[i] = inbox[i + 1]
           /\ \A i \in 1..Len(inbox) : i # 1 => i - 1 \in 1..Len(inbox') /\ inbox'[i - 1] = inbox[i]
<1>1. inbox \in Seq(Message) /\ Len(inbox) \in Nat \ {0}
  BY DEF TypeOK
<1>2. /\ Len(inbox') = Len(inbox) - 1 /\ Head(inbox) = inbox[1]
      /\ \A i \in 1..Len(inbox') : i + 1 \in 1..Len(inbox) /\ inbox'[i] = inbox[i + 1]
  BY <1>1
<1>3. \A i \in 1..Len(inbox) : i # 1 => i - 1 \in 1..Len(inbox') /\ (i - 1) + 1 = i
  BY <1>1, <1>2
<1> QED
  BY <1>1, <1>2, <1>3

(* The event that the consumer takes is the next one. *)
LEMMA EmitEventInOrder ==
    ASSUME ClientInv, EventInv, EmitEvent
    PROVE  /\ EventInv' /\ Len(events') = Len(events) + 1
           /\ Head(inbox).event = Len(events) + 1 /\ Head(inbox).event \in 1..MaxEvents
<1>1. /\ inbox # << >> /\ inbox[1].id = None /\ inbox' = Tail(inbox) /\ TypeOK
      /\ Head(inbox) = inbox[1] /\ UNCHANGED emitted
  BY DEF ClientInv, OwnAnswer, ReaderInv, EmitEvent, TypeOK
<1>2. Len(events) \in Nat /\ emitted \in Nat /\ Len(inbox) \in Nat \ {0}
  BY <1>1 DEF TypeOK
<1>3. inbox[1].event = Len(events) + 1
  <2>1. inbox[1].event \in (Len(events) + 1)..emitted
    BY <1>1, <1>2 DEF EventInv
  <2>2. PICK i \in 1..Len(inbox) : inbox[i].id = None /\ inbox[i].event = Len(events) + 1
    BY <1>2, <2>1 DEF EventInv
  <2>3. i # 1 => inbox[1].event < inbox[i].event
    BY <1>1, <1>2, <2>2 DEF EventInv
  <2> QED
    BY <1>2, <2>1, <2>2, <2>3
<1>4. Head(inbox).event = Len(events) + 1 /\ Head(inbox).event \in 1..MaxEvents
  BY <1>1, <1>2, <1>3 DEF EventInv, TypeOK
<1>5. /\ Len(events') = Len(events) + 1 /\ events'[Len(events) + 1] = Len(events) + 1
      /\ \A i \in 1..Len(events) : events'[i] = events[i]
  BY <1>1, <1>4 DEF EmitEvent, TypeOK
<1>6. \A i \in 1..Len(inbox) : inbox[i].id = None /\ i # 1 => inbox[i].event # Len(events) + 1
  BY <1>1, <1>2, <1>3 DEF EventInv
<1>7. EventInv'
  <2>1. /\ Len(events') <= emitted /\ \A i \in 1..Len(events') : events'[i] = i
        /\ \A i \in 1..Len(inbox') : inbox'[i].id = None =>
             inbox'[i].event \in (Len(events') + 1)..emitted
    BY SMTT(30), <1>1, <1>2, <1>3, <1>5, <1>6, Read DEF EventInv
  <2>2. \A i, j \in 1..Len(inbox') :
          inbox'[i].id = None /\ inbox'[j].id = None /\ i < j => inbox'[i].event < inbox'[j].event
    BY SMTT(30), <1>1, <1>2, Read DEF EventInv
  <2>3. ASSUME NEW n \in (Len(events') + 1)..emitted
        PROVE  \E i \in 1..Len(inbox') : inbox'[i].id = None /\ inbox'[i].event = n
    <3>1. PICK i \in 1..Len(inbox) : inbox[i].id = None /\ inbox[i].event = n
      BY <1>2, <1>5, <2>3 DEF EventInv
    <3>2. i # 1
      BY <1>2, <1>3, <1>5, <3>1
    <3> QED
      BY <1>1, <3>1, <3>2, Read
  <2> QED
    BY <1>1, <2>1, <2>2, <2>3 DEF EventInv
<1> QED
  BY <1>4, <1>5, <1>7

LEMMA ReadResponseInOrder ==
    ASSUME ClientInv, EventInv, NEW c \in Calls, ReadResponse(c)
    PROVE  EventInv'
<1>1. /\ inbox # << >> /\ inbox' = Tail(inbox) /\ TypeOK /\ UNCHANGED <<emitted, events>>
      /\ inbox[1].id = c
  BY DEF ClientInv, OwnAnswer, ReadResponse, TypeOK
<1>2. inbox[1].id # None
  BY <1>1
<1>3. Len(inbox) \in Nat \ {0}
  BY <1>1 DEF TypeOK
<1>4. /\ \A i \in 1..Len(inbox') : inbox'[i].id = None =>
           inbox'[i].event \in (Len(events) + 1)..emitted
      /\ \A i, j \in 1..Len(inbox') :
          inbox'[i].id = None /\ inbox'[j].id = None /\ i < j => inbox'[i].event < inbox'[j].event
  BY SMTT(30), <1>1, <1>3, Read DEF EventInv
<1>5. ASSUME NEW n \in (Len(events) + 1)..emitted
      PROVE  \E i \in 1..Len(inbox') : inbox'[i].id = None /\ inbox'[i].event = n
  <2>1. PICK i \in 1..Len(inbox) : inbox[i].id = None /\ inbox[i].event = n
    BY <1>5 DEF EventInv
  <2> QED
    BY <1>1, <1>2, <2>1, Read
<1> QED
  BY <1>1, <1>4, <1>5 DEF EventInv

(* The browser sends a response, or the next event. *)
LEMMA SentInOrder ==
    ASSUME ClientInv, EventInv, UNCHANGED events, NEW msg \in Message, inbox' = Append(inbox, msg),
           \/ msg.id # None /\ UNCHANGED emitted
           \/ msg.id = None /\ msg.event = emitted + 1 /\ emitted' = emitted + 1
    PROVE  EventInv'
<1>1. /\ inbox \in Seq(Message) /\ Len(inbox) \in Nat /\ emitted \in Nat /\ Len(events) \in Nat
      /\ emitted' \in {emitted, emitted + 1}
  BY DEF ClientInv, OwnAnswer, TypeOK
<1>2. /\ Len(inbox') = Len(inbox) + 1 /\ inbox'[Len(inbox) + 1] = msg
      /\ \A i \in 1..Len(inbox) : inbox'[i] = inbox[i]
  BY <1>1
<1>3. ASSUME NEW i \in 1..Len(inbox'), inbox'[i].id = None
      PROVE  inbox'[i].event \in (Len(events) + 1)..emitted'
  <2>1. CASE i \in 1..Len(inbox)
    BY <1>1, <1>2, <1>3, <2>1 DEF EventInv
  <2>2. CASE i = Len(inbox) + 1
    BY <1>1, <1>2, <1>3, <2>2 DEF EventInv
  <2> QED
    BY <1>1, <1>2, <2>1, <2>2
<1>4. ASSUME NEW i \in 1..Len(inbox'), NEW j \in 1..Len(inbox'), i < j,
             inbox'[i].id = None, inbox'[j].id = None
      PROVE  inbox'[i].event < inbox'[j].event
  <2>1. i \in 1..Len(inbox) /\ inbox[i].id = None /\ inbox[i].event \in (Len(events) + 1)..emitted
    BY <1>1, <1>2, <1>4 DEF EventInv
  <2>2. CASE j \in 1..Len(inbox)
    BY <1>2, <1>4, <2>1, <2>2 DEF EventInv
  <2>3. CASE j = Len(inbox) + 1
    BY <1>1, <1>2, <1>4, <2>1, <2>3
  <2> QED
    BY <1>1, <1>2, <2>2, <2>3
<1>5. ASSUME NEW n \in (Len(events) + 1)..emitted'
      PROVE  \E i \in 1..Len(inbox') : inbox'[i].id = None /\ inbox'[i].event = n
  <2>1. CASE n <= emitted
    <3>1. PICK i \in 1..Len(inbox) : inbox[i].id = None /\ inbox[i].event = n
      BY <1>1, <1>5, <2>1 DEF EventInv
    <3> QED
      BY <1>1, <1>2, <3>1
  <2>2. CASE n > emitted
    <3>1. n = emitted + 1 /\ msg.id = None /\ msg.event = n
      BY <1>1, <1>5, <2>2
    <3> QED
      BY <1>1, <1>2, <3>1
  <2> QED
    BY <1>1, <2>1, <2>2
<1>6. Len(events') <= emitted' /\ \A i \in 1..Len(events') : events'[i] = i
  BY <1>1 DEF EventInv
<1> QED
  BY <1>3, <1>4, <1>5, <1>6 DEF EventInv

LEMMA EventsStep == ClientInv /\ EventInv /\ [Next]_vars => EventInv'
<1> SUFFICES ASSUME ClientInv, EventInv, [Next]_vars
             PROVE  EventInv'
  OBVIOUS
<1>1. ASSUME NEW c \in Calls, Answer(c)
      PROVE  EventInv'
  <2>1. Response(c) \in Message /\ Response(c).id # None
    BY DEF Message, Response
  <2> QED
    BY <1>1, <2>1, SentInOrder DEF Answer
<1>2. CASE Emit
  <2>1. emitted + 1 \in 1..MaxEvents
    BY <1>2 DEF Emit, ClientInv, OwnAnswer, TypeOK
  <2>2. /\ EventMsg(emitted + 1) \in Message /\ EventMsg(emitted + 1).id = None
        /\ EventMsg(emitted + 1).event = emitted + 1
    BY <2>1 DEF Message, EventMsg
  <2> QED
    BY <1>2, <2>2, SentInOrder DEF Emit
<1>3. CASE UNCHANGED <<inbox, emitted, events>>
  BY <1>3 DEF EventInv
<1> QED
  BY <1>1, <1>2, <1>3, EmitEventInOrder, ReadResponseInOrder
     DEF Next, CallStep, BrowserStep, ReaderStep, Store, SendOk, SendFail, ReturnCancelled, Leave,
         Cancel, Crash, ReadEvent, HandOver, HandSkip, ReadFail, RangeVisit, RangeEnd, vars

(* The consumer of Client.Event receives the events that the browser       *)
(* emits, in order and none missing (lib/cdp/client.go).                   *)
THEOREM EventsAreRead == Spec => []EventInv
<1>1. Init => EventInv
  BY DEF Init, EventInv
<1> QED
  BY <1>1, EventsStep, ClientInvariant, PTL DEF Spec

-----------------------------------------------------------------------------
(* The events that the loops take *)

(* The hub's log is what the client has handed over, but for the event     *)
(* that is carried to it; every listener stands somewhere in the log.      *)
HubInv ==
    /\ carried \in 1..MaxEvents \cup {None}
    /\ loop \in [Listeners -> {"idle", "range", "callback", "returned"}]
    /\ channel \in [Listeners -> {"new", "open", "closed"}]
    /\ log \in Seq(1..MaxEvents)
    /\ start \in [Listeners -> Nat]
    /\ received \in [Listeners -> Seq(1..MaxEvents)]
    /\ \A i \in 1..Len(log) : log[i] = i
    /\ carried = None => Len(events) = Len(log)
    /\ carried # None => carried = Len(log) + 1 /\ Len(events) = Len(log) + 1
    /\ \A l \in Listeners :
         /\ channel[l] = "new" => received[l] = << >>
         /\ start[l] + Len(received[l]) <= Len(log)
         /\ \A i \in 1..Len(received[l]) : received[l][i] = start[l] + i

USE EventLoopAssumption

LEMMA CarryKeeps ==
    ASSUME ClientInv, EventInv, HubInv, Carry
    PROVE  HubInv'
<1>1. /\ Len(events') = Len(events) + 1 /\ carried' = Len(events) + 1 /\ carried' \in 1..MaxEvents
      /\ UNCHANGED <<loop, channel, log, start, received>> /\ carried = None
  BY EmitEventInOrder DEF Carry, listeners, hub
<1>2. carried' # None
  BY <1>1
<1> QED
  BY <1>1, <1>2 DEF HubInv

LEMMA PublishKeeps ==
    ASSUME HubInv, Publish
    PROVE  HubInv'
<1>1. /\ carried # None /\ carried' = None /\ log' = Append(log, carried)
      /\ UNCHANGED <<events, loop, channel, start, received>>
  BY DEF Publish, Hub!Publish, listeners, vars
<1>2. carried \in 1..MaxEvents /\ log \in Seq(1..MaxEvents) /\ Len(log) \in Nat
  BY <1>1 DEF HubInv
<1>3. /\ log' \in Seq(1..MaxEvents) /\ Len(log') = Len(log) + 1 /\ log'[Len(log) + 1] = carried
      /\ \A i \in 1..Len(log) : log'[i] = log[i]
  BY <1>1, <1>2
<1>4. \A i \in 1..Len(log') : log'[i] = i
  BY <1>1, <1>2, <1>3 DEF HubInv
<1>5. \A l \in Listeners : start[l] + Len(received[l]) <= Len(log')
  BY <1>2, <1>3 DEF HubInv
<1> QED
  BY <1>1, <1>3, <1>4, <1>5 DEF HubInv

LEMMA ListenKeeps ==
    ASSUME HubInv, NEW l \in Listeners, Listen(l)
    PROVE  HubInv'
<1>1. /\ channel[l] = "new" /\ channel' = [channel EXCEPT ![l] = "open"]
      /\ start' = [start EXCEPT ![l] = Len(log)] /\ loop' = [loop EXCEPT ![l] = "range"]
      /\ UNCHANGED <<events, carried, log, received>>
  BY DEF Listen, Hub!Subscribe, carrier, vars
<1>2. Len(log) \in Nat /\ received[l] = << >> /\ Len(received[l]) = 0
  BY <1>1 DEF HubInv
<1>3. /\ loop' \in [Listeners -> {"idle", "range", "callback", "returned"}]
      /\ channel' \in [Listeners -> {"new", "open", "closed"}]
      /\ start' \in [Listeners -> Nat] /\ start'[l] = Len(log)
      /\ \A m \in Listeners : m # l => start'[m] = start[m] /\ channel'[m] = channel[m]
      /\ channel'[l] = "open"
  BY <1>1, <1>2 DEF HubInv
<1>4. \A m \in Listeners :
        /\ channel'[m] = "new" => received[m] = << >>
        /\ start'[m] + Len(received[m]) <= Len(log)
        /\ \A i \in 1..Len(received[m]) : received[m][i] = start'[m] + i
  <2> TAKE m \in Listeners
  <2>1. CASE m = l
    BY <1>2, <1>3, <2>1
  <2>2. CASE m # l
    BY <1>3, <2>2 DEF HubInv
  <2> QED
    BY <2>1, <2>2
<1> QED
  BY <1>1, <1>3, <1>4 DEF HubInv

LEMMA TakeKeeps ==
    ASSUME HubInv, NEW l \in Listeners, Take(l)
    PROVE  HubInv'
<1>1. /\ channel[l] = "open" /\ Hub!Cursor(l) < Len(log)
      /\ received' = [received EXCEPT ![l] = Append(@, log[Hub!Cursor(l) + 1])]
      /\ UNCHANGED <<events, carried, log, channel, start>>
      /\ loop' \in [Listeners -> {"idle", "range", "callback", "returned"}]
  BY DEF Take, Hub!Deliver, carrier, vars, HubInv
<1>2. /\ Hub!Cursor(l) = start[l] + Len(received[l]) /\ start[l] \in Nat
      /\ received[l] \in Seq(1..MaxEvents) /\ Len(received[l]) \in Nat /\ Len(log) \in Nat
  BY DEF Hub!Cursor, HubInv
<1>3. /\ log[Hub!Cursor(l) + 1] = start[l] + (Len(received[l]) + 1)
      /\ log[Hub!Cursor(l) + 1] \in 1..MaxEvents
  <2>1. /\ Hub!Cursor(l) + 1 = start[l] + (Len(received[l]) + 1)
        /\ Hub!Cursor(l) + 1 \in 1..Len(log)
    <3> DEFINE from == start[l]
               taken == Len(received[l])
    <3>1. from \in Nat /\ taken \in Nat /\ Len(log) \in Nat /\ from + taken < Len(log)
      BY <1>1, <1>2
    <3>2. Hub!Cursor(l) = from + taken
      BY <1>2
    <3> HIDE DEF from, taken
    <3>3. (from + taken) + 1 = from + (taken + 1) /\ (from + taken) + 1 \in 1..Len(log)
      BY <3>1
    <3> QED
      BY <3>2, <3>3 DEF from, taken
  <2>2. \A k \in 1..Len(log) : log[k] = k /\ log[k] \in 1..MaxEvents
    BY DEF HubInv
  <2> QED
    BY <2>1, <2>2
<1>4. /\ received' \in [Listeners -> Seq(1..MaxEvents)]
      /\ received'[l] = Append(received[l], log[Hub!Cursor(l) + 1])
      /\ \A m \in Listeners : m # l => received'[m] = received[m]
  BY <1>1, <1>2, <1>3 DEF HubInv
<1>5. /\ Len(received'[l]) = Len(received[l]) + 1
      /\ received'[l][Len(received[l]) + 1] = start[l] + (Len(received[l]) + 1)
      /\ \A i \in 1..Len(received[l]) : received'[l][i] = received[l][i]
  BY <1>2, <1>3, <1>4
<1>6. \A i \in 1..Len(received'[l]) : received'[l][i] = start[l] + i
  <2> TAKE i \in 1..Len(received'[l])
  <2>1. CASE i \in 1..Len(received[l])
    BY <1>5, <2>1 DEF HubInv
  <2>2. CASE i = Len(received[l]) + 1
    BY <1>2, <1>5, <2>2
  <2> QED
    BY <1>2, <1>5, <2>1, <2>2
<1>7. start[l] + Len(received'[l]) <= Len(log)
  BY <1>1, <1>2, <1>5
<1>8. ASSUME NEW m \in Listeners
      PROVE  /\ channel'[m] = "new" => received'[m] = << >>
             /\ start'[m] + Len(received'[m]) <= Len(log')
             /\ \A i \in 1..Len(received'[m]) : received'[m][i] = start'[m] + i
  <2>1. CASE m = l
    BY <1>1, <1>6, <1>7, <2>1
  <2>2. CASE m # l
    <3>1. received'[m] = received[m]
      BY <1>4, <2>2
    <3> QED
      BY <1>1, <3>1 DEF HubInv
  <2> QED
    BY <2>1, <2>2
<1>9. received' \in [Listeners -> Seq(1..MaxEvents)]
  BY <1>4
<1> QED
  BY <1>1, <1>8, <1>9 DEF HubInv

LEMMA HubStep == ClientInv /\ EventInv /\ HubInv /\ [LoopNext]_all => HubInv'
<1> SUFFICES ASSUME ClientInv, EventInv, HubInv, [LoopNext]_all
             PROVE  HubInv'
  OBVIOUS
<1>1. CASE UNCHANGED <<events, carrier, listeners, hub>>
  BY <1>1 DEF carrier, listeners, hub, HubInv
<1>2. ASSUME ReaderAlone \/ Client
      PROVE  UNCHANGED <<events, carrier, listeners, hub>>
  BY <1>2 DEF ReaderAlone, Client, Progress, CallStep, BrowserStep, Store, SendOk, SendFail,
     ReturnCancelled, Leave, Cancel, Answer, Emit, Crash, ReadEvent, ReadFail, RangeEnd,
     ReadResponse, HandOver, HandSkip, RangeVisit
<1>3. CASE EndHub
  BY <1>3 DEF EndHub, vars, listeners, hub, HubInv
<1>4. ASSUME NEW l \in Listeners, EndListener(l)
      PROVE  HubInv'
  BY <1>4 DEF EndListener, Cancel, vars, carrier, hub, HubInv
<1>5. ASSUME NEW l \in Listeners, CallBrowser(l)
      PROVE  UNCHANGED <<events, carrier, listeners, hub>>
  BY <1>5 DEF CallBrowser, Store
<1>6. ASSUME NEW l \in Listeners, CallbackReturns(l) \/ LoopReturns(l)
      PROVE  HubInv'
  <2>1. /\ UNCHANGED <<events, carried, log, channel, start, received>>
        /\ \E next \in {"range", "returned"} : loop' = [loop EXCEPT ![l] = next]
    BY <1>6 DEF CallbackReturns, LoopReturns, vars, carrier, hub
  <2>2. loop' \in [Listeners -> {"idle", "range", "callback", "returned"}]
    BY <2>1 DEF HubInv
  <2> QED
    BY <2>1, <2>2 DEF HubInv
<1>7. ASSUME NEW l \in Listeners, CloseChannel(l)
      PROVE  HubInv'
  BY <1>7 DEF CloseChannel, Hub!Close, vars, carrier, listeners, HubInv
<1>8. CASE UNCHANGED all
  BY <1>8 DEF all, vars, carrier, listeners, hub, HubInv
<1> QED
  BY <1>1, <1>2, <1>3, <1>4, <1>5, <1>6, <1>7, <1>8, CarryKeeps, PublishKeeps, ListenKeeps, TakeKeeps
     DEF LoopNext, Listener

LEMMA HubBegins == LoopInit => HubInv
  BY DEF LoopInit, Init, Hub!Init, HubInv

(* Every listener takes the browser's events in order, none missing, from  *)
(* the first that is published after it has subscribed, however slow its   *)
(* callbacks are and whatever responses come in between                    *)
(* (browser.go:434-491, :518-533).                                         *)
THEOREM LoopsTakeInOrder == LoopSpec => []EventsInOrder
<1>1. ClientInv /\ EventInv /\ HubInv => EventsInOrder
  <2> SUFFICES ASSUME ClientInv, EventInv, HubInv
               PROVE  EventsInOrder
    OBVIOUS
  <2>1. LoopTypeOK /\ events \in Seq(1..MaxEvents) /\ log \in Seq(1..MaxEvents)
    BY DEF ClientInv, OwnAnswer, HubInv, LoopTypeOK, TypeOK
  <2>2. events = log \o (IF carried = None THEN << >> ELSE <<carried>>)
    <3>1. CASE carried = None
      <4>1. /\ Len(events) = Len(log)
            /\ \A i \in 1..Len(events) : events[i] = i
            /\ \A i \in 1..Len(log) : log[i] = i
        BY <3>1 DEF EventInv, HubInv
      <4>2. events = log /\ log \o << >> = log
        BY SMTT(30), <2>1, <4>1, SeqEqual, ConcatEmptySeq
      <4> QED
        BY <3>1, <4>2
    <3>2. CASE carried # None
      BY <2>1, <3>2 DEF EventInv, HubInv
    <3> QED
      BY <3>1, <3>2
  <2> QED
    BY <2>1, <2>2 DEF EventsInOrder, EventInv, HubInv
<1> QED
  BY <1>1, HubBegins, HubStep, LoopIsClient, ClientInvariant, EventsAreRead, PTL DEF LoopSpec
=============================================================================
