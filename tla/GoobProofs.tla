----------------------------- MODULE GoobProofs -----------------------------
(***************************************************************************)
(* Proofs about the event hub, for any number of publishers, subscriptions *)
(* and events.                                                             *)
(***************************************************************************)
EXTENDS Goob, SequenceTheorems, TLAPS

(* What is written to a pipe goes to the end of what it holds. *)
LEMMA WriteAtEnd ==
    ASSUME NEW r \in Seq(Event), NEW q \in Seq(Event), NEW b \in Seq(Event), NEW e \in Event
    PROVE  r \o q \o Append(b, e) = Append(r \o q \o b, e)
<1>1. /\ Append(b, e) = b \o <<e>>
      /\ r \o q \in Seq(Event)
      /\ r \o q \o b \in Seq(Event)
      /\ <<e>> \in Seq(Event)
  BY AppendIsConcat, ConcatProperties
<1>2. Append(r \o q \o b, e) = r \o q \o b \o <<e>>
  BY <1>1, AppendIsConcat
<1> QED
  BY <1>1, <1>2, ConcatAssociative

(* The reader that takes the buffer moves it, as it is, to its section. *)
LEMMA TakeMoves ==
    ASSUME NEW r \in Seq(Event), NEW b \in Seq(Event)
    PROVE  r \o b \o << >> = r \o << >> \o b
  BY ConcatEmptySeq, ConcatProperties

(* An event delivered moves from the section to what was received. *)
LEMMA DeliverMoves ==
    ASSUME NEW r \in Seq(Event), NEW q \in Seq(Event), NEW b \in Seq(Event), q # << >>
    PROVE  Append(r, Head(q)) \o Tail(q) \o b = r \o q \o b
<1>1. /\ Head(q) \in Event
      /\ Tail(q) \in Seq(Event)
      /\ <<Head(q)>> \in Seq(Event)
      /\ q = <<Head(q)>> \o Tail(q)
  BY HeadTailProperties, ConcatProperties
<1>2. Append(r, Head(q)) = r \o <<Head(q)>>
  BY <1>1, AppendIsConcat
<1> QED
  BY SMTT(30), <1>1, <1>2, ConcatAssociative

-----------------------------------------------------------------------------
(* What is written for a subscription is a sequence of events. *)
LEMMA WrittenType ==
    ASSUME TypeOK, NEW s \in Subscribers
    PROVE  /\ received[s] \in Seq(Event) /\ section[s] \in Seq(Event)
           /\ buf[s] \in Seq(Event) /\ Written(s) \in Seq(Event)
  BY ConcatProperties DEF TypeOK, Written

(* The hub starts in the invariant. *)
LEMMA InitInv == Init => IInv
<1> SUFFICES ASSUME Init PROVE IInv
  OBVIOUS
<1> USE GoobAssumption DEF Init
<1>1. TypeOK
  <2>1. << >> \in Seq(Event)
    BY EmptySeq
  <2>2. npub \in [Publishers -> 0..MaxPublish] /\ wait \in [Subscribers -> 0..1]
    OBVIOUS
  <2> QED
    BY <2>1, <2>2 DEF TypeOK
<1>2. LockInv /\ LogInv /\ PipeInv /\ WakeInv
  BY DEF LockInv, LogInv, PipeInv, WakeInv
<1>3. Faithful
  <2> SUFFICES ASSUME NEW s \in Subscribers
               PROVE  /\ start[s] + Len(Written(s)) <= Len(log)
                      /\ \A i \in 1..Len(Written(s)) : Written(s)[i] = log[start[s] + i]
                      /\ s \notin subscribers
    BY DEF Faithful
  <2>1. Written(s) = << >>
    BY DEF Written
  <2> QED
    BY <2>1
<1> QED
  BY <1>1, <1>2, <1>3 DEF IInv

(* Publish takes the lock: the log grows, and every subscriber is owed the *)
(* new event.                                                              *)
LEMMA PublishLockStep ==
    ASSUME IInv, NEW p \in Publishers, PublishLock(p)
    PROVE  IInv'
<1> USE GoobAssumption DEF IInv, PublishLock, LockFree, subs, pipe
<1> DEFINE e == <<p, npub[p] + 1>>
<1>1. /\ npub[p] + 1 \in 1..MaxPublish /\ e \in Event
      /\ log' = Append(log, e)
  BY DEF TypeOK, Event
<1>2. /\ log' \in Seq(Event)
      /\ Len(log') = Len(log) + 1 /\ Len(log) \in Nat
      /\ \A i \in 1..Len(log) : log'[i] = log[i]
      /\ log'[Len(log) + 1] = e
  BY <1>1, AppendProperties, LenProperties DEF TypeOK
<1>3. TypeOK'
  BY <1>1, <1>2 DEF TypeOK
<1>4. LockInv'
  BY DEF TypeOK, LockInv
<1>5. LogInv'
  <2>1. \A q \in Publishers : pub'[q] # "idle" => q = p
    BY DEF TypeOK, LockInv
  <2>2. /\ npub'[p] = npub[p] + 1
        /\ \A q \in Publishers : q # p => npub'[q] = npub[q]
    BY DEF TypeOK
  <2>3. \A i \in 1..Len(log) :
          log[i][1] \in Publishers /\ log[i][2] \in Nat /\ log[i][2] <= npub[log[i][1]]
    BY DEF TypeOK, LogInv, Event
  <2>4. \A i \in 1..Len(log') : log'[i][2] <= npub'[log'[i][1]]
    BY <1>2, <2>2, <2>3 DEF TypeOK
  <2>5. \A i \in 1..Len(log) : log'[i] # e
    BY <1>2, <2>3 DEF TypeOK
  <2>6. \A i, j \in 1..Len(log') : log'[i] = log'[j] => i = j
    BY <1>2, <2>5 DEF LogInv
  <2>7. log' # << >> /\ log'[Len(log')] = <<p, npub'[p]>>
    BY <1>2, <2>2, EmptySeq
  <2> QED
    BY <2>1, <2>4, <2>6, <2>7 DEF LogInv
<1>6. PipeInv' /\ WakeInv'
  BY DEF PipeInv, WakeInv, PipeLocked
<1>7. Faithful'
  <2> SUFFICES ASSUME NEW s \in Subscribers
               PROVE  /\ start'[s] + Len(Written(s)') <= Len(log')
                      /\ \A i \in 1..Len(Written(s)') : Written(s)'[i] = log'[start'[s] + i]
                      /\ s \in subscribers' =>
                           start'[s] + Len(Written(s)') =
                             IF Owed(s)' THEN Len(log') - 1 ELSE Len(log')
    BY DEF Faithful
  <2>1. /\ Written(s)' = Written(s) /\ start'[s] = start[s]
        /\ Len(Written(s)) \in Nat /\ start[s] \in Nat
    BY WrittenType, LenProperties DEF Written, TypeOK
  <2>2. ~Owed(s)
    BY ZenonT(60) DEF Owed, LockInv, TypeOK
  <2>3. s \in subscribers => Owed(s)'
    BY DEF Owed, TypeOK
  <2> QED
    BY <1>2, <2>1, <2>2, <2>3 DEF Faithful
<1> QED
  BY <1>3, <1>4, <1>5, <1>6, <1>7

(* One write: the event owed to s joins its buffer, and the lock of the    *)
(* pipe covers the time until the wake-up.                                 *)
LEMMA WriteAppendStep ==
    ASSUME IInv, NEW p \in Publishers, NEW s \in Subscribers, WriteAppend(p, s)
    PROVE  IInv'
<1> USE GoobAssumption DEF IInv, WriteAppend, hub, subs, hist
<1> DEFINE e == <<p, npub[p]>>
<1>1. /\ log # << >> /\ log[Len(log)] = e
      /\ e \in Event
  <2>1. log # << >> /\ log[Len(log)] = e
    BY DEF LogInv
  <2>2. Len(log) \in 1..Len(log)
    BY <2>1, EmptySeq DEF TypeOK
  <2>3. log[Len(log)] \in Event
    <3>1. log \in Seq(Event)
      BY DEF TypeOK
    <3> QED
      BY ONLY <2>2, <3>1, ElementOfSeq
  <2> QED
    BY <2>1, <2>3
<1>2. TypeOK'
  <2>1. Append(buf[s], e) \in Seq(Event)
    BY <1>1, AppendProperties DEF TypeOK
  <2> QED
    BY <2>1 DEF TypeOK
<1>3. LockInv'
  BY DEF TypeOK, LockInv
<1>4. LogInv'
  BY DEF LogInv, TypeOK
<1>5. PipeInv'
  BY DEF PipeInv, LockInv, TypeOK
<1>6. WakeInv'
  <2>1. PipeLocked(s)'
    BY DEF PipeLocked, TypeOK
  <2>2. at[p] = None
    BY DEF LockInv
  <2>3. ASSUME NEW t \in Subscribers, PipeLocked(t) PROVE PipeLocked(t)'
    <3>1. PICK q \in Publishers : at[q] = t
      BY <2>3 DEF PipeLocked
    <3>2. at'[q] = t
      BY <2>2, <3>1 DEF TypeOK
    <3> QED
      BY <3>2 DEF PipeLocked
  <2> QED
    BY <2>1, <2>3 DEF WakeInv, TypeOK
<1>7. Faithful'
  <2> SUFFICES ASSUME NEW t \in Subscribers
               PROVE  /\ start'[t] + Len(Written(t)') <= Len(log')
                      /\ \A i \in 1..Len(Written(t)') : Written(t)'[i] = log'[start'[t] + i]
                      /\ t \in subscribers' =>
                           start'[t] + Len(Written(t)') =
                             IF Owed(t)' THEN Len(log') - 1 ELSE Len(log')
    BY DEF Faithful
  <2>1. \A q \in Publishers : q # p => todo[q] = {}
    BY DEF LockInv, TypeOK
  <2>2. /\ Len(Written(t)) \in Nat /\ start[t] \in Nat /\ Len(log) \in Nat
        /\ Written(t) \in Seq(Event)
    BY WrittenType, LenProperties DEF TypeOK
  <2>3. CASE t = s
    <3>1. Owed(s) /\ s \in subscribers
      BY DEF Owed, LockInv
    <3>2. ~Owed(s)'
      BY <2>1 DEF Owed, TypeOK
    <3>3. Written(s)' = Append(Written(s), e)
      <4>1. Written(s)' = received[s] \o section[s] \o Append(buf[s], e)
        BY DEF Written, TypeOK
      <4>2. /\ received[s] \in Seq(Event) /\ section[s] \in Seq(Event)
            /\ buf[s] \in Seq(Event) /\ e \in Event
        BY <1>1, WrittenType
      <4>3. Written(s) = received[s] \o section[s] \o buf[s]
        BY DEF Written
      <4>4. received[s] \o section[s] \o Append(buf[s], e)
              = Append(received[s] \o section[s] \o buf[s], e)
        BY ZenonT(60), <4>2, WriteAtEnd
      <4> QED
        BY <4>1, <4>3, <4>4
    <3>4. start[s] + Len(Written(s)) = Len(log) - 1
      BY <3>1 DEF Faithful
    <3>5. /\ Len(Written(s)') = Len(Written(s)) + 1
          /\ \A i \in 1..Len(Written(s)) : Written(s)'[i] = Written(s)[i]
          /\ Written(s)'[Len(Written(s)) + 1] = e
      BY <1>1, <2>2, <2>3, <3>3, AppendProperties
    <3> DEFINE n == Len(Written(s))
    <3>6. n \in Nat /\ start[s] \in Nat /\ Len(log) \in Nat
      BY <2>2, <2>3
    <3>7. start[s] + Len(Written(s)') = Len(log)
      BY <3>4, <3>5, <3>6
    <3>8. \A i \in 1..n : Written(s)'[i] = log[start[s] + i]
      BY <3>5 DEF Faithful
    <3>9. Written(s)'[n + 1] = log[start[s] + (n + 1)]
      BY <1>1, <3>4, <3>5, <3>6
    <3>10. \A i \in 1..Len(Written(s)') : Written(s)'[i] = log[start[s] + i]
      BY <3>5, <3>6, <3>8, <3>9
    <3> QED
      BY <2>3, <3>2, <3>6, <3>7, <3>10
  <2>4. CASE t # s
    <3>1. Written(t)' = Written(t)
      BY <2>4 DEF Written, TypeOK
    <3>2. Owed(t)' = Owed(t)
      BY <2>1, <2>4 DEF Owed, TypeOK
    <3> QED
      BY <3>1, <3>2 DEF Faithful
  <2> QED
    BY <2>3, <2>4
<1> QED
  BY <1>2, <1>3, <1>4, <1>5, <1>6, <1>7

(* The wake-up: the lock of the pipe is released with a token in place, or *)
(* with the context done.                                                  *)
LEMMA WriteSignalStep ==
    ASSUME IInv, NEW p \in Publishers, WriteSignal(p)
    PROVE  IInv'
<1> USE GoobAssumption DEF IInv, WriteSignal, hub, subs, hist
<1> DEFINE s == at[p]
<1>1. s \in Subscribers /\ (wait'[s] = 1 \/ done[s])
  BY DEF LockInv, TypeOK
<1>2. wait' \in [Subscribers -> 0..1] /\ \A t \in Subscribers : wait[t] = 1 => wait'[t] = 1
  <2>1. CASE wait' = wait
    BY <2>1 DEF TypeOK
  <2>2. CASE wait' = [wait EXCEPT ![s] = 1]
    <3>1. \A t \in Subscribers : wait'[t] = IF t = s THEN 1 ELSE wait[t]
      BY <2>2 DEF TypeOK
    <3>2. wait' \in [Subscribers -> 0..1]
      <4>1. wait \in [Subscribers -> 0..1] /\ 1 \in 0..1
        BY DEF TypeOK
      <4> QED
        BY ONLY <2>2, <4>1
    <3> QED
      BY <3>1, <3>2
  <2> QED
    BY <2>1, <2>2
<1>3. TypeOK'
  BY <1>2 DEF TypeOK
<1>4. LockInv' /\ LogInv'
  BY DEF LockInv, LogInv, TypeOK
<1>5. PipeInv'
  BY DEF PipeInv
<1>6. WakeInv'
  <2>1. \A t \in Subscribers : t # s /\ PipeLocked(t) => PipeLocked(t)'
    BY DEF PipeLocked, TypeOK
  <2> QED
    BY <1>1, <1>2, <2>1 DEF WakeInv
<1>7. Faithful'
  BY DEF Faithful, Written, Owed
<1> QED
  BY <1>3, <1>4, <1>5, <1>6, <1>7

(* Publish releases the lock when it owes nobody anything. *)
LEMMA PublishUnlockStep ==
    ASSUME IInv, NEW p \in Publishers, PublishUnlock(p)
    PROVE  IInv'
<1> USE GoobAssumption DEF IInv, PublishUnlock, subs, pipe, hist
<1>1. TypeOK'
  BY DEF TypeOK
<1>2. LockInv' /\ LogInv'
  BY DEF LockInv, LogInv, TypeOK
<1>3. PipeInv' /\ WakeInv'
  BY DEF PipeInv, WakeInv, PipeLocked
<1>4. Faithful'
  BY DEF Faithful, Written, Owed
<1> QED
  BY <1>1, <1>2, <1>3, <1>4

(* A subscription begins with an empty pipe at the end of the log, which   *)
(* no Publish is writing out.                                              *)
LEMMA SubscribeStep ==
    ASSUME IInv, NEW s \in Subscribers, Subscribe(s)
    PROVE  IInv'
<1> USE GoobAssumption DEF IInv, Subscribe, LockFree, pubs
<1>1. Len(log) \in Nat
  BY LenProperties DEF TypeOK
<1>2. TypeOK'
  BY <1>1 DEF TypeOK
<1>3. LockInv' /\ LogInv'
  BY DEF LockInv, LogInv, TypeOK
<1>4. PipeInv' /\ WakeInv'
  BY DEF PipeInv, WakeInv, PipeLocked, TypeOK
<1>5. Faithful'
  <2> SUFFICES ASSUME NEW t \in Subscribers
               PROVE  /\ start'[t] + Len(Written(t)') <= Len(log')
                      /\ \A i \in 1..Len(Written(t)') : Written(t)'[i] = log'[start'[t] + i]
                      /\ t \in subscribers' =>
                           start'[t] + Len(Written(t)') =
                             IF Owed(t)' THEN Len(log') - 1 ELSE Len(log')
    BY DEF Faithful
  <2>1. Written(t)' = Written(t) /\ Owed(t)' = Owed(t)
    BY DEF Written, Owed
  <2>2. CASE t = s
    <3>1. Written(s) = << >>
      BY DEF Written, PipeInv
    <3>2. start'[s] = Len(log) /\ log' = log
      BY DEF TypeOK
    <3>3. ~Owed(s)
      BY DEF Owed, LockInv
    <3> QED
      BY <1>1, <2>1, <2>2, <3>1, <3>2, <3>3
  <2>3. CASE t # s
    BY <2>1, <2>3 DEF Faithful, TypeOK
  <2> QED
    BY <2>2, <2>3
<1> QED
  BY <1>2, <1>3, <1>4, <1>5

(* The goroutine of the subscription removes it while nobody publishes. *)
LEMMA UnsubscribeStep ==
    ASSUME IInv, NEW s \in Subscribers, Unsubscribe(s)
    PROVE  IInv'
<1> USE GoobAssumption DEF IInv, Unsubscribe, LockFree, pubs, pipe, hist
<1>1. TypeOK'
  BY DEF TypeOK
<1>2. LockInv' /\ LogInv'
  BY DEF LockInv, LogInv, TypeOK
<1>3. PipeInv' /\ WakeInv'
  BY DEF PipeInv, WakeInv, PipeLocked, TypeOK
<1>4. Faithful'
  BY DEF Faithful, Written, Owed
<1> QED
  BY <1>1, <1>2, <1>3, <1>4

(* The end of a context moves nothing. *)
LEMMA CancelStep ==
    ASSUME IInv, \/ \E s \in Subscribers : Cancel(s)
                 \/ CancelHub
    PROVE  IInv'
<1> USE GoobAssumption DEF IInv, Cancel, CancelHub, hub, pubs, subs, pipe, hist
<1>1. TypeOK'
  BY DEF TypeOK
<1>2. LockInv' /\ LogInv'
  BY DEF LockInv, LogInv
<1>3. PipeInv' /\ WakeInv'
  BY DEF PipeInv, WakeInv, PipeLocked, TypeOK
<1>4. Faithful'
  BY DEF Faithful, Written, Owed
<1> QED
  BY <1>1, <1>2, <1>3, <1>4

(* The reader moves the buffer to its section, which is empty. *)
LEMMA ReaderTakeStep ==
    ASSUME IInv, NEW s \in Subscribers, ReaderTake(s)
    PROVE  IInv'
<1> USE GoobAssumption DEF IInv, ReaderTake, hub, pubs, subs, hist
<1>1. TypeOK'
  BY EmptySeq DEF TypeOK
<1>2. LockInv' /\ LogInv'
  BY DEF LockInv, LogInv
<1>3. PipeInv' /\ WakeInv'
  BY DEF PipeInv, WakeInv, PipeLocked, TypeOK
<1>4. Faithful'
  <2>1. section[s] = << >>
    BY DEF PipeInv
  <2>2. ASSUME NEW t \in Subscribers, t # s PROVE Written(t)' = Written(t)
    BY <2>2 DEF Written, TypeOK
  <2>3. Written(s)' = received[s] \o buf[s] \o << >>
    BY DEF Written, TypeOK
  <2>4. Written(s)' = Written(s)
    BY <2>1, <2>3, WrittenType, TakeMoves DEF Written
  <2> QED
    BY <2>2, <2>4 DEF Faithful, Owed
<1> QED
  BY <1>1, <1>2, <1>3, <1>4

(* The owner receives the next event of the section. *)
LEMMA ReaderDeliverStep ==
    ASSUME IInv, NEW s \in Subscribers, ReaderDeliver(s)
    PROVE  IInv'
<1> USE GoobAssumption DEF IInv, ReaderDeliver, hub, pubs, subs
<1>1. /\ Tail(section[s]) \in Seq(Event)
      /\ Append(received[s], Head(section[s])) \in Seq(Event)
  BY HeadTailProperties, AppendProperties DEF TypeOK
<1>2. TypeOK'
  BY <1>1 DEF TypeOK
<1>3. LockInv' /\ LogInv'
  BY DEF LockInv, LogInv
<1>4. PipeInv' /\ WakeInv'
  BY DEF PipeInv, WakeInv, PipeLocked, TypeOK
<1>5. Faithful'
  <2>1. ASSUME NEW t \in Subscribers, t # s PROVE Written(t)' = Written(t)
    BY <2>1 DEF Written, TypeOK
  <2>2. Written(s)' = Append(received[s], Head(section[s])) \o Tail(section[s]) \o buf[s]
    BY DEF Written, TypeOK
  <2>3. Written(s)' = Written(s)
    <3>1. /\ received[s] \in Seq(Event) /\ section[s] \in Seq(Event)
          /\ buf[s] \in Seq(Event) /\ section[s] # << >>
      BY WrittenType
    <3>2. Written(s) = received[s] \o section[s] \o buf[s]
      BY DEF Written
    <3>3. Append(received[s], Head(section[s])) \o Tail(section[s]) \o buf[s]
            = received[s] \o section[s] \o buf[s]
      BY <3>1, DeliverMoves
    <3> QED
      BY <2>2, <3>2, <3>3
  <2> QED
    BY <2>1, <2>3 DEF Faithful, Owed
<1> QED
  BY <1>2, <1>3, <1>4, <1>5

(* A token wakes the reader. *)
LEMMA ReaderWakeStep ==
    ASSUME IInv, NEW s \in Subscribers, ReaderWake(s)
    PROVE  IInv'
<1> USE GoobAssumption DEF IInv, ReaderWake, hub, pubs, subs, hist
<1>1. TypeOK'
  BY DEF TypeOK
<1>2. LockInv' /\ LogInv'
  BY DEF LockInv, LogInv
<1>3. PipeInv' /\ WakeInv'
  BY DEF PipeInv, WakeInv, PipeLocked, TypeOK
<1>4. Faithful'
  BY DEF Faithful, Written, Owed
<1> QED
  BY <1>1, <1>2, <1>3, <1>4

(* A done context ends the reader. *)
LEMMA ReaderQuitStep ==
    ASSUME IInv, NEW s \in Subscribers, ReaderQuit(s)
    PROVE  IInv'
<1> USE GoobAssumption DEF IInv, ReaderQuit, hub, pubs, subs, hist
<1>1. TypeOK'
  BY DEF TypeOK
<1>2. LockInv' /\ LogInv'
  BY DEF LockInv, LogInv
<1>3. PipeInv' /\ WakeInv'
  BY DEF PipeInv, WakeInv, PipeLocked, TypeOK
<1>4. Faithful'
  BY DEF Faithful, Written, Owed
<1> QED
  BY <1>1, <1>2, <1>3, <1>4

(* Every step of the hub keeps the invariant. *)
LEMMA NextInv == IInv /\ [Next]_vars => IInv'
<1> SUFFICES ASSUME IInv, [Next]_vars PROVE IInv'
  OBVIOUS
<1>1. ASSUME NEW p \in Publishers, PublisherStep(p) PROVE IInv'
  BY <1>1, PublishLockStep, WriteAppendStep, WriteSignalStep, PublishUnlockStep
     DEF PublisherStep
<1>2. ASSUME NEW s \in Subscribers, SubscriberStep(s) PROVE IInv'
  BY <1>2, SubscribeStep, UnsubscribeStep, CancelStep, ReaderTakeStep,
     ReaderDeliverStep, ReaderWakeStep, ReaderQuitStep DEF SubscriberStep
<1>3. CASE CancelHub
  BY <1>3, CancelStep
<1>4. CASE UNCHANGED vars
  BY SMTT(30), <1>4 DEF vars, hub, pubs, subs, pipe, hist, IInv, TypeOK, LockInv, LogInv,
     PipeInv, WakeInv, Faithful, Written, Owed, PipeLocked
<1> QED
  BY <1>1, <1>2, <1>3, <1>4 DEF Next

-----------------------------------------------------------------------------
(* The invariant holds in every state of the hub. *)
THEOREM Invariant == Spec => []IInv
  BY InitInv, NextInv, PTL DEF Spec

(* Type correctness. *)
THEOREM TypeCorrect == Spec => []TypeOK
<1>1. IInv => TypeOK
  BY DEF IInv
<1> QED
  BY <1>1, Invariant, PTL

(* A pipe neither loses nor duplicates nor reorders an event: Publish of   *)
(* goob.go and the write and reader of pipe.go, for any number of          *)
(* publishers, subscriptions and events.                                   *)
THEOREM PipesAreFaithful == Spec => []Faithful
<1>1. IInv => Faithful
  BY DEF IInv
<1> QED
  BY <1>1, Invariant, PTL

(* The reader of a pipe never sleeps on events that are in its buffer. *)
THEOREM WakeupsAreKept == Spec => []NoLostWakeup
<1>1. IInv => NoLostWakeup
  BY DEF IInv, WakeInv, NoLostWakeup
<1> QED
  BY <1>1, Invariant, PTL

(* Where the parts of a pipe's history are. *)
LEMMA PartsOfPipe ==
    ASSUME NEW r \in Seq(Event), NEW q \in Seq(Event), NEW b \in Seq(Event)
    PROVE  /\ Len(r) <= Len(r \o q \o b)
           /\ \A i \in 1..Len(r) : (r \o q \o b)[i] = r[i]
           /\ q # << >> => /\ Len(r) + 1 <= Len(r \o q \o b)
                        /\ (r \o q \o b)[Len(r) + 1] = Head(q)
<1>1. Len(r) \in Nat /\ Len(q) \in Nat /\ Len(b) \in Nat
  BY LenProperties
<1>2. /\ r \o q \in Seq(Event)
      /\ Len(r \o q) = Len(r) + Len(q)
      /\ \A i \in 1..Len(r) + Len(q) :
           (r \o q)[i] = IF i <= Len(r) THEN r[i] ELSE q[i - Len(r)]
  BY ConcatProperties
<1>3. /\ Len(r \o q \o b) = Len(r \o q) + Len(b)
      /\ \A i \in 1..Len(r \o q) + Len(b) : (r \o q \o b)[i] =
             IF i <= Len(r \o q) THEN (r \o q)[i] ELSE b[i - Len(r \o q)]
  BY <1>2, ConcatProperties
<1>4. \A i \in 1..Len(r) + Len(q) :
        (r \o q \o b)[i] = IF i <= Len(r) THEN r[i] ELSE q[i - Len(r)]
  BY <1>1, <1>2, <1>3
<1>5. q # << >> => Len(q) >= 1 /\ Head(q) = q[1]
  BY <1>1, EmptySeq
<1> QED
  BY <1>1, <1>2, <1>3, <1>4, <1>5

(* Positions of a part of the log are positions of the log. *)
LEMMA InRange ==
    ASSUME NEW a \in Nat, NEW n \in Nat, NEW m \in Nat, a + n <= m, NEW i \in 1..n
    PROVE  a + i \in 1..m
  OBVIOUS

(* The position after the first n of a part that begins after a. *)
LEMMA NextPosition ==
    ASSUME NEW a \in Nat, NEW n \in Nat
    PROVE  a + (n + 1) = a + n + 1
  OBVIOUS

(* What an owner has received, and what comes next, is in the log. *)
LEMMA ReceivedFromLog ==
    ASSUME IInv, NEW s \in Subscribers
    PROVE  /\ Len(log) \in Nat /\ start[s] \in Nat /\ Len(received[s]) \in Nat
           /\ start[s] + Len(received[s]) <= Len(log)
           /\ \A i \in 1..Len(received[s]) :
                /\ start[s] + i \in 1..Len(log)
                /\ received[s][i] = log[start[s] + i]
           /\ section[s] # << >> =>
                /\ start[s] + Len(received[s]) < Len(log)
                /\ Head(section[s]) = log[start[s] + Len(received[s]) + 1]
<1>1. /\ received[s] \in Seq(Event) /\ section[s] \in Seq(Event) /\ buf[s] \in Seq(Event)
      /\ log \in Seq(Event) /\ start[s] \in Nat
  BY DEF IInv, TypeOK
<1>2. /\ Len(received[s]) \in Nat /\ Len(log) \in Nat /\ Len(Written(s)) \in Nat
  BY <1>1, WrittenType, LenProperties DEF IInv
<1>3. /\ Len(received[s]) <= Len(Written(s))
      /\ \A i \in 1..Len(received[s]) : Written(s)[i] = received[s][i]
      /\ section[s] # << >> => /\ Len(received[s]) + 1 <= Len(Written(s))
                              /\ Written(s)[Len(received[s]) + 1] = Head(section[s])
  BY ZenonT(30), <1>1, PartsOfPipe DEF Written
<1>4. /\ start[s] + Len(Written(s)) <= Len(log)
      /\ \A i \in 1..Len(Written(s)) : Written(s)[i] = log[start[s] + i]
  BY DEF IInv, Faithful
<1>5. start[s] + Len(received[s]) <= Len(log)
  BY <1>1, <1>2, <1>3, <1>4
<1>6. ASSUME NEW i \in 1..Len(received[s])
      PROVE  start[s] + i \in 1..Len(log) /\ received[s][i] = log[start[s] + i]
  <2>1. start[s] + i \in 1..Len(log)
    BY <1>1, <1>2, <1>5, InRange
  <2>2. i \in 1..Len(Written(s))
    BY <1>2, <1>3
  <2> QED
    BY <1>3, <1>4, <2>1, <2>2
<1>7. ASSUME section[s] # << >>
      PROVE  /\ start[s] + Len(received[s]) < Len(log)
             /\ Head(section[s]) = log[start[s] + Len(received[s]) + 1]
  <2>1. Len(received[s]) + 1 \in 1..Len(Written(s))
    BY <1>2, <1>3, <1>7
  <2>2. Head(section[s]) = log[start[s] + (Len(received[s]) + 1)]
    BY <1>3, <1>4, <1>7, <2>1
  <2>3. start[s] + (Len(received[s]) + 1) = start[s] + Len(received[s]) + 1
    BY <1>1, <1>2, NextPosition
  <2> QED
    BY <1>1, <1>2, <1>3, <1>4, <1>7, <2>2, <2>3
<1> QED
  BY <1>1, <1>2, <1>5, <1>6, <1>7

(* All subscriptions see the events in one order: Publish holds the hub's  *)
(* lock over the loop of goob.go:30 and the log holds no event twice.      *)
THEOREM OrderIsCommon == Spec => []SameOrder
<1>1. IInv => SameOrder
  <2> SUFFICES ASSUME IInv,
                      NEW s \in Subscribers, NEW t \in Subscribers,
                      NEW i \in 1..Len(received[s]), NEW j \in 1..Len(received[s]), i < j,
                      NEW k \in 1..Len(received[t]), NEW l \in 1..Len(received[t]), k < l,
                      received[t][k] = received[s][j],
                      received[t][l] = received[s][i]
               PROVE  FALSE
    BY DEF SameOrder
  <2>1. /\ start[s] \in Nat /\ start[t] \in Nat
        /\ start[t] + k \in 1..Len(log) /\ start[s] + j \in 1..Len(log)
        /\ start[t] + l \in 1..Len(log) /\ start[s] + i \in 1..Len(log)
        /\ log[start[t] + k] = log[start[s] + j]
        /\ log[start[t] + l] = log[start[s] + i]
    BY ReceivedFromLog
  <2>2. start[t] + k = start[s] + j /\ start[t] + l = start[s] + i
    BY <2>1 DEF IInv, LogInv
  <2> QED
    BY <2>1, <2>2
<1> QED
  BY <1>1, Invariant, PTL

(* The hub of goob.go and pipe.go implements the abstract broadcast: every *)
(* subscription reads one common log from the point where it joined.       *)
THEOREM ImplementsBroadcast == Spec => Hub!Spec
<1> DEFINE channel == [s \in Subscribers |->
                          IF reader[s] = "none" THEN "new"
                          ELSE IF reader[s] = "closed" THEN "closed" ELSE "open"]
<1>1. Init => Hub!Init
  BY DEF Init, Hub!Init
<1>2. ASSUME IInv, [Next]_vars
      PROVE  [Hub!Next]_Hub!vars
  <2> USE <1>2
  <2>1. ASSUME NEW p \in Publishers, PublishLock(p)
        PROVE  Hub!Publish
    <3>1. <<p, npub[p] + 1>> \in Event
      BY <2>1, GoobAssumption DEF PublishLock, IInv, TypeOK, Event
    <3> QED
      BY <2>1, <3>1 DEF PublishLock, Hub!Publish, pipe
  <2>2. ASSUME NEW p \in Publishers,
               \/ \E s \in Subscribers : WriteAppend(p, s)
               \/ WriteSignal(p)
               \/ PublishUnlock(p)
        PROVE  UNCHANGED Hub!vars
    BY <2>2 DEF WriteAppend, WriteSignal, PublishUnlock, hist, pipe, Hub!vars
  <2>3. ASSUME NEW s \in Subscribers, Subscribe(s)
        PROVE  Hub!Subscribe(s)
    BY <2>3 DEF Subscribe, Hub!Subscribe, IInv, TypeOK
  <2>4. ASSUME NEW s \in Subscribers, Unsubscribe(s) \/ Cancel(s) \/ CancelHub
        PROVE  UNCHANGED Hub!vars
    BY <2>4 DEF Unsubscribe, Cancel, CancelHub, hist, pipe, Hub!vars
  <2>5. ASSUME NEW s \in Subscribers, ReaderTake(s) \/ ReaderWake(s)
        PROVE  UNCHANGED Hub!vars
    <3>1. channel' = channel
      BY <2>5 DEF ReaderTake, ReaderWake, IInv, TypeOK
    <3> QED
      BY <2>5, <3>1 DEF ReaderTake, ReaderWake, hist, Hub!vars
  <2>6. ASSUME NEW s \in Subscribers, ReaderDeliver(s)
        PROVE  Hub!Deliver(s)
    <3>1. channel[s] = "open" /\ channel' = channel
      BY <2>6 DEF ReaderDeliver
    <3>2. /\ start[s] + Len(received[s]) < Len(log)
          /\ Head(section[s]) = log[start[s] + Len(received[s]) + 1]
      BY <2>6, ReceivedFromLog DEF ReaderDeliver
    <3> QED
      BY <2>6, <3>1, <3>2 DEF ReaderDeliver, Hub!Deliver, Hub!Cursor
  <2>7. ASSUME NEW s \in Subscribers, ReaderQuit(s)
        PROVE  Hub!Close(s)
    BY <2>7 DEF ReaderQuit, Hub!Close, hist, IInv, TypeOK
  <2>8. CASE UNCHANGED vars
    BY <2>8 DEF vars, hist, pipe, Hub!vars
  <2>9. CASE CancelHub
    BY <2>9 DEF CancelHub, hist, pipe, Hub!vars
  <2> QED
    BY <2>1, <2>2, <2>3, <2>4, <2>5, <2>6, <2>7, <2>8, <2>9
       DEF Next, PublisherStep, SubscriberStep, Hub!Next
<1> QED
  BY <1>1, <1>2, Invariant, PTL DEF Spec, Hub!Spec
=============================================================================
