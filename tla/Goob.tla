-------------------------------- MODULE Goob --------------------------------
(***************************************************************************)
(* The event hub of pkg/goob: an Observable that Rod uses between the one  *)
(* reader of the DevTools connection and every page, hijack router and     *)
(* waiter that wants its events.                                           *)
(*                                                                         *)
(* Publish holds the hub's lock while it writes the event into the pipe of *)
(* every subscriber.  A pipe is an unbounded buffer with its own lock, a   *)
(* one-slot "wait" channel that wakes the pipe's reader goroutine, and an  *)
(* unbuffered channel on which that goroutine hands events to the owner of *)
(* the subscription.  A third goroutine per subscription waits for the end *)
(* of its context, or of the hub's, and removes it.                        *)
(*                                                                         *)
(* Steps are cut where another goroutine can look: between the append to   *)
(* the buffer and the wake-up, between two subscribers of one Publish,     *)
(* between the reader taking the buffer and delivering each of its events. *)
(***************************************************************************)
EXTENDS Naturals, Sequences

CONSTANTS
    Publishers,     \* goroutines that call Publish
    Subscribers,    \* subscriptions: each is one call of Subscribe
    Keen,           \* the subscriptions whose owner never stops reading
    MaxPublish,     \* bound: how often one publisher publishes
    None            \* no goroutine (a free lock), no pipe

ASSUME GoobAssumption ==
    /\ Keen \subseteq Subscribers
    /\ MaxPublish \in Nat
    /\ None \notin Publishers \cup Subscribers

VARIABLES
    obDone,         \* the context of the hub is done
    lock,           \* Observable.lock: None, or the publisher that holds it
    subscribers,    \* Observable.subscribers: those Publish writes to
    pub,            \* pub[p]: where publisher p is: "idle", "range", "signal"
    npub,           \* npub[p]: how many events p has published
    todo,           \* todo[p]: subscribers that p's Publish has yet to write to
    at,             \* at[p]: the pipe whose lock p holds inside write, or None
    done,           \* done[s]: the context of the subscription is done
    watcher,        \* watcher[s]: the goroutine that removes s
    buf,            \* buf[s]: the pipe's buffer
    wait,           \* wait[s]: the number of tokens in the pipe's wait channel
    section,        \* section[s]: what the reader took and has yet to deliver
    reader,         \* reader[s]: where the reader goroutine of the pipe is
    log,            \* history: every event, in the order the lock was taken
    start,          \* history: length of the log when s subscribed
    received        \* history: what the owner of s has received

hub  == <<obDone, lock, subscribers>>
pubs == <<pub, npub, todo, at>>
subs == <<done, watcher>>
pipe == <<buf, wait, section, reader>>
hist == <<log, start, received>>
vars == <<hub, pubs, subs, pipe, hist>>

(* The n-th event of publisher p. *)
Event == Publishers \X (1..MaxPublish)

Init ==
    /\ obDone = FALSE
    /\ lock = None
    /\ subscribers = {}
    /\ pub = [p \in Publishers |-> "idle"]
    /\ npub = [p \in Publishers |-> 0]
    /\ todo = [p \in Publishers |-> {}]
    /\ at = [p \in Publishers |-> None]
    /\ done = [s \in Subscribers |-> FALSE]
    /\ watcher = [s \in Subscribers |-> "none"]
    /\ buf = [s \in Subscribers |-> << >>]
    /\ wait = [s \in Subscribers |-> 0]
    /\ section = [s \in Subscribers |-> << >>]
    /\ reader = [s \in Subscribers |-> "none"]
    /\ log = << >>
    /\ start = [s \in Subscribers |-> 0]
    /\ received = [s \in Subscribers |-> << >>]

-----------------------------------------------------------------------------
(* Publish *)

LockFree == lock = None

(* The loop of Publish starts once the hub's lock is held; no subscriber   *)
(* joins or leaves before the lock is released.                            *)
PublishLock(p) ==
    /\ pub[p] = "idle"
    /\ npub[p] < MaxPublish
    /\ LockFree
    /\ lock' = p
    /\ pub' = [pub EXCEPT ![p] = "range"]
    /\ npub' = [npub EXCEPT ![p] = @ + 1]
    /\ todo' = [todo EXCEPT ![p] = subscribers]
    /\ log' = Append(log, <<p, npub[p] + 1>>)
    /\ UNCHANGED <<obDone, subscribers, at, subs, pipe, start, received>>

PipeLocked(s) == \E p \in Publishers : at[p] = s

(* write(e) of one subscriber, in the order of a Go map: any. *)
WriteAppend(p, s) ==
    /\ pub[p] = "range"
    /\ s \in todo[p]
    /\ ~PipeLocked(s)
    /\ pub' = [pub EXCEPT ![p] = "signal"]
    /\ todo' = [todo EXCEPT ![p] = @ \ {s}]
    /\ at' = [at EXCEPT ![p] = s]
    /\ buf' = [buf EXCEPT ![s] = Append(@, <<p, npub[p]>>)]
    /\ UNCHANGED <<hub, npub, subs, wait, section, reader, hist>>

(* Mistake: no len(wait) == 0, so that the send waits for the reader. *)
WriteSignalBlocking(p) ==
    /\ pub[p] = "signal"
    /\ LET s == at[p] IN
         \/ done[s] /\ UNCHANGED wait
         \/ wait[s] = 0 /\ wait' = [wait EXCEPT ![s] = 1]
    /\ pub' = [pub EXCEPT ![p] = "range"]
    /\ at' = [at EXCEPT ![p] = None]
    /\ UNCHANGED <<hub, npub, todo, subs, buf, section, reader, hist>>

(* Mistake: no token for a reader that is busy with an earlier section. *)
WriteSignalIfIdle(p) ==
    /\ pub[p] = "signal"
    /\ LET s == at[p] IN
         wait' = [wait EXCEPT ![s] = IF section[s] = << >> THEN 1 ELSE @]
    /\ pub' = [pub EXCEPT ![p] = "range"]
    /\ at' = [at EXCEPT ![p] = None]
    /\ UNCHANGED <<hub, npub, todo, subs, buf, section, reader, hist>>

(* Only write fills the wait channel and it holds the pipe's lock, so the  *)
(* slot it found empty is still empty when it sends.  A done context makes *)
(* both branches of the select ready, and either may be taken.             *)
WriteSignal(p) ==
    /\ pub[p] = "signal"
    /\ LET s == at[p] IN
         \/ wait[s] = 1 /\ UNCHANGED wait
         \/ wait[s] = 0 /\ done[s] /\ UNCHANGED wait
         \/ wait[s] = 0 /\ wait' = [wait EXCEPT ![s] = 1]
    /\ pub' = [pub EXCEPT ![p] = "range"]
    /\ at' = [at EXCEPT ![p] = None]
    /\ UNCHANGED <<hub, npub, todo, subs, buf, section, reader, hist>>

PublishUnlock(p) ==
    /\ pub[p] = "range"
    /\ todo[p] = {}
    /\ pub' = [pub EXCEPT ![p] = "idle"]
    /\ lock' = None
    /\ UNCHANGED <<obDone, subscribers, npub, todo, at, subs, pipe, hist>>

-----------------------------------------------------------------------------
(* Subscribe, and the goroutine that undoes it *)

Subscribe(s) ==
    /\ reader[s] = "none"
    /\ LockFree
    /\ subscribers' = subscribers \cup {s}
    /\ watcher' = [watcher EXCEPT ![s] = "waiting"]
    /\ reader' = [reader EXCEPT ![s] = "take"]
    /\ start' = [start EXCEPT ![s] = Len(log)]
    /\ UNCHANGED <<obDone, lock, pubs, done, buf, wait, section, log, received>>

(* Mistake: the goroutine of a subscription does not watch the hub. *)
UnsubscribeOwnOnly(s) ==
    /\ watcher[s] = "waiting"
    /\ done[s]
    /\ LockFree
    /\ subscribers' = subscribers \ {s}
    /\ watcher' = [watcher EXCEPT ![s] = "exited"]
    /\ UNCHANGED <<obDone, lock, pubs, done, pipe, hist>>

Unsubscribe(s) ==
    /\ watcher[s] = "waiting"
    /\ done[s] \/ obDone
    /\ LockFree
    /\ subscribers' = subscribers \ {s}
    /\ done' = [done EXCEPT ![s] = TRUE]
    /\ watcher' = [watcher EXCEPT ![s] = "exited"]
    /\ UNCHANGED <<obDone, lock, pubs, pipe, hist>>

(* The owner's context, or the hub's, ends. *)
Cancel(s) ==
    /\ reader[s] # "none"
    /\ ~done[s]
    /\ done' = [done EXCEPT ![s] = TRUE]
    /\ UNCHANGED <<hub, pubs, watcher, pipe, hist>>

CancelHub ==
    /\ ~obDone
    /\ obDone' = TRUE
    /\ UNCHANGED <<lock, subscribers, pubs, subs, pipe, hist>>

-----------------------------------------------------------------------------
(* The reader goroutine of a pipe *)

(* Mistake: the reader copies the buffer and leaves it as it is. *)
ReaderTakeCopies(s) ==
    /\ reader[s] = "take"
    /\ ~PipeLocked(s)
    /\ section' = [section EXCEPT ![s] = buf[s]]
    /\ reader' = [reader EXCEPT ![s] = "deliver"]
    /\ UNCHANGED <<hub, pubs, subs, buf, wait, hist>>

ReaderTake(s) ==
    /\ reader[s] = "take"
    /\ ~PipeLocked(s)
    /\ section' = [section EXCEPT ![s] = buf[s]]
    /\ buf' = [buf EXCEPT ![s] = << >>]
    /\ reader' = [reader EXCEPT ![s] = "deliver"]
    /\ UNCHANGED <<hub, pubs, subs, wait, hist>>

(* The rendezvous on the unbuffered channel: the reader offers, the owner  *)
(* of the subscription receives.                                           *)
ReaderDeliver(s) ==
    /\ reader[s] = "deliver"
    /\ section[s] # << >>
    /\ received' = [received EXCEPT ![s] = Append(@, Head(section[s]))]
    /\ section' = [section EXCEPT ![s] = Tail(@)]
    /\ UNCHANGED <<hub, pubs, subs, buf, wait, reader, log, start>>

ReaderWake(s) ==
    /\ reader[s] = "deliver"
    /\ section[s] = << >>
    /\ wait[s] = 1
    /\ wait' = [wait EXCEPT ![s] = 0]
    /\ reader' = [reader EXCEPT ![s] = "take"]
    /\ UNCHANGED <<hub, pubs, subs, buf, section, hist>>

(* Either select of the reader sees its context done; the channel closes. *)
ReaderQuit(s) ==
    /\ reader[s] = "deliver"
    /\ done[s]
    /\ reader' = [reader EXCEPT ![s] = "closed"]
    /\ UNCHANGED <<hub, pubs, subs, buf, wait, section, hist>>

-----------------------------------------------------------------------------
PublisherStep(p) ==
    \/ PublishLock(p)
    \/ \E s \in Subscribers : WriteAppend(p, s)
    \/ WriteSignal(p)
    \/ PublishUnlock(p)

SubscriberStep(s) ==
    \/ Subscribe(s)
    \/ Unsubscribe(s)
    \/ Cancel(s)
    \/ ReaderTake(s)
    \/ ReaderDeliver(s)
    \/ ReaderWake(s)
    \/ ReaderQuit(s)

Next ==
    \/ \E p \in Publishers : PublisherStep(p)
    \/ \E s \in Subscribers : SubscriberStep(s)
    \/ CancelHub

Spec == Init /\ [][Next]_vars

(* A goroutine that can run does run.  A sync.Mutex hands the lock to a    *)
(* goroutine that has waited for a millisecond, so one that asks again and *)
(* again is served: strong fairness for the two steps that take the hub's  *)
(* lock.  Nothing is assumed of contexts, of new subscriptions, of new     *)
(* calls of Publish, or of owners outside Keen.                            *)
Fairness ==
    /\ \A p \in Publishers :
         /\ \A s \in Subscribers : WF_vars(WriteAppend(p, s))
         /\ WF_vars(WriteSignal(p))
         /\ WF_vars(PublishUnlock(p))
    /\ \A s \in Subscribers :
         /\ SF_vars(Unsubscribe(s))
         /\ WF_vars(ReaderTake(s))
         /\ WF_vars(ReaderWake(s))
         /\ WF_vars(ReaderQuit(s))
    /\ \A s \in Keen : WF_vars(ReaderDeliver(s))

FairSpec == Spec /\ Fairness

-----------------------------------------------------------------------------
(* Every variable of the hub holds a value of its Go type. *)
TypeOK ==
    /\ obDone \in BOOLEAN
    /\ lock \in Publishers \cup {None}
    /\ subscribers \subseteq Subscribers
    /\ pub \in [Publishers -> {"idle", "range", "signal"}]
    /\ npub \in [Publishers -> 0..MaxPublish]
    /\ todo \in [Publishers -> SUBSET Subscribers]
    /\ at \in [Publishers -> Subscribers \cup {None}]
    /\ done \in [Subscribers -> BOOLEAN]
    /\ watcher \in [Subscribers -> {"none", "waiting", "exited"}]
    /\ buf \in [Subscribers -> Seq(Event)]
    /\ wait \in [Subscribers -> 0..1]
    /\ section \in [Subscribers -> Seq(Event)]
    /\ reader \in [Subscribers -> {"none", "take", "deliver", "closed"}]
    /\ log \in Seq(Event)
    /\ start \in [Subscribers -> Nat]
    /\ received \in [Subscribers -> Seq(Event)]

(* What has been written for s: received, in flight, and still buffered. *)
Written(s) == received[s] \o section[s] \o buf[s]

(* Whether the running Publish has yet to write the last event for s. *)
Owed(s) == \E p \in Publishers : s \in todo[p]

(* No event is lost, duplicated or reordered on its way through a pipe,    *)
(* whatever the interleaving of publishers, reader and owner: what was     *)
(* written for s is the part of the log that follows its subscription, and *)
(* while s is subscribed all of it but what the running Publish still owes.*)
Faithful ==
    \A s \in Subscribers :
        /\ start[s] + Len(Written(s)) <= Len(log)
        /\ \A i \in 1..Len(Written(s)) : Written(s)[i] = log[start[s] + i]
        /\ s \in subscribers =>
             start[s] + Len(Written(s)) = IF Owed(s) THEN Len(log) - 1 ELSE Len(log)

(* Two subscriptions never disagree on the order of events: what one of    *)
(* two concurrent publishers published first is first for everybody.       *)
SameOrder ==
    \A s, t \in Subscribers : \A i, j \in 1..Len(received[s]) :
        i < j => ~ \E k, l \in 1..Len(received[t]) :
                      /\ k < l
                      /\ received[t][k] = received[s][j]
                      /\ received[t][l] = received[s][i]

(* A reader never sleeps on a buffer that has events in it: a token is in  *)
(* the wait channel, or the writer that appended is about to put it there, *)
(* unless the subscription is over and the reader is on its way out.       *)
NoLostWakeup ==
    \A s \in Subscribers :
        /\ reader[s] = "deliver"
        /\ section[s] = << >>
        /\ buf[s] # << >>
        => wait[s] = 1 \/ PipeLocked(s) \/ done[s]

-----------------------------------------------------------------------------
(* The inductive invariant behind Faithful, SameOrder and NoLostWakeup.    *)

(* Inside Publish a publisher holds the hub's lock, and outside it owes    *)
(* nobody anything.                                                        *)
LockInv ==
    \A p \in Publishers :
        /\ pub[p] # "idle" <=> lock = p
        /\ pub[p] = "idle" => todo[p] = {}
        /\ pub[p] = "signal" <=> at[p] # None
        /\ todo[p] \subseteq subscribers

(* The event being published is the last of the log, and the log holds no  *)
(* event twice.                                                            *)
LogInv ==
    /\ \A p \in Publishers : pub[p] # "idle" =>
          log # << >> /\ log[Len(log)] = <<p, npub[p]>>
    /\ \A i \in 1..Len(log) : log[i][2] <= npub[log[i][1]]
    /\ \A i, j \in 1..Len(log) : log[i] = log[j] => i = j

(* A pipe that does not exist holds nothing, a reader takes the buffer     *)
(* only after it delivered what it took before.                            *)
PipeInv ==
    \A s \in Subscribers :
        /\ reader[s] \in {"none", "take"} => section[s] = << >>
        /\ reader[s] = "none" =>
              buf[s] = << >> /\ received[s] = << >> /\ s \notin subscribers

(* What NoLostWakeup says also holds while the reader is still delivering. *)
WakeInv ==
    \A s \in Subscribers :
        reader[s] = "deliver" /\ buf[s] # << >>
            => wait[s] = 1 \/ PipeLocked(s) \/ done[s]

(* A pipe loses, repeats and reorders nothing (Faithful), a reader that is *)
(* about to sleep on a full buffer will be woken (WakeInv), and what these *)
(* two rest on: types, who holds which lock, how the log grows.            *)
IInv == TypeOK /\ LockInv /\ LogInv /\ PipeInv /\ WakeInv /\ Faithful

(* Publish returns, however slow the owners of the subscriptions are, and  *)
(* even when none of them reads at all.                                    *)
PublishReturns ==
    \A p \in Publishers : pub[p] # "idle" ~> pub[p] = "idle"

(* Once its context or the hub's is done, a subscription is removed from   *)
(* the hub and its channel closed, even when its owner stopped reading.    *)
Reclaimed ==
    \A s \in Subscribers :
        reader[s] # "none" /\ (done[s] \/ obDone)
            ~> reader[s] = "closed" /\ s \notin subscribers

(* The hub implements the abstract broadcast, for owners that keep reading *)
(* with its promise that what was published arrives.                       *)
Hub == INSTANCE Broadcast WITH
    channel <- [s \in Subscribers |->
                  IF reader[s] = "none" THEN "new"
                  ELSE IF reader[s] = "closed" THEN "closed" ELSE "open"]

HubSpec == Hub!FairSpec
=============================================================================
