------------------------------ MODULE Broadcast ------------------------------
(***************************************************************************)
(* What an event hub promises, without a word about how it does so.        *)
(*                                                                         *)
(* Published events form one log.  A subscriber joins the log at its       *)
(* current end and from then on receives the entries that follow, each     *)
(* once and in the order of the log, until its channel is closed.  Two     *)
(* subscribers may be at different places, but they read the same log.     *)
(***************************************************************************)
EXTENDS Naturals, Sequences

CONSTANTS
    Subscribers,    \* the subscriptions that may be made
    Event,          \* what can be published
    Keen            \* the subscribers whose owner never stops reading

VARIABLES
    log,            \* every event published so far
    channel,        \* channel[s]: "new", then "open", then "closed"
    start,          \* start[s]: length of the log when s subscribed
    received        \* received[s]: what the owner of s has read so far

vars == <<log, channel, start, received>>

Init ==
    /\ log = << >>
    /\ channel = [s \in Subscribers |-> "new"]
    /\ start = [s \in Subscribers |-> 0]
    /\ received = [s \in Subscribers |-> << >>]

Publish ==
    /\ \E e \in Event : log' = Append(log, e)
    /\ UNCHANGED <<channel, start, received>>

Subscribe(s) ==
    /\ channel[s] = "new"
    /\ channel' = [channel EXCEPT ![s] = "open"]
    /\ start' = [start EXCEPT ![s] = Len(log)]
    /\ UNCHANGED <<log, received>>

(* Where s stands in the log. *)
Cursor(s) == start[s] + Len(received[s])

Deliver(s) ==
    /\ channel[s] = "open"
    /\ Cursor(s) < Len(log)
    /\ received' = [received EXCEPT ![s] = Append(@, log[Cursor(s) + 1])]
    /\ UNCHANGED <<log, channel, start>>

Close(s) ==
    /\ channel[s] = "open"
    /\ channel' = [channel EXCEPT ![s] = "closed"]
    /\ UNCHANGED <<log, start, received>>

Next ==
    \/ Publish
    \/ \E s \in Subscribers : Subscribe(s) \/ Deliver(s) \/ Close(s)

Spec == Init /\ [][Next]_vars

(* An open channel with an entry left to read makes progress when its      *)
(* owner keeps reading.                                                    *)
FairSpec == Spec /\ \A s \in Keen : WF_vars(Deliver(s))
=============================================================================
