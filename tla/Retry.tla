------------------------------- MODULE Retry --------------------------------
(***************************************************************************)
(* Retry with a sleeper that RaceSleepers makes of a CountSleeper and a    *)
(* BackoffSleeper.  In every round a goroutine for each of them delivers   *)
(* what it woke with into the round's channel, which has room for both,    *)
(* and then cancels the round's context; Retry takes the first.  The loser *)
(* may still run in later rounds, and meets the goroutines of those in the *)
(* locks of the two sleepers, which heed no context.                       *)
(***************************************************************************)
EXTENDS Naturals, Sequences

CONSTANTS
    MaxSleeps,      \* the count of the CountSleeper
    MaxRounds       \* bound of the model: fn stops at last

ASSUME RetryAssumption == MaxSleeps \in Nat /\ MaxRounds \in Nat

VARIABLES
    retrying,   \* where Retry is: "fn", "race" or "returned"
    round,      \* the rounds begun
    sleeper,    \* sleeper[n][k]: the goroutine of sleeper k in round n
    outcomes,   \* outcomes[n]: the channel of round n
    raced,      \* the rounds whose context was cancelled
    count,      \* of the CountSleeper
    dozing,     \* the rounds whose goroutine has the BackoffSleeper's lock
    ended       \* Retry's context is done

retryVars == <<retrying, round, sleeper, outcomes, raced, count, dozing, ended>>

Rounds == 1..MaxRounds

Sleepers == {"count", "backoff"}

RetryRest ==
    /\ round = 0
    /\ sleeper = [n \in Rounds |-> [k \in Sleepers |-> "none"]]
    /\ outcomes = [n \in Rounds |-> << >>]
    /\ raced = {} /\ count = 0 /\ dozing = {} /\ ended = FALSE

RetryInit == retrying = "fn" /\ RetryRest

Becomes(n, k, before, after) ==
    /\ sleeper[n][k] = before
    /\ sleeper' = [sleeper EXCEPT ![n][k] = after]

(* fn stops or asks for another round. *)
Attempt ==
    /\ retrying = "fn"
    /\ \/ retrying' = "returned" /\ UNCHANGED <<round, sleeper>>
       \/ /\ round < MaxRounds
          /\ retrying' = "race"
          /\ round' = round + 1
          /\ sleeper' = [sleeper EXCEPT ![round'] = [k \in Sleepers |-> "begin"]]
    /\ UNCHANGED <<outcomes, raced, count, dozing, ended>>

Over(n) == ended \/ n \in raced

CountSleeper(n) ==
    /\ IF Over(n) \/ count = MaxSleeps
       THEN Becomes(n, "count", "begin", "failed") /\ UNCHANGED count
       ELSE Becomes(n, "count", "begin", "awake") /\ count' = count + 1
    /\ UNCHANGED <<retrying, round, outcomes, raced, dozing, ended>>

BackoffSleeps(n) ==
    /\ dozing = {}
    /\ Becomes(n, "backoff", "begin", "asleep")
    /\ dozing' = {n}
    /\ UNCHANGED <<retrying, round, outcomes, raced, count, ended>>

BackoffWakes(n) ==
    /\ \/ Becomes(n, "backoff", "asleep", "awake")
       \/ Over(n) /\ Becomes(n, "backoff", "asleep", "failed")
    /\ dozing' = {}
    /\ UNCHANGED <<retrying, round, outcomes, raced, count, ended>>

(* Mistake: the channel has no room, and Retry takes one outcome only. *)
DeliverUnbuffered(n, k) ==
    /\ retrying = "race" /\ round = n /\ outcomes[n] = << >>
    /\ \E o \in {"awake", "failed"} :
         /\ Becomes(n, k, o, "delivered")
         /\ outcomes' = [outcomes EXCEPT ![n] = Append(@, o)]
    /\ UNCHANGED <<retrying, round, raced, count, dozing, ended>>

Deliver(n, k) ==
    /\ \E o \in {"awake", "failed"} :
         /\ Becomes(n, k, o, "delivered")
         /\ outcomes' = [outcomes EXCEPT ![n] = Append(@, o)]
    /\ UNCHANGED <<retrying, round, raced, count, dozing, ended>>

CancelRace(n, k) ==
    /\ Becomes(n, k, "delivered", "gone")
    /\ raced' = raced \cup {n}
    /\ UNCHANGED <<retrying, round, outcomes, count, dozing, ended>>

(* The first outcome; an error ends Retry. *)
RaceDecided ==
    /\ retrying = "race"
    /\ outcomes[round] # << >>
    /\ retrying' = IF Head(outcomes[round]) = "failed" THEN "returned" ELSE "fn"
    /\ UNCHANGED <<round, sleeper, outcomes, raced, count, dozing, ended>>

EndRetry ==
    /\ ~ended
    /\ ended' = TRUE
    /\ UNCHANGED <<retrying, round, sleeper, outcomes, raced, count, dozing>>

Sleeps(n) ==
    \/ CountSleeper(n) \/ BackoffSleeps(n) \/ BackoffWakes(n)
    \/ \E k \in Sleepers : Deliver(n, k) \/ CancelRace(n, k)

RetryNext == Attempt \/ RaceDecided \/ EndRetry \/ \E n \in Rounds : Sleeps(n)

(* Goroutines run, timers fire and a free lock is taken. *)
RetryFairness ==
    /\ WF_retryVars(Attempt \/ RaceDecided)
    /\ \A n \in Rounds :
         /\ WF_retryVars(CountSleeper(n))
         /\ SF_retryVars(BackoffSleeps(n)) /\ WF_retryVars(BackoffWakes(n))
         /\ \A k \in Sleepers : WF_retryVars(Deliver(n, k)) /\ WF_retryVars(CancelRace(n, k))

-----------------------------------------------------------------------------
RetryTypeOK ==
    /\ retrying \in {"fn", "race", "returned"}
    /\ round \in 0..MaxRounds
    /\ sleeper \in [Rounds -> [Sleepers ->
            {"none", "begin", "asleep", "awake", "failed", "delivered", "gone"}]]
    /\ outcomes \in [Rounds -> Seq({"awake", "failed"})]
    /\ raced \subseteq Rounds
    /\ count \in 0..MaxSleeps
    /\ dozing \subseteq Rounds

(* Retry returns, and with it, in the end, every goroutine that its        *)
(* sleepers have started, those that lost their race included.             *)
RetryEnds ==
    <>[](/\ retrying = "returned"
         /\ \A n \in 1..round : \A k \in Sleepers : sleeper[n][k] = "gone")
=============================================================================
