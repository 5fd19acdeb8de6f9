-------------------------------- MODULE Pool --------------------------------
(***************************************************************************)
(* Pool: a channel of capacity Limit, full of nils at first, from which    *)
(* goroutines Get elements (creating one when they get a nil), to which    *)
(* they Put them back, and which another goroutine may Cleanup.            *)
(*                                                                         *)
(* A goroutine whose create fails may put back the nil it has, as a        *)
(* deferred Put does, or nothing; one that has an element puts it back.    *)
(***************************************************************************)
EXTENDS Naturals, Sequences, SequencesExt, FiniteSets

CONSTANTS
    Borrowers,
    Limit,          \* the capacity of the channel
    MaxElems        \* bound of the model: elements that may be created

Nil == 0

ASSUME PoolAssumption ==
    /\ IsFiniteSet(Borrowers)
    /\ Limit \in Nat \ {0}
    /\ MaxElems \in Nat

VARIABLES
    channel,    \* the Pool
    borrower,   \* borrower[w]: where w is
    elem,       \* elem[w]: what w got
    created,    \* the elements created so far are 1..created
    cleanup,    \* the receives that Cleanup has yet to try, or Off
    cleaned,    \* the elements that Cleanup was given
    spent       \* history: slots that nobody will put back

poolVars == <<channel, borrower, elem, created, cleanup, cleaned, spent>>

NotCleaning == Limit + 1

PoolInit ==
    /\ channel = [i \in 1..Limit |-> Nil]
    /\ borrower = [w \in Borrowers |-> "idle"]
    /\ elem = [w \in Borrowers |-> Nil]
    /\ created = 0
    /\ cleanup = NotCleaning
    /\ cleaned = {}
    /\ spent = 0

Moves(w, before, after) ==
    /\ borrower[w] = before
    /\ borrower' = [borrower EXCEPT ![w] = after]

(* Mistake: an empty channel does not keep Get from creating an element. *)
GetAnyway(w) ==
    /\ Moves(w, "idle", IF channel = << >> \/ Head(channel) = Nil THEN "creates" ELSE "uses")
    /\ elem' = [elem EXCEPT ![w] = IF channel = << >> THEN Nil ELSE Head(channel)]
    /\ channel' = IF channel = << >> THEN channel ELSE Tail(channel)
    /\ UNCHANGED <<created, cleanup, cleaned, spent>>

(* Get, which waits while the channel is empty. *)
Get(w) ==
    /\ channel # << >>
    /\ Moves(w, "idle", IF Head(channel) = Nil THEN "creates" ELSE "uses")
    /\ elem' = [elem EXCEPT ![w] = Head(channel)]
    /\ channel' = Tail(channel)
    /\ UNCHANGED <<created, cleanup, cleaned, spent>>

Create(w) ==
    /\ created < MaxElems
    /\ Moves(w, "creates", "uses")
    /\ created' = created + 1
    /\ elem' = [elem EXCEPT ![w] = created']
    /\ UNCHANGED <<channel, cleanup, cleaned, spent>>

CreateFails(w) ==
    /\ \/ Moves(w, "creates", "uses") /\ UNCHANGED spent
       \/ Moves(w, "creates", "failed") /\ spent' = spent + 1
    /\ UNCHANGED <<channel, elem, created, cleanup, cleaned>>

(* Put, which waits while the channel is full. *)
Put(w) ==
    /\ Len(channel) < Limit
    /\ Moves(w, "uses", "idle")
    /\ channel' = Append(channel, elem[w])
    /\ elem' = [elem EXCEPT ![w] = Nil]
    /\ UNCHANGED <<created, cleanup, cleaned, spent>>

-----------------------------------------------------------------------------
Cleanup ==
    /\ cleanup = NotCleaning
    /\ cleanup' = Limit
    /\ UNCHANGED <<channel, borrower, elem, created, cleaned, spent>>

(* One receive; the channel does not get back what was received. *)
CleanupReceive ==
    /\ cleanup \in 1..Limit
    /\ cleanup' = cleanup - 1
    /\ \/ /\ channel # << >>
          /\ channel' = Tail(channel)
          /\ cleaned' = cleaned \cup ({Head(channel)} \ {Nil})
          /\ spent' = spent + 1
       \/ /\ channel = << >>
          /\ UNCHANGED <<channel, cleaned, spent>>
    /\ UNCHANGED <<borrower, elem, created>>

PoolNext ==
    \/ \E w \in Borrowers : Get(w) \/ Create(w) \/ CreateFails(w) \/ Put(w)
    \/ Cleanup \/ CleanupReceive

PoolSpec == PoolInit /\ [][PoolNext]_poolVars

-----------------------------------------------------------------------------
Busy == {w \in Borrowers : borrower[w] \in {"creates", "uses"}}

Live == (1..created) \ cleaned

PoolTypeOK ==
    /\ channel \in Seq(0..created)
    /\ borrower \in [Borrowers -> {"idle", "creates", "uses", "failed"}]
    /\ elem \in [Borrowers -> 0..created]
    /\ created \in Nat
    /\ cleanup \in 0..NotCleaning
    /\ cleaned \subseteq 1..created
    /\ spent \in Nat

(* An element that has not been cleaned is in one place: it waits once in  *)
(* the channel or one goroutine uses it; a cleaned one is nowhere.         *)
OnePlace ==
    /\ \A i, j \in 1..Len(channel) : channel[i] = channel[j] /\ channel[i] # Nil => i = j
    /\ \A v, w \in Borrowers : elem[v] = elem[w] /\ elem[v] # Nil => v = w
    /\ \A w \in Borrowers : elem[w] # Nil => elem[w] \notin ToSet(channel)
    /\ Live = (ToSet(channel) \cup {elem[w] : w \in Borrowers}) \ {Nil}

(* The slots are conserved (but for those that a failed create or Cleanup  *)
(* has used up), so that never more than Limit elements are alive and Put  *)
(* never waits, whatever the goroutines and Cleanup do meanwhile.          *)
PoolSound ==
    /\ PoolTypeOK
    /\ OnePlace
    /\ Len(channel) + Cardinality(Busy) + spent = Limit
    /\ Cardinality(Live) <= Limit
    /\ \A w \in Borrowers : borrower[w] = "uses" => Len(channel) < Limit
=============================================================================
