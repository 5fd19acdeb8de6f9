-------------------------------- MODULE LCS ---------------------------------
(***************************************************************************)
(* YadLCS: the positions in xs of a longest common subsequence of xs and   *)
(* ys.  For every item of ys, and every position of xs with that item (the *)
(* last first), add puts the position into list, whose k-th node ends a    *)
(* chain of k positions, of a common subsequence.  Nodes share their       *)
(* tails, count the nodes that point to them and are recycled when none    *)
(* does; positions that the rest of ys cannot extend to something longer   *)
(* are left out.                                                           *)
(*                                                                         *)
(* One goroutine, whose loops are taken step by step: the bisection of     *)
(* find, the nodes that replace frees, the chain that lcs follows.         *)
(* A node is a number; 0 is nil.  Positions count from 1.                  *)
(***************************************************************************)
EXTENDS Integers, Sequences, SequencesExt

CONSTANTS
    Letters,    \* what the words are made of
    Words       \* the sequences that may be compared

ASSUME LCSAssumption == \A w \in Words : w \in Seq(Letters)

VARIABLES
    xs, ys,     \* the arguments
    turn,       \* the index of the item of ys
    queue,      \* the positions of that item that are left to add
    from,       \* the length of the list with which find begins
    list,       \* result.list
    recycle,    \* result.recycle
    heap,       \* heap[n]: the node n
    cut,        \* the context is done
    stage,      \* "item", "find", "free", "collect" or "returned"
    adding,     \* x of add
    low, high,  \* the bounds of the bisection; then low is where find's n is
    chased,     \* the pointer of replace's loop, and of the loop of lcs
    idx         \* the result

lcsArguments == <<xs, ys, cut>>
lcsLoops == <<turn, queue>>
lcsNodes == <<list, recycle, heap>>
lcsVars == <<lcsArguments, lcsLoops, from, lcsNodes, stage, adding, low, high, chased, idx>>

(* Occurrence: the positions of an item in xs. *)
Occurrence(item) == {i \in 1..Len(xs) : xs[i] = item}

LCSInit ==
    /\ xs \in Words /\ ys \in Words
    /\ turn = 0 /\ queue = {} /\ from = 0
    /\ list = << >> /\ recycle = << >> /\ heap = << >>
    /\ cut = FALSE
    /\ stage = "item" /\ adding = 0 /\ low = 0 /\ high = 0 /\ chased = 0
    /\ idx = << >>

-----------------------------------------------------------------------------
(* The context ends; the loop over ys sees it before its next item.        *)
CutShort ==
    /\ stage # "returned" /\ ~cut
    /\ cut' = TRUE
    /\ UNCHANGED <<xs, ys, lcsLoops, from, lcsNodes, stage, adding, low, high, chased, idx>>

NextItem ==
    /\ stage = "item" /\ queue = {} /\ turn < Len(ys) /\ ~cut
    /\ turn' = turn + 1
    /\ queue' = Occurrence(ys[turn'])
    /\ from' = Len(list)
    /\ UNCHANGED <<lcsArguments, lcsNodes, stage, adding, low, high, chased, idx>>

(* add, with the last of the positions; find begins. *)
NextPosition ==
    /\ stage = "item" /\ queue # {}
    /\ adding' \in queue
    /\ \A x \in queue : x <= adding'
    /\ queue' = queue \ {adding'}
    /\ low' = 0 /\ high' = from
    /\ stage' = "find"
    /\ UNCHANGED <<lcsArguments, turn, from, lcsNodes, chased, idx>>

(* find: one step of the bisection.  The node found is the low-th, if any. *)
Probe ==
    /\ stage = "find" /\ low < high
    /\ LET h == (low + high) \div 2 IN
       IF heap[list[h + 1]].x < adding
       THEN low' = h + 1 /\ UNCHANGED high
       ELSE high' = h /\ UNCHANGED low
    /\ UNCHANGED <<lcsArguments, lcsLoops, from, lcsNodes, stage, adding, chased, idx>>

-----------------------------------------------------------------------------
(* link: one more node points to m. *)
Linked(nodes, n, m) ==
    LET counted == IF m = 0 THEN nodes ELSE [nodes EXCEPT ![m].c = @ + 1]
    IN  [counted EXCEPT ![n] = [x |-> adding, p |-> m, c |-> @.c]]

(* new: a recycled node, or one more, becomes the k-th of the list. *)
Place(k, m) ==
    LET reuse == recycle # << >>
        n == IF reuse THEN Last(recycle) ELSE Len(heap) + 1
        nodes == IF reuse THEN heap ELSE Append(heap, [x |-> 0, p |-> 0, c |-> 0])
    IN  /\ heap' = Linked(nodes, n, m)
        /\ recycle' = IF reuse THEN Front(recycle) ELSE recycle
        /\ list' = IF k > Len(list) THEN Append(list, n) ELSE [list EXCEPT ![k] = n]
        /\ stage' = "item" /\ UNCHANGED chased

(* replace, of a node that nothing points to: first the nodes that only    *)
(* this one keeps are freed.                                               *)
InPlace(k) ==
    /\ stage' = "free" /\ chased' = heap[list[k]].p
    /\ UNCHANGED lcsNodes

(* Mistake: a node that others point to is changed in place. *)
ReplaceInPlace(k, m) == InPlace(k)

Replace(k, m) ==
    \/ heap[list[k]].c = 0 /\ InPlace(k)
    \/ heap[list[k]].c # 0 /\ Place(k, m)

Leave == stage' = "item" /\ UNCHANGED <<lcsNodes, chased>>

-----------------------------------------------------------------------------
(* The items of ys from this one on. *)
Rest == Len(ys) - turn + 1

(* The position extends the chain of the low-th node, and there is enough  *)
(* left of ys.                                                             *)
Extends == low > 0 /\ Len(list) - low < Rest

(* add, with a node that the position extends. *)
Extend ==
    /\ stage = "find" /\ low >= high /\ Extends
    /\ from' = low
    /\ \/ low = Len(list) /\ Place(low + 1, list[low])
       \/ low < Len(list) /\ adding < heap[list[low + 1]].x /\ Replace(low + 1, list[low])
       \/ low < Len(list) /\ adding >= heap[list[low + 1]].x /\ Leave
    /\ UNCHANGED <<lcsArguments, lcsLoops, adding, low, high, idx>>

(* add, with the chain of the position alone. *)
Begin ==
    /\ stage = "find" /\ low >= high /\ ~Extends
    /\ low' = 0
    /\ \/ list = << >> /\ from' = 1 /\ Place(1, 0)
       \/ /\ list # << >> /\ from' = 0
          /\ IF Len(list) - 1 < Rest /\ adding < heap[list[1]].x THEN Replace(1, 0) ELSE Leave
    /\ UNCHANGED <<lcsArguments, lcsLoops, adding, high, idx>>

(* The node that the chain of the position goes on with, or nil. *)
Before == IF low = 0 THEN 0 ELSE list[low]

(* replace: the next node of the old chain loses a pointer; if that was    *)
(* its last it is recycled, and if not the loop breaks.                    *)
Free ==
    /\ stage = "free" /\ chased \notin {0, Before}
    /\ heap' = [heap EXCEPT ![chased].c = @ - 1]
    /\ IF heap'[chased].c = 0
       THEN recycle' = Append(recycle, chased) /\ chased' = heap[chased].p
       ELSE UNCHANGED recycle /\ chased' = 0
    /\ UNCHANGED <<lcsArguments, lcsLoops, from, list, stage, adding, low, high, idx>>

(* replace: the loop is over. *)
Relink ==
    /\ stage = "free" /\ chased \in {0, Before}
    /\ heap' = Linked(heap, list[low + 1], Before)
    /\ stage' = "item"
    /\ UNCHANGED <<lcsArguments, lcsLoops, from, list, recycle, adding, low, high, chased, idx>>

-----------------------------------------------------------------------------
(* lcs: follows the chain of the last node.  low is l. *)
Collect ==
    /\ stage = "item" /\ queue = {} /\ (turn = Len(ys) \/ cut)
    /\ stage' = "collect"
    /\ low' = Len(list)
    /\ chased' = IF list = << >> THEN 0 ELSE Last(list)
    /\ idx' = [i \in 1..Len(list) |-> 0]
    /\ UNCHANGED <<lcsArguments, lcsLoops, from, lcsNodes, adding, high>>

Follow ==
    /\ stage = "collect" /\ chased # 0
    /\ idx' = [idx EXCEPT ![low] = heap[chased].x]
    /\ low' = low - 1
    /\ chased' = heap[chased].p
    /\ UNCHANGED <<lcsArguments, lcsLoops, from, lcsNodes, stage, adding, high>>

Finished ==
    /\ stage = "collect" /\ chased = 0
    /\ stage' = "returned"
    /\ UNCHANGED <<lcsArguments, lcsLoops, from, lcsNodes, adding, low, high, chased, idx>>

LCSNext ==
    \/ CutShort \/ NextItem \/ NextPosition \/ Probe \/ Extend \/ Begin
    \/ Free \/ Relink \/ Collect \/ Follow \/ Finished

LCSSpec == LCSInit /\ [][LCSNext]_lcsVars

-----------------------------------------------------------------------------
(* k increasing positions of a word of n letters. *)
Picks(k, n) == {f \in [1..k -> 1..n] : \A i, j \in 1..k : i < j => f[i] < f[j]}

(* The positions f of xs and g of ys have the same letters. *)
SameLetters(f, g) == \A i \in DOMAIN f : xs[f[i]] = ys[g[i]]

(* The result is a common subsequence: increasing positions of xs, with    *)
(* letters that ys has in this order, although the nodes are shared,       *)
(* counted, changed in place and recycled.  Unless the context ended there *)
(* is none that is longer, whatever was left out on the way.  And lcs does *)
(* not write before the first index: the chain has the length of the list. *)
LCSCorrect ==
    LET k == Len(idx) IN
    /\ stage = "returned" =>
         /\ idx \in Picks(k, Len(xs))
         /\ \E g \in Picks(k, Len(ys)) : SameLetters(idx, g)
         /\ turn = Len(ys) =>
              \A f \in Picks(k + 1, Len(xs)), g \in Picks(k + 1, Len(ys)) : ~SameLetters(f, g)
    /\ stage = "collect" /\ chased # 0 => low > 0
=============================================================================
