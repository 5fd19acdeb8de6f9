----------------------------- MODULE ToolsProofs -----------------------------
(***************************************************************************)
(* Proofs about the helpers that keep state of their own: the pool, the     *)
(* reader of streams, the wait for quiet requests, the keyboard, the mouse  *)
(* and the frames of the WebSocket, for any number of goroutines, requests, *)
(* keys, buttons, messages and bytes; and about the longest common          *)
(* subsequence, for any words.                                              *)
(***************************************************************************)
EXTENDS LCS, Pool, StreamReader, RequestIdle, Keyboard, Mouse, WebSocket,
        FiniteSetTheorems, SequenceTheorems, TLAPS

-----------------------------------------------------------------------------
(* LCS: the inductive invariant *)

(* A node: its position, the node it points to and how many point to it. *)
Node == [x : Nat, p : Nat, c : Nat]

(* The nodes that chains are made of. *)
Spare == {recycle[i] : i \in 1..Len(recycle)}

(* The nodes that are not recycled. *)
InUse == 1..Len(heap) \ Spare

(* The node that replace changes in place has no chain until it is linked. *)
Changing == IF stage = "free" THEN {list[low + 1]} ELSE {}

(* The nodes that have their chains. *)
Settled == InUse \ Changing

(* The nodes that point to n. *)
Holders(n) == {q \in Settled : heap[q].p = n}

(* The pointer that replace is about to take from a node. *)
Owed(n) == IF stage = "free" /\ chased = n THEN 1 ELSE 0

(* The positions of this item that no node has yet. *)
Pending == queue \cup IF stage \in {"find", "free"} THEN {adding} ELSE {}

(* The positions that find has not looked for yet. *)
Unsought == queue \cup IF stage = "find" THEN {adding} ELSE {}

(* The type invariant. *)
LCSTypes ==
    /\ xs \in Seq(Letters) /\ ys \in Seq(Letters)
    /\ turn \in 0..Len(ys)
    /\ from \in 0..Len(list)
    /\ list \in Seq(Nat) /\ recycle \in Seq(Nat)
    /\ heap \in Seq(Node)
    /\ stage \in {"item", "find", "free", "collect", "returned"}
    /\ adding \in Nat /\ low \in Nat /\ high \in Nat /\ chased \in Nat
    /\ idx \in Seq(Nat)

(* What is left to add are positions of the item. *)
ItemsInv ==
    \A r \in Pending : r \in 1..Len(xs) /\ turn # 0 /\ xs[r] = ys[turn]

(* add takes the last position first. *)
FirstTaken == stage \in {"find", "free"} => \A r \in queue : r < adding

(* lev[n] is the length of the chain that n ends, yy[n] where its letter   *)
(* is in ys.  No chain is longer than the list, and what this item put     *)
(* there comes after what it has left.                                     *)
NodesInv(lev, yy) ==
    \A n \in InUse :
        /\ heap[n].x \in 1..Len(xs) /\ yy[n] \in 1..Len(ys) /\ yy[n] <= turn
        /\ xs[heap[n].x] = ys[yy[n]]
        /\ lev[n] <= Len(list)
        /\ yy[n] = turn => \A r \in Pending : r < heap[n].x

(* A chain gets shorter, and goes back in both words. *)
LinksInv(lev, yy) ==
    \A n \in Settled :
        \/ heap[n].p = 0 /\ lev[n] = 1
        \/ /\ heap[n].p \in InUse
           /\ lev[n] = lev[heap[n].p] + 1
           /\ heap[heap[n].p].x < heap[n].x
           /\ yy[heap[n].p] < yy[n]

(* The k-th node of the list ends a chain of k positions, and the later    *)
(* nodes have the later positions.                                         *)
ListInv(lev) ==
    /\ \A k \in 1..Len(list) : list[k] \in InUse /\ lev[list[k]] = k
    /\ \A i, j \in 1..Len(list) : i < j => heap[list[i]].x < heap[list[j]].x

(* A node is recycled once. *)
RecycleInv ==
    /\ \A i \in 1..Len(recycle) : recycle[i] \in 1..Len(heap)
    /\ \A i, j \in 1..Len(recycle) : recycle[i] = recycle[j] => i = j

(* A node counts whoever points to it, at least. *)
CountInv == \A n \in InUse : Cardinality(Holders(n)) + Owed(n) <= heap[n].c

(* Whatever node of the list is pointed to, the next one points to it. *)
SharedInv ==
    \A q \in Settled, j \in 1..Len(list) :
        heap[q].p = list[j] => j < Len(list) /\ heap[list[j + 1]].p = list[j]

(* The bisection: what is below low comes before the position, what is     *)
(* from high on does not.                                                  *)
FindInv ==
    stage = "find" =>
        /\ low <= high /\ high <= from
        /\ low # 0 => heap[list[low]].x < adding
        /\ high < from => adding <= heap[list[high + 1]].x

(* While replace frees: the place that was found is still right, and the   *)
(* node that loses its pointer is none of the list's but those that keep   *)
(* one.                                                                    *)
FreeInv(lev) ==
    stage = "free" =>
        /\ low < Len(list) /\ heap[list[low + 1]].c = 0
        /\ low # 0 => heap[list[low]].x < adding
        /\ adding < heap[list[low + 1]].x
        /\ chased # 0 =>
             /\ chased \in InUse /\ lev[chased] <= low
             /\ \A j \in 1..Len(list) : chased = list[j] =>
                  chased = Before \/ (j < low /\ heap[list[j + 1]].p = chased)

(* The position that the k-th node has, or is about to have. *)
Reach(k) == IF stage = "free" /\ k = low + 1 THEN adding ELSE heap[list[k]].x

(* A position that find does not look for beyond from comes too late there *)
(* to make something longer.                                               *)
FromInv ==
    \A r \in Unsought, i \in 1..Len(list) :
        from < i /\ Reach(i) < r => Len(list) - i >= Rest

(* The k-th chain ends where f does, or earlier. *)
Reached(k, f) == k <= Len(list) /\ Reach(k) <= f[k]

(* What the items before this one have of length k is in the list, unless  *)
(* nothing longer can come of it.                                          *)
EarlierInv ==
    \A k \in Nat \ {0} : \A f \in Picks(k, Len(xs)), g \in Picks(k, Len(ys)) :
        SameLetters(f, g) /\ g[k] < turn /\ Len(list) <= k + Len(ys) - turn
            => Reached(k, f)

(* And so is what ends with a position of this item that has been added. *)
ThisInv ==
    \A k \in Nat \ {0} : \A f \in Picks(k, Len(xs)), g \in Picks(k, Len(ys)) :
        SameLetters(f, g) /\ g[k] = turn /\ f[k] \notin Unsought /\ Len(list) < k + Len(ys) - turn
            => Reached(k, f)

(* What lcs has followed: the positions above low, where gg says the       *)
(* letters are in ys; the chain that is left is low long and comes before  *)
(* them.                                                                   *)
CollectInv(lev, yy, gg) ==
    stage \in {"collect", "returned"} =>
        /\ queue = {} /\ (turn = Len(ys) \/ cut)
        /\ low <= Len(list) /\ Len(idx) = Len(list)
        /\ \/ low = 0 /\ chased = 0
           \/ low # 0 /\ chased \in InUse /\ lev[chased] = low
        /\ stage = "returned" => low = 0
        /\ \A i \in 1..Len(list) : low < i =>
              /\ idx[i] \in 1..Len(xs) /\ gg[i] \in 1..Len(ys) /\ xs[idx[i]] = ys[gg[i]]
              /\ low # 0 => heap[chased].x < idx[i] /\ yy[chased] < gg[i]
              /\ \A j \in 1..Len(list) : i < j => idx[i] < idx[j] /\ gg[i] < gg[j]

-----------------------------------------------------------------------------
(* LCS: a node that is linked *)

(* The chains, all in all. *)
HeapInv(lev, yy) ==
    /\ NodesInv(lev, yy) /\ LinksInv(lev, yy) /\ ListInv(lev) /\ RecycleInv
    /\ CountInv /\ SharedInv /\ FreeInv(lev)

(* The node n becomes the k-th of the list. *)
Lists(n, k) ==
    /\ Len(list') \in Nat /\ k \in 1..Len(list') /\ Len(list) <= Len(list')
    /\ list'[k] = n
    /\ \A i \in 1..Len(list') : i # k =>
         i \in 1..Len(list) /\ list'[i] = list[i] /\ list[i] \in Settled

(* The node n is linked to m. *)
LinksTo(n, m) ==
    /\ stage' = "item"
    /\ n \in Nat /\ n # 0 /\ n \notin Settled /\ InUse \ Settled \subseteq {n}
    /\ InUse' = InUse \cup {n} /\ Settled' = Settled \cup {n}
    /\ heap'[n].x = adding /\ heap'[n].p = m /\ heap'[n].c \in Nat
    /\ \A q \in Settled :
         /\ heap'[q].x = heap[q].x /\ heap'[q].p = heap[q].p /\ heap'[q].c \in Nat
         /\ heap[q].c <= heap'[q].c /\ (q = m => heap[q].c < heap'[q].c)
         /\ heap[q].p # n

(* It has its place there: between its neighbours. *)
HasPlace(k, m) ==
    /\ k = 1 => m = 0
    /\ k # 1 => k - 1 \in 1..Len(list) /\ m = list[k - 1]
    /\ \A i \in 1..Len(list) : i < k => heap[list[i]].x < adding
    /\ \A i \in 1..Len(list) : k <= i => adding < heap[list[i]].x

(* A node in use has a number and numbers. *)
NodeTypes ==
    \A q \in InUse : /\ q \in Nat /\ q # 0
                     /\ heap[q].x \in Nat /\ heap[q].p \in Nat /\ heap[q].c \in Nat

(* There are finitely many to count. *)
LEMMA HoldersAreFinite ==
    ASSUME NEW n, LCSTypes
    PROVE  IsFiniteSet(Holders(n)) /\ Cardinality(Holders(n)) \in Nat
<1>1. Holders(n) \subseteq 1..Len(heap)
  BY DEF Holders, Settled, InUse
<1>2. Len(heap) \in Nat
  BY DEF LCSTypes
<1>3. IsFiniteSet(1..Len(heap))
  BY <1>2, FS_Interval
<1> QED
  BY <1>1, <1>3, FS_Subset, FS_CardinalityType

(* What is a number. *)
LEMMA Numbers ==
    ASSUME LCSTypes
    PROVE  /\ Len(list) \in Nat /\ Len(recycle) \in Nat /\ Len(heap) \in Nat
           /\ Len(xs) \in Nat /\ Len(ys) \in Nat /\ turn \in Nat /\ from \in Nat
           /\ low \in Nat /\ high \in Nat /\ adding \in Nat /\ chased \in Nat
<1>1. Len(list) \in Nat /\ Len(recycle) \in Nat /\ Len(heap) \in Nat
  BY DEF LCSTypes
<1>2. Len(xs) \in Nat /\ Len(ys) \in Nat
  BY DEF LCSTypes
<1> QED
  BY <1>1, <1>2 DEF LCSTypes

(* The next index. *)
LEMMA NextIn ==
    ASSUME NEW a \in Nat, NEW b \in Nat, a < b
    PROVE  a + 1 \in 1..b /\ (a # 0 => a \in 1..b) /\ a # a + 1
OBVIOUS

(* And in a range. *)
LEMMA NextIsIn ==
    ASSUME NEW l \in Nat, NEW j \in 1..l, j < l
    PROVE  j + 1 \in 1..l
OBVIOUS

(* The index before another. *)
LEMMA OneBefore ==
    ASSUME NEW l \in Nat, NEW k \in 1..l, NEW j \in Nat, j = k - 1
    PROVE  j + 1 = k /\ j < l
OBVIOUS

(* One less is another. *)
LEMMA OneLess ==
    ASSUME NEW k \in Nat
    PROVE  k - 1 # k /\ k - 1 < k
OBVIOUS

(* An element of a sequence. *)
LEMMA SeqAt ==
    ASSUME NEW S, NEW s \in Seq(S), NEW i \in 1..Len(s)
    PROVE  s[i] \in S
OBVIOUS

(* NodeTypes follows from the types. *)
LEMMA NodesAreTyped ==
    ASSUME LCSTypes
    PROVE  NodeTypes
<1> SUFFICES ASSUME NEW q \in InUse
             PROVE  /\ q \in Nat /\ q # 0
                    /\ heap[q].x \in Nat /\ heap[q].p \in Nat /\ heap[q].c \in Nat
  BY DEF NodeTypes
<1>1. Len(heap) \in Nat /\ heap \in Seq(Node)
  BY DEF LCSTypes
<1>2. q \in 1..Len(heap) /\ q \in Nat /\ q # 0
  BY <1>1 DEF InUse
<1>3. heap[q] \in Node
  BY <1>1, <1>2, SeqAt, Zenon
<1> QED
  BY <1>2, <1>3 DEF Node

(* A node that is linked has the position of this item, and level k. *)
LEMMA LinkKeepsNodes ==
    ASSUME NEW lev \in [Nat -> Nat], NEW yy \in [Nat -> Nat], NEW n, NEW k, NEW m,
           LCSTypes, ItemsInv, FirstTaken, NodesInv(lev, yy), stage \in {"find", "free"},
           LinksTo(n, m), Lists(n, k), UNCHANGED <<xs, ys, turn, queue>>
    PROVE  NodesInv([lev EXCEPT ![n] = k], [yy EXCEPT ![n] = turn])'
<1> DEFINE lev1 == [lev EXCEPT ![n] = k]
           yy1 == [yy EXCEPT ![n] = turn]
<1>1. Pending' = queue /\ Pending = queue \cup {adding}
  BY DEF LinksTo, Pending
<1>2. \A r \in queue : r < adding
  BY DEF FirstTaken
<1>3. lev1[n] = k /\ yy1[n] = turn
  BY DEF LinksTo
<1>4. adding \in 1..Len(xs) /\ turn # 0 /\ xs[adding] = ys[turn]
  BY <1>1 DEF ItemsInv
<1>5. turn \in 1..Len(ys) /\ turn <= turn
  BY <1>4 DEF LCSTypes
<1>6. Len(list) \in Nat /\ Len(list) <= Len(list') /\ k <= Len(list') /\ Len(list') \in Nat
  BY DEF LCSTypes, Lists
<1> SUFFICES ASSUME NEW q \in InUse'
             PROVE  /\ heap'[q].x \in 1..Len(xs) /\ yy1[q] \in 1..Len(ys) /\ yy1[q] <= turn
                    /\ xs[heap'[q].x] = ys[yy1[q]]
                    /\ lev1[q] <= Len(list')
                    /\ yy1[q] = turn => \A r \in queue : r < heap'[q].x
  BY <1>1 DEF NodesInv
<1>7. CASE q = n
  <2>1. heap'[q].x = adding
    BY <1>7 DEF LinksTo
  <2> QED
    BY <1>2, <1>3, <1>4, <1>5, <1>6, <1>7, <2>1
<1>8. CASE q # n
  <2>1. q \in Settled /\ q \in InUse /\ heap'[q].x = heap[q].x
    BY <1>8 DEF LinksTo, Settled
  <2>2. q \in Nat
    BY <2>1, NodesAreTyped DEF NodeTypes
  <2>3. lev1[q] = lev[q] /\ yy1[q] = yy[q] /\ lev[q] \in Nat
    BY <1>8, <2>2
  <2>4. /\ heap[q].x \in 1..Len(xs) /\ yy[q] \in 1..Len(ys) /\ yy[q] <= turn
        /\ xs[heap[q].x] = ys[yy[q]]
        /\ lev[q] <= Len(list)
        /\ yy[q] = turn => \A r \in Pending : r < heap[q].x
    BY <2>1 DEF NodesInv
  <2>5. lev[q] \in Nat /\ lev[q] <= Len(list)
    BY <2>2, <2>4
  <2> HIDE DEF lev1, yy1
  <2>6. lev[q] <= Len(list')
    BY <1>6, <2>2, <2>5
  <2> QED
    BY <1>1, <2>1, <2>3, <2>4, <2>6
<1> QED
  BY <1>7, <1>8

(* Its chain is one longer than the one it goes on with, and ends later. *)
LEMMA LinkKeepsLinks ==
    ASSUME NEW lev \in [Nat -> Nat], NEW yy \in [Nat -> Nat], NEW n, NEW k, NEW m,
           LCSTypes, NodesInv(lev, yy), LinksInv(lev, yy), ListInv(lev),
           stage \in {"find", "free"},
           LinksTo(n, m), Lists(n, k), HasPlace(k, m), UNCHANGED turn
    PROVE  LinksInv([lev EXCEPT ![n] = k], [yy EXCEPT ![n] = turn])'
<1> DEFINE lev1 == [lev EXCEPT ![n] = k]
           yy1 == [yy EXCEPT ![n] = turn]
<1>1. Settled' = Settled \cup {n} /\ InUse' = InUse \cup {n} /\ \A r \in InUse : r \in Settled \/ r = n
  BY DEF LinksTo
<1>2. n \in Nat /\ turn \in Nat /\ Len(list) \in Nat /\ k \in Nat
  BY DEF LinksTo, Lists, LCSTypes
<1>3. lev1[n] = k /\ yy1[n] = turn
  BY <1>2
<1>4. \A r \in InUse : r # n => lev1[r] = lev[r] /\ yy1[r] = yy[r] /\ heap'[r].x = heap[r].x
  BY <1>1, NodesAreTyped DEF NodeTypes, LinksTo
<1> SUFFICES ASSUME NEW q \in Settled'
             PROVE  \/ heap'[q].p = 0 /\ lev1[q] = 1
                    \/ /\ heap'[q].p \in InUse'
                       /\ lev1[q] = lev1[heap'[q].p] + 1
                       /\ heap'[heap'[q].p].x < heap'[q].x
                       /\ yy1[heap'[q].p] < yy1[q]
  BY DEF LinksInv
<1>5. CASE q = n
  <2>0. heap'[q].p = m /\ heap'[q].x = adding
    BY <1>5 DEF LinksTo
  <2>1. CASE k = 1
    BY <1>5, <2>0, <2>1, <1>3 DEF HasPlace
  <2>2. CASE k # 1
    <3>1. k - 1 \in 1..Len(list) /\ m = list[k - 1] /\ k - 1 # k /\ k - 1 < k
      <4>1. k - 1 \in 1..Len(list) /\ m = list[k - 1]
        BY <2>2 DEF HasPlace
      <4> QED
        BY <1>2, <4>1, OneLess, Zenon
    <3>2. heap[m].x < adding
      BY <3>1 DEF HasPlace
    <3>3. m \in InUse /\ lev[m] = k - 1
      BY <3>1 DEF ListInv
    <3>4. k - 1 \in 1..Len(list')
      BY <1>2, <3>1 DEF Lists
    <3>5. m # n
      BY <3>1, <3>4 DEF Lists, LinksTo
    <3>6. lev1[m] = k - 1 /\ yy1[m] = yy[m] /\ heap'[m].x = heap[m].x
      BY <1>4, <3>3, <3>5
    <3>7. yy[m] <= turn /\ (yy[m] = turn => \A r \in Pending : r < heap[m].x)
      BY <3>3 DEF NodesInv
    <3>8. adding \in Pending /\ adding \in Nat
      BY DEF Pending, LCSTypes
    <3>9. m \in Nat /\ heap[m].x \in Nat
      BY <3>3, NodesAreTyped DEF NodeTypes
    <3>10. yy[m] \in Nat
      BY <3>9
    <3>11. yy[m] # turn
      BY <3>2, <3>7, <3>8, <3>9
    <3>12. k = (k - 1) + 1
      BY <1>2
    <3> HIDE DEF lev1, yy1
    <3>14. yy[m] <= turn
      BY <3>7
    <3>13. yy[m] < turn
      BY <1>2, <3>9, <3>10, <3>11, <3>14
    <3> QED
      BY <1>1, <1>3, <1>5, <2>0, <3>2, <3>3, <3>6, <3>12, <3>13
  <2> QED
    BY <2>1, <2>2
<1>6. CASE q # n
  <2>1. q \in Settled /\ q \in InUse /\ heap'[q].x = heap[q].x /\ heap'[q].p = heap[q].p /\ heap[q].p # n
    BY <1>1, <1>6 DEF LinksTo, Settled
  <2>2. lev1[q] = lev[q] /\ yy1[q] = yy[q]
    BY <1>4, <1>6, <2>1
  <2>3. CASE heap[q].p = 0 /\ lev[q] = 1
    BY <2>1, <2>2, <2>3
  <2>4. CASE /\ heap[q].p \in InUse
             /\ lev[q] = lev[heap[q].p] + 1
             /\ heap[heap[q].p].x < heap[q].x
             /\ yy[heap[q].p] < yy[q]
    <3>1. PICK r : r = heap[q].p
      OBVIOUS
    <3>2. lev1[r] = lev[r] /\ yy1[r] = yy[r] /\ heap'[r].x = heap[r].x /\ r \in InUse'
      BY <1>1, <1>4, <2>1, <2>4, <3>1
    <3> HIDE DEF lev1, yy1
    <3> QED
      BY <2>1, <2>2, <2>4, <3>1, <3>2
  <2> QED
    BY <2>1, <2>3, <2>4 DEF LinksInv
<1> QED
  BY <1>5, <1>6

(* The list stays in order. *)
LEMMA LinkKeepsList ==
    ASSUME NEW lev \in [Nat -> Nat], NEW yy \in [Nat -> Nat], NEW n, NEW k, NEW m,
           LCSTypes, ListInv(lev), LinksTo(n, m), Lists(n, k), HasPlace(k, m)
    PROVE  ListInv([lev EXCEPT ![n] = k])'
<1> DEFINE lev1 == [lev EXCEPT ![n] = k]
<1>1. \A i \in 1..Len(list') : i # k =>
          i \in 1..Len(list) /\ list'[i] = list[i] /\ list[i] \in Settled
  BY DEF Lists
<1>2. n \in Nat /\ list'[k] = n /\ n \in InUse' /\ k \in Nat
  BY DEF Lists, LinksTo
<1>3. \A i \in 1..Len(list') : list'[i] \in InUse' /\ lev1[list'[i]] = i
  <2> SUFFICES ASSUME NEW i \in 1..Len(list')
               PROVE  list'[i] \in InUse' /\ lev1[list'[i]] = i
    OBVIOUS
  <2>1. CASE i = k
    BY <1>2, <2>1
  <2>2. CASE i # k
    <3>1. i \in 1..Len(list) /\ list'[i] = list[i] /\ list[i] \in Settled
      BY <1>1, <2>2
    <3>2. list[i] \in InUse /\ lev[list[i]] = i
      BY <3>1 DEF ListInv
    <3>3. list[i] # n /\ list[i] \in Nat /\ list[i] \in InUse'
      BY <3>1, <3>2, NodesAreTyped DEF LinksTo, NodeTypes
    <3> QED
      BY <3>1, <3>2, <3>3
  <2> QED
    BY <2>1, <2>2
<1>4. \A i \in 1..Len(list') : i # k => i \in 1..Len(list) /\ heap'[list'[i]].x = heap[list[i]].x
  BY <1>1 DEF LinksTo
<1>5. heap'[list'[k]].x = adding
  BY <1>2 DEF LinksTo
<1>6. ASSUME NEW i \in 1..Len(list'), NEW j \in 1..Len(list'), i < j
      PROVE  heap'[list'[i]].x < heap'[list'[j]].x
  <2>1. CASE i # k /\ j # k
    BY <1>4, <1>6, <2>1 DEF ListInv
  <2>2. CASE i = k
    <3>1. j # k /\ k <= j
      BY <1>2, <1>6, <2>2
    <3> QED
      BY <1>4, <1>5, <2>2, <3>1 DEF HasPlace
  <2>3. CASE j = k
    <3>1. i # k /\ i < k
      BY <1>2, <1>6, <2>3
    <3> QED
      BY <1>4, <1>5, <2>3, <3>1 DEF HasPlace
  <2> QED
    BY <2>1, <2>2, <2>3
<1> QED
  BY <1>3, <1>6 DEF ListInv

(* The node it goes on with has counted it. *)
LEMMA LinkKeepsCount ==
    ASSUME NEW n, NEW k, NEW m, LCSTypes, CountInv, LinksTo(n, m), Lists(n, k), HasPlace(k, m)
    PROVE  CountInv'
<1>1. Settled' = Settled \cup {n} /\ n \notin Settled /\ heap'[n].p = m
  BY DEF LinksTo
<1>2. \A q \in Settled : heap'[q].p = heap[q].p /\ heap[q].p # n
  BY DEF LinksTo
<1>3. m # n
  <2>1. CASE k = 1
    BY <2>1 DEF HasPlace, LinksTo
  <2>2. CASE k # 1
    <3>1. k - 1 \in 1..Len(list) /\ m = list[k - 1]
      BY <2>2 DEF HasPlace
    <3>2. k - 1 # k /\ k - 1 \in 1..Len(list')
      BY <3>1 DEF Lists, LCSTypes
    <3> QED
      BY <3>1, <3>2 DEF Lists, LinksTo
  <2> QED
    BY <2>1, <2>2
<1>4. \A q : Owed(q)' = 0 /\ Owed(q) \in {0, 1}
  BY DEF Owed, LinksTo
<1>5. ASSUME NEW q \in InUse', q # n
      PROVE  Cardinality(Holders(q)') <= heap'[q].c
  <2>1. q \in Settled /\ q \in InUse
    BY <1>5 DEF LinksTo, Settled
  <2>2. heap[q].c \in Nat /\ heap'[q].c \in Nat
    BY <2>1, NodesAreTyped DEF NodeTypes, LinksTo
  <2>3. Cardinality(Holders(q)) \in Nat /\ IsFiniteSet(Holders(q))
    BY HoldersAreFinite
  <2>4. Cardinality(Holders(q)) + Owed(q) <= heap[q].c
    BY <2>1 DEF CountInv
  <2>5. Cardinality(Holders(q)) <= heap[q].c
    BY <1>4, <2>2, <2>3, <2>4
  <2>6. CASE q = m
    <3>1. Holders(q)' = Holders(q) \cup {n} /\ n \notin Holders(q)
      BY <1>1, <1>2, <2>6 DEF Holders
    <3>2. Cardinality(Holders(q) \cup {n}) = Cardinality(Holders(q)) + 1
      BY <2>3, <3>1, FS_AddElement
    <3>3. heap[q].c < heap'[q].c
      BY <2>1, <2>6 DEF LinksTo
    <3> QED
      BY <2>2, <2>3, <2>5, <3>1, <3>2, <3>3
  <2>7. CASE q # m
    <3>1. Holders(q)' = Holders(q)
      BY <1>1, <1>2, <2>7 DEF Holders
    <3>2. heap[q].c <= heap'[q].c
      BY <2>1 DEF LinksTo
    <3> QED
      BY <2>2, <2>3, <2>5, <3>1, <3>2
  <2> QED
    BY <2>6, <2>7
<1>6. Cardinality(Holders(n)') <= heap'[n].c
  <2>1. Holders(n)' = {}
    BY <1>1, <1>2, <1>3 DEF Holders
  <2>2. heap'[n].c \in Nat
    BY DEF LinksTo
  <2> QED
    BY <2>1, <2>2, FS_EmptySet
<1> SUFFICES ASSUME NEW q \in InUse'
             PROVE  Cardinality(Holders(q)') + Owed(q)' <= heap'[q].c
  BY DEF CountInv
<1>7. Cardinality(Holders(q)') <= heap'[q].c
  BY <1>5, <1>6
<1>8. IsFiniteSet(Holders(q)')
  <2>1. Holders(q)' \subseteq Holders(q) \cup {n}
    BY <1>1, <1>2 DEF Holders
  <2>2. IsFiniteSet(Holders(q) \cup {n})
    BY HoldersAreFinite, FS_AddElement
  <2> QED
    BY <2>1, <2>2, FS_Subset
<1>9. Cardinality(Holders(q)') \in Nat
  BY <1>8, FS_CardinalityType
<1> QED
  BY <1>4, <1>7, <1>9

(* The tails of the list are shared along the list only. *)
LEMMA LinkKeepsShared ==
    ASSUME NEW lev \in [Nat -> Nat], NEW n, NEW k, NEW m,
           LCSTypes, ListInv(lev), SharedInv, LinksTo(n, m), Lists(n, k), HasPlace(k, m)
    PROVE  SharedInv'
<1>1. Settled' = Settled \cup {n} /\ n # 0 /\ n \notin Settled
  BY DEF LinksTo
<1>2. \A i \in 1..Len(list') : i # k =>
          i \in 1..Len(list) /\ list'[i] = list[i] /\ list[i] \in Settled
  BY DEF Lists
<1>3. \A q \in Settled : heap'[q].p = heap[q].p /\ heap[q].p # n
  BY DEF LinksTo
<1>4. list'[k] = n /\ heap'[n].p = m /\ k \in 1..Len(list')
  BY DEF Lists, LinksTo
<1>5. Len(list) \in Nat /\ Len(list') \in Nat /\ Len(list) <= Len(list')
  BY DEF Lists, LCSTypes
<1>6. k # 1 => k - 1 \in 1..Len(list') /\ k - 1 # k /\ k - 1 \in 1..Len(list) /\ m = list[k - 1]
  <2> SUFFICES ASSUME k # 1
               PROVE  k - 1 \in 1..Len(list') /\ k - 1 # k /\ k - 1 \in 1..Len(list) /\ m = list[k - 1]
    OBVIOUS
  <2>1. k - 1 \in 1..Len(list) /\ m = list[k - 1]
    BY DEF HasPlace
  <2>2. k \in Nat
    BY <1>4, <1>5
  <2> QED
    BY <1>5, <2>1, <2>2
<1>7. m # n
  BY <1>1, <1>2, <1>6 DEF HasPlace
<1>8. ASSUME NEW q \in Settled', NEW j \in 1..Len(list'), heap'[q].p = list'[j]
      PROVE  j < Len(list') /\ heap'[list'[j + 1]].p = list'[j]
  <2>1. j # k
    BY <1>1, <1>3, <1>4, <1>7, <1>8
  <2>2. j \in 1..Len(list) /\ list'[j] = list[j] /\ list[j] \in Settled /\ lev[list[j]] = j
    BY <1>2, <2>1 DEF ListInv
  <2>3. CASE q = n
    <3>1. m = list[j]
      BY <1>4, <1>8, <2>2, <2>3
    <3>2. list[j] # 0
      BY <2>2, NodesAreTyped DEF NodeTypes, Settled
    <3>3. j = k - 1
      BY <1>6, <2>2, <3>1, <3>2 DEF HasPlace, ListInv
    <3>4. j + 1 = k /\ j < Len(list')
      <4>1. j \in Nat
        BY <1>5
      <4> QED
        BY <1>4, <1>5, <3>3, <4>1, OneBefore, Zenon
    <3> QED
      BY <1>4, <2>2, <3>1, <3>4
  <2>4. CASE q # n
    <3>1. q \in Settled /\ heap[q].p = list[j]
      BY <1>1, <1>3, <1>8, <2>2, <2>4
    <3>2. j < Len(list) /\ heap[list[j + 1]].p = list[j]
      BY <2>2, <3>1 DEF SharedInv
    <3>3. j < Len(list') /\ j + 1 \in 1..Len(list')
      <4>1. j \in Nat /\ j < Len(list)
        BY <1>5, <1>8, <3>2
      <4>2. PICK l : l = Len(list')
        OBVIOUS
      <4>3. l \in Nat /\ Len(list) <= l /\ Len(list) \in Nat
        BY <1>5, <4>2
      <4>4. j < l /\ j + 1 \in 1..l
        BY <4>1, <4>3
      <4> QED
        BY <4>2, <4>4
    <3>4. CASE j + 1 = k
      <4>0. j \in Nat /\ 1 <= j
        BY <1>5, <1>8
      <4>2. k \in Nat
        BY <1>4, <1>5
      <4>1. k # 1 /\ k - 1 = j
        BY <3>4, <4>0, <4>2
      <4> QED
        BY <1>4, <1>6, <2>2, <3>3, <3>4, <4>1
    <3>5. CASE j + 1 # k
      <4>1. list'[j + 1] = list[j + 1] /\ list[j + 1] \in Settled
        BY <1>2, <3>3, <3>5
      <4> QED
        BY <1>3, <2>2, <3>2, <3>3, <4>1
    <3> QED
      BY <3>4, <3>5
  <2> QED
    BY <2>3, <2>4
<1> QED
  BY <1>8 DEF SharedInv

(* A node that is linked at its place keeps the chains. *)
LEMMA LinkKeeps ==
    ASSUME NEW lev \in [Nat -> Nat], NEW yy \in [Nat -> Nat], NEW n, NEW k, NEW m,
           LCSTypes, ItemsInv, FirstTaken, HeapInv(lev, yy), stage \in {"find", "free"},
           LinksTo(n, m), Lists(n, k), HasPlace(k, m), RecycleInv',
           UNCHANGED <<xs, ys, turn, queue>>
    PROVE  HeapInv([lev EXCEPT ![n] = k], [yy EXCEPT ![n] = turn])'
<1>1. FreeInv([lev EXCEPT ![n] = k])'
  BY DEF FreeInv, LinksTo
<1> QED
  BY <1>1, LinkKeepsNodes, LinkKeepsLinks, LinkKeepsList, LinkKeepsCount, LinkKeepsShared DEF HeapInv

(* What link makes of the nodes. *)
WithLink(new, nodes, n, m) ==
    /\ new \in Seq(Node) /\ Len(new) = Len(nodes)
    /\ new[n].x = adding /\ new[n].p = m /\ new[n].c \in Nat
    /\ \A q \in 1..Len(nodes) : q # n =>
         /\ new[q].x = nodes[q].x /\ new[q].p = nodes[q].p
         /\ nodes[q].c <= new[q].c /\ (q = m => nodes[q].c < new[q].c)

(* t is s but for its i-th element. *)
Updates(t, s, i, e, S) ==
    /\ t \in Seq(S) /\ Len(t) = Len(s) /\ t[i] = e
    /\ \A j \in 1..Len(s) : j # i => t[j] = s[j]

(* EXCEPT updates a sequence. *)
LEMMA SeqUpdates ==
    ASSUME NEW S, NEW s \in Seq(S), NEW i \in 1..Len(s), NEW e \in S
    PROVE  Updates([s EXCEPT ![i] = e], s, i, e, S)
BY ExceptSeq DEF Updates

(* A node that is counted once more is the same otherwise. *)
LEMMA CountedOnce ==
    ASSUME NEW r \in Node
    PROVE  LET e == [r EXCEPT !.c = @ + 1] IN
           e \in Node /\ e.x = r.x /\ e.p = r.p /\ r.c <= e.c /\ r.c < e.c
<1>1. r.x \in Nat /\ r.p \in Nat /\ r.c \in Nat
  BY DEF Node
<1>2. PICK e : e = [r EXCEPT !.c = @ + 1]
  OBVIOUS
<1>3. e = [x |-> r.x, p |-> r.p, c |-> r.c + 1]
  BY <1>2 DEF Node
<1>4. e \in Node /\ e.x = r.x /\ e.p = r.p /\ r.c <= e.c /\ r.c < e.c
  BY <1>1, <1>3 DEF Node
<1> QED
  BY <1>2, <1>4

(* Linked does what link does. *)
LEMMA LinkedIs ==
    ASSUME NEW nodes \in Seq(Node), NEW n \in 1..Len(nodes), NEW m, m # 0 => m \in 1..Len(nodes),
           m \in Nat, m # n, adding \in Nat
    PROVE  WithLink(Linked(nodes, n, m), nodes, n, m)
<1> DEFINE counted == IF m = 0 THEN nodes ELSE [nodes EXCEPT ![m].c = @ + 1]
<1>1. Len(nodes) \in Nat /\ n \in Nat
  OBVIOUS
<1>2. \A q \in 1..Len(nodes) : nodes[q] \in Node
  BY SeqAt, Zenon
<1>3. /\ counted \in Seq(Node) /\ Len(counted) = Len(nodes)
      /\ \A q \in 1..Len(nodes) :
           /\ counted[q] \in Node
           /\ counted[q].x = nodes[q].x /\ counted[q].p = nodes[q].p
           /\ nodes[q].c <= counted[q].c /\ (q = m => nodes[q].c < counted[q].c)
  <2>1. CASE m = 0
    <3>1. \A q \in 1..Len(nodes) : nodes[q].c <= nodes[q].c /\ q # m
      BY <1>1, <1>2, <2>1 DEF Node
    <3> QED
      BY <1>1, <1>2, <2>1, <3>1
  <2>2. CASE m # 0
    <3>1. m \in 1..Len(nodes) /\ nodes[m] \in Node
      BY <1>2, <2>2
    <3>2. PICK e : e = [nodes[m] EXCEPT !.c = @ + 1]
      OBVIOUS
    <3>3. e \in Node /\ e.x = nodes[m].x /\ e.p = nodes[m].p /\ nodes[m].c <= e.c /\ nodes[m].c < e.c
      BY <3>1, <3>2, CountedOnce, Zenon
    <3>4. counted = [nodes EXCEPT ![m] = e]
      BY <2>2, <3>2
    <3> HIDE DEF counted
    <3>8. Updates(counted, nodes, m, e, Node)
      BY <3>1, <3>3, <3>4, SeqUpdates, Zenon
    <3>5. /\ counted \in Seq(Node) /\ Len(counted) = Len(nodes)
          /\ \A q \in 1..Len(nodes) : counted[q] = IF q = m THEN e ELSE nodes[q]
      BY <3>8 DEF Updates
    <3> SUFFICES ASSUME NEW q \in 1..Len(nodes)
                 PROVE  /\ counted[q] \in Node
                        /\ counted[q].x = nodes[q].x /\ counted[q].p = nodes[q].p
                        /\ nodes[q].c <= counted[q].c /\ (q = m => nodes[q].c < counted[q].c)
      BY <3>5
    <3>6. CASE q = m
      BY <3>3, <3>5, <3>6
    <3>7. CASE q # m
      <4>1. counted[q] = nodes[q] /\ nodes[q] \in Node
        BY <1>2, <3>5, <3>7
      <4>2. nodes[q].c <= nodes[q].c
        BY <4>1 DEF Node
      <4> QED
        BY <3>7, <4>1, <4>2
    <3> QED
      BY <3>6, <3>7
  <2> QED
    BY <2>1, <2>2
<1>4. PICK e : e = [x |-> adding, p |-> m, c |-> counted[n].c]
  OBVIOUS
<1>5. e \in Node /\ e.x = adding /\ e.p = m /\ e.c \in Nat
  BY <1>3, <1>4 DEF Node
<1>6. Linked(nodes, n, m) = [counted EXCEPT ![n] = e]
  BY <1>4 DEF Linked
<1>7. PICK new : new = Linked(nodes, n, m)
  OBVIOUS
<1> HIDE DEF counted
<1>8. /\ new \in Seq(Node) /\ Len(new) = Len(nodes)
      /\ \A q \in 1..Len(nodes) : new[q] = IF q = n THEN e ELSE counted[q]
  <2>1. n \in 1..Len(counted)
    BY <1>3
  <2>2. counted \in Seq(Node) /\ e \in Node /\ new = [counted EXCEPT ![n] = e]
    BY <1>3, <1>5, <1>6, <1>7
  <2>3. Updates(new, counted, n, e, Node)
    BY <2>1, <2>2, SeqUpdates, Zenon
  <2> QED
    BY <1>3, <2>3 DEF Updates
<1>9. WithLink(new, nodes, n, m)
  BY <1>3, <1>5, <1>8 DEF WithLink
<1> QED
  BY <1>7, <1>9

(* Nodes that are not recycled are taken one after another. *)
LEMMA FrontIs ==
    ASSUME NEW S, NEW s \in Seq(S), s # << >>
    PROVE  /\ Front(s) \in Seq(S) /\ Len(Front(s)) = Len(s) - 1
           /\ \A i \in 1..(Len(s) - 1) : Front(s)[i] = s[i]
           /\ Len(s) \in Nat \ {0} /\ Last(s) = s[Len(s)]
<1>1. Len(s) \in Nat \ {0}
  BY EmptySeq
<1>2. Front(s) = SubSeq(s, 1, Len(s) - 1) /\ Last(s) = s[Len(s)]
  BY DEF Front, Last
<1>3. \A i \in 1..(Len(s) - 1) : s[i] \in S
  BY <1>1, SeqAt
<1>4. /\ SubSeq(s, 1, Len(s) - 1) \in Seq(S)
      /\ Len(SubSeq(s, 1, Len(s) - 1)) = IF 1 <= Len(s) - 1 THEN Len(s) - 1 - 1 + 1 ELSE 0
      /\ \A i \in 1..(Len(s) - 1 - 1 + 1) : SubSeq(s, 1, Len(s) - 1)[i] = s[1 + i - 1]
  <2>1. 1 \in Int /\ Len(s) - 1 \in Int
    BY <1>1
  <2> QED
    BY <1>3, <2>1, SubSeqProperties
<1>5. Len(SubSeq(s, 1, Len(s) - 1)) = Len(s) - 1
  <2>1. PICK l : l = Len(s)
    OBVIOUS
  <2>2. l \in Nat \ {0} /\ Len(SubSeq(s, 1, l - 1)) = IF 1 <= l - 1 THEN l - 1 - 1 + 1 ELSE 0
    BY <1>1, <1>4, <2>1
  <2>3. Len(SubSeq(s, 1, l - 1)) = l - 1
    BY <2>2
  <2> QED
    BY <2>1, <2>3
<1>6. \A i \in 1..(Len(s) - 1) : SubSeq(s, 1, Len(s) - 1)[i] = s[i]
  BY <1>1, <1>4
<1> QED
  BY <1>1, <1>2, <1>4, <1>5, <1>6

(* The node that new takes was not in use. *)
Takes(n, nodes) ==
    /\ n \in Nat /\ n # 0 /\ n \notin InUse
    /\ nodes \in Seq(Node) /\ n \in 1..Len(nodes)
    /\ \A q \in InUse : q \in 1..Len(nodes) /\ nodes[q] = heap[q]
    /\ 1..Len(nodes) \ Spare' = InUse \cup {n}
    /\ recycle' \in Seq(Nat)
    /\ \A i \in 1..Len(recycle') : recycle'[i] \in 1..Len(nodes)
    /\ \A i, j \in 1..Len(recycle') : recycle'[i] = recycle'[j] => i = j

(* A node beyond the last one is new. *)
LEMMA TakesNew ==
    ASSUME LCSTypes, RecycleInv, recycle = << >>, recycle' = recycle
    PROVE  Takes(Len(heap) + 1, Append(heap, [x |-> 0, p |-> 0, c |-> 0]))
<1>1. Len(heap) \in Nat /\ heap \in Seq(Node) /\ Len(recycle) = 0 /\ recycle \in Seq(Nat)
  BY DEF LCSTypes
<1>2. [x |-> 0, p |-> 0, c |-> 0] \in Node
  BY DEF Node
<1>3. PICK e : e = [x |-> 0, p |-> 0, c |-> 0]
  OBVIOUS
<1>4. PICK nodes : nodes = Append(heap, e)
  OBVIOUS
<1>5. nodes \in Seq(Node) /\ Len(nodes) = Len(heap) + 1 /\ \A q \in 1..Len(heap) : nodes[q] = heap[q]
  BY <1>1, <1>2, <1>3, <1>4
<1>6. Spare = {} /\ Spare' = {}
  BY <1>1 DEF Spare
<1>7. InUse = 1..Len(heap)
  BY <1>6 DEF InUse
<1>8. 1..(Len(heap) + 1) = 1..Len(heap) \cup {Len(heap) + 1}
  BY <1>1
<1>9. Len(heap) + 1 \in Nat /\ Len(heap) + 1 # 0 /\ Len(heap) + 1 \notin 1..Len(heap) /\ Len(heap) + 1 \in 1..(Len(heap) + 1)
  BY <1>1
<1>10. \A q \in InUse : q \in 1..Len(nodes) /\ nodes[q] = heap[q]
  BY <1>1, <1>5, <1>7
<1>11. \A i \in 1..Len(recycle') : FALSE
  BY <1>1
<1>12. Takes(Len(heap) + 1, nodes)
  BY <1>1, <1>5, <1>6, <1>7, <1>8, <1>9, <1>10, <1>11 DEF Takes
<1> QED
  BY <1>3, <1>4, <1>12

(* So is the last of the recycled ones. *)
LEMMA TakesRecycled ==
    ASSUME LCSTypes, RecycleInv, recycle # << >>, recycle' = Front(recycle)
    PROVE  Takes(Last(recycle), heap)
<1>1. Len(heap) \in Nat /\ heap \in Seq(Node) /\ recycle \in Seq(Nat)
  BY DEF LCSTypes
<1>2. /\ recycle' \in Seq(Nat) /\ Len(recycle') = Len(recycle) - 1
      /\ \A i \in 1..(Len(recycle) - 1) : recycle'[i] = recycle[i]
      /\ Len(recycle) \in Nat \ {0} /\ Last(recycle) = recycle[Len(recycle)]
  BY <1>1, FrontIs
<1>3. PICK l : l = Len(recycle)
  OBVIOUS
<1>4. PICK n : n = recycle[l]
  OBVIOUS
<1>5. l \in Nat /\ l \in 1..l /\ \A i \in 1..(l - 1) : i \in 1..l /\ i # l
  BY <1>2, <1>3
<1>6. \A i \in 1..l : i = l \/ i \in 1..(l - 1)
  BY <1>5
<1>7. n \in 1..Len(heap) /\ n \in Spare
  BY <1>3, <1>4, <1>5 DEF RecycleInv, Spare
<1>8. \A i \in 1..(l - 1) : recycle[i] # n
  BY <1>3, <1>4, <1>5 DEF RecycleInv
<1>9. Spare' = {recycle[i] : i \in 1..(l - 1)}
  BY <1>2, <1>3 DEF Spare
<1>10. Spare = Spare' \cup {n} /\ n \notin Spare'
  BY <1>3, <1>4, <1>5, <1>6, <1>8, <1>9 DEF Spare
<1>11. 1..Len(heap) \ Spare' = InUse \cup {n} /\ n \notin InUse
  BY <1>7, <1>10 DEF InUse
<1>12. \A q \in InUse : q \in 1..Len(heap) /\ heap[q] = heap[q]
  BY DEF InUse
<1>13. \A i \in 1..Len(recycle') : recycle'[i] \in 1..Len(heap)
  BY <1>2, <1>3, <1>5 DEF RecycleInv
<1>14. \A i, j \in 1..Len(recycle') : recycle'[i] = recycle'[j] => i = j
  BY <1>2, <1>3, <1>5 DEF RecycleInv
<1>15. n \in Nat /\ n # 0
  BY <1>1, <1>7
<1>16. n = Last(recycle)
  BY <1>2, <1>3, <1>4
<1>17. Takes(n, heap)
  BY <1>1, <1>2, <1>7, <1>11, <1>12, <1>13, <1>14, <1>15 DEF Takes
<1> QED
  BY <1>16, <1>17

(* The list with a node at k, or appended. *)
LEMMA ListsAt ==
    ASSUME NEW n \in Nat, NEW k \in 1..(Len(list) + 1), LCSTypes, \A i \in 1..Len(list) : list[i] \in Settled,
           list' = IF k > Len(list) THEN Append(list, n) ELSE [list EXCEPT ![k] = n]
    PROVE  list' \in Seq(Nat) /\ Lists(n, k)
<1>1. Len(list) \in Nat /\ list \in Seq(Nat) /\ k \in Nat /\ 1 <= k /\ k <= Len(list) + 1
  BY DEF LCSTypes
<1>2. CASE k > Len(list)
  <2>1. list' = Append(list, n) /\ k = Len(list) + 1
    BY <1>1, <1>2
  <2>2. /\ list' \in Seq(Nat) /\ Len(list') = Len(list) + 1 /\ list'[Len(list) + 1] = n
        /\ \A i \in 1..Len(list) : list'[i] = list[i]
    BY <1>1, <2>1
  <2>3. \A i \in 1..(Len(list) + 1) : i # k => i \in 1..Len(list)
    BY <1>1, <2>1
  <2>4. Len(list') \in Nat /\ k \in 1..Len(list') /\ Len(list) <= Len(list')
    BY <1>1, <2>1, <2>2
  <2> QED
    BY <2>1, <2>2, <2>3, <2>4 DEF Lists
<1>3. CASE ~(k > Len(list))
  <2>1. list' = [list EXCEPT ![k] = n] /\ k \in 1..Len(list)
    BY <1>1, <1>3
  <2>2. Updates(list', list, k, n, Nat)
    BY <1>1, <2>1, SeqUpdates
  <2> QED
    BY <1>1, <2>1, <2>2 DEF Lists, Updates
<1> QED
  BY <1>2, <1>3

(* Place links a node that was not in use and lists it. *)
LEMMA PlaceLinks ==
    ASSUME NEW lev \in [Nat -> Nat], NEW yy \in [Nat -> Nat],
           NEW k \in 1..(Len(list) + 1), NEW m, m # 0 => m \in InUse,
           LCSTypes, HeapInv(lev, yy), stage = "find", Place(k, m)
    PROVE  /\ \E n : LinksTo(n, m) /\ Lists(n, k)
           /\ RecycleInv' /\ heap' \in Seq(Node) /\ recycle' \in Seq(Nat) /\ list' \in Seq(Nat)
<1>1. PICK n, nodes : /\ n = IF recycle # << >> THEN Last(recycle) ELSE Len(heap) + 1
                      /\ nodes = IF recycle # << >> THEN heap
                                 ELSE Append(heap, [x |-> 0, p |-> 0, c |-> 0])
  OBVIOUS
<1>2. /\ heap' = Linked(nodes, n, m)
      /\ recycle' = IF recycle # << >> THEN Front(recycle) ELSE recycle
      /\ list' = IF k > Len(list) THEN Append(list, n) ELSE [list EXCEPT ![k] = n]
      /\ stage' = "item"
  BY <1>1 DEF Place
<1>3. Takes(n, nodes)
  <2>1. CASE recycle = << >>
    BY <1>1, <1>2, <2>1, TakesNew DEF HeapInv
  <2>2. CASE recycle # << >>
    BY <1>1, <1>2, <2>2, TakesRecycled DEF HeapInv
  <2> QED
    BY <2>1, <2>2
<1>4. /\ n \in Nat /\ n # 0 /\ n \notin InUse
      /\ nodes \in Seq(Node) /\ n \in 1..Len(nodes)
      /\ \A q \in InUse : q \in 1..Len(nodes) /\ nodes[q] = heap[q]
      /\ 1..Len(nodes) \ Spare' = InUse \cup {n}
  BY <1>3 DEF Takes
<1>5. Settled = InUse
  BY DEF Settled, Changing
<1>6. m # n /\ (m # 0 => m \in 1..Len(nodes)) /\ m \in Nat
  <2>1. CASE m = 0
    BY <1>4, <2>1
  <2>2. CASE m # 0
    <3>1. m \in InUse
      BY <2>2
    <3>2. m \in Nat
      BY <3>1, NodesAreTyped DEF NodeTypes
    <3> QED
      BY <1>4, <3>1, <3>2
  <2> QED
    BY <2>1, <2>2
<1>7. adding \in Nat
  BY DEF LCSTypes
<1>8. WithLink(heap', nodes, n, m)
  BY <1>2, <1>4, <1>6, <1>7, LinkedIs, Zenon
<1>9. heap' \in Seq(Node) /\ Len(heap') = Len(nodes)
  BY <1>8 DEF WithLink
<1>10. InUse' = InUse \cup {n} /\ Settled' = Settled \cup {n}
  BY <1>2, <1>4, <1>5, <1>9 DEF InUse, Settled, Changing
<1>11. \A q \in Settled : heap[q].p # n
  BY <1>4, <1>5 DEF HeapInv, LinksInv
<1>12. \A q \in Settled :
         /\ heap'[q].x = heap[q].x /\ heap'[q].p = heap[q].p
         /\ heap[q].c <= heap'[q].c /\ (q = m => heap[q].c < heap'[q].c)
  BY <1>4, <1>5, <1>8 DEF WithLink
<1>13. \A q \in Settled : heap'[q].c \in Nat
  <2> SUFFICES ASSUME NEW q \in Settled
               PROVE  heap'[q].c \in Nat
    OBVIOUS
  <2>1. q \in 1..Len(heap')
    BY <1>4, <1>5, <1>9
  <2>2. heap'[q] \in Node
    BY <1>9, <2>1, SeqAt, Zenon
  <2> QED
    BY <2>2 DEF Node
<1>14. LinksTo(n, m)
  BY <1>2, <1>4, <1>5, <1>8, <1>10, <1>11, <1>12, <1>13 DEF LinksTo, WithLink
<1>15. list' \in Seq(Nat) /\ Lists(n, k)
  BY <1>2, <1>4, <1>5, ListsAt DEF HeapInv, ListInv
<1>16. RecycleInv' /\ recycle' \in Seq(Nat)
  BY <1>3, <1>9 DEF Takes, RecycleInv
<1> QED
  BY <1>9, <1>14, <1>15, <1>16

(* Relink links the node that is in the list already. *)
LEMMA RelinkLinks ==
    ASSUME NEW lev \in [Nat -> Nat], NEW yy \in [Nat -> Nat],
           LCSTypes, HeapInv(lev, yy), Relink
    PROVE  /\ LinksTo(list[low + 1], Before) /\ Lists(list[low + 1], low + 1)
           /\ RecycleInv' /\ heap' \in Seq(Node)
<1>1. PICK n, k, m : n = list[low + 1] /\ k = low + 1 /\ m = Before
  OBVIOUS
<1>2. /\ stage = "free" /\ stage' = "item" /\ heap' = Linked(heap, n, m)
      /\ list' = list /\ recycle' = recycle
  BY <1>1 DEF Relink
<1>3. k \in 1..Len(list) /\ Len(list) \in Nat /\ low \in Nat /\ low # k /\ (low # 0 => low \in 1..Len(list))
  <2>1. low < Len(list)
    BY <1>2 DEF HeapInv, FreeInv
  <2> QED
    BY <1>1, <2>1, Numbers, NextIn, Zenon
<1>4. n \in InUse /\ lev[n] = k /\ heap[n].c = 0
  BY <1>1, <1>2, <1>3 DEF HeapInv, ListInv, FreeInv
<1>5. Changing = {n} /\ Settled = InUse \ {n} /\ Changing' = {} /\ Spare' = Spare
  BY <1>1, <1>2 DEF Changing, Settled, Spare
<1>6. heap \in Seq(Node) /\ adding \in Nat
  BY DEF LCSTypes
<1>7. \A q \in InUse : q \in Nat /\ q # 0 /\ q \in 1..Len(heap)
  BY NodesAreTyped DEF NodeTypes, InUse
<1>8. m \in Nat /\ m # n /\ (m # 0 => m \in 1..Len(heap))
  <2>1. CASE low = 0
    BY <1>1, <1>4, <1>7, <2>1 DEF Before
  <2>2. CASE low # 0
    <3>1. m = list[low] /\ list[low] \in InUse /\ lev[m] = low
      BY <1>1, <1>3, <2>2 DEF Before, HeapInv, ListInv
    <3> QED
      BY <1>3, <1>4, <1>7, <3>1
  <2> QED
    BY <2>1, <2>2
<1>9. n \in 1..Len(heap)
  BY <1>4, <1>7
<1>10. WithLink(heap', heap, n, m)
  BY <1>2, <1>6, <1>8, <1>9, LinkedIs, Zenon
<1>11. heap' \in Seq(Node) /\ Len(heap') = Len(heap)
  BY <1>10 DEF WithLink
<1>12. InUse' = InUse /\ Settled' = InUse /\ InUse = Settled \cup {n}
  BY <1>4, <1>5, <1>11 DEF InUse, Settled
<1>13. \A q \in Settled :
         /\ heap'[q].x = heap[q].x /\ heap'[q].p = heap[q].p
         /\ heap[q].c <= heap'[q].c /\ (q = m => heap[q].c < heap'[q].c)
  BY <1>5, <1>7, <1>10 DEF WithLink
<1>14. \A q \in Settled : heap'[q].c \in Nat
  <2> SUFFICES ASSUME NEW q \in Settled
               PROVE  heap'[q].c \in Nat
    OBVIOUS
  <2>1. q \in 1..Len(heap')
    BY <1>5, <1>7, <1>11
  <2>2. heap'[q] \in Node
    BY <1>11, <2>1, SeqAt, Zenon
  <2> QED
    BY <2>2 DEF Node
<1>15. \A q \in Settled : heap[q].p # n
  <2>1. Cardinality(Holders(n)) + Owed(n) <= 0
    BY <1>4 DEF HeapInv, CountInv
  <2>2. Cardinality(Holders(n)) \in Nat /\ IsFiniteSet(Holders(n)) /\ Owed(n) \in {0, 1}
    BY HoldersAreFinite DEF Owed
  <2>3. Cardinality(Holders(n)) = 0
    BY <2>1, <2>2
  <2>4. Holders(n) = {}
    BY <2>2, <2>3, FS_EmptySet
  <2> QED
    BY <2>4 DEF Holders
<1>16. LinksTo(n, m)
  BY <1>2, <1>4, <1>5, <1>7, <1>10, <1>12, <1>13, <1>14, <1>15 DEF LinksTo, WithLink
<1>17. Lists(n, k)
  <2>1. \A i \in 1..Len(list) : i # k => list[i] \in Settled
    BY <1>4, <1>5 DEF HeapInv, ListInv
  <2> QED
    BY <1>1, <1>2, <1>3, <2>1 DEF Lists
<1>18. RecycleInv'
  BY <1>2, <1>11 DEF HeapInv, RecycleInv
<1> QED
  BY <1>1, <1>11, <1>16, <1>17, <1>18

-----------------------------------------------------------------------------
(* LCS: replace, in place *)

(* What is true of the node that loses a pointer. *)
LEMMA ChasedIs ==
    ASSUME NEW lev \in [Nat -> Nat], NEW yy \in [Nat -> Nat],
           LCSTypes, HeapInv(lev, yy), Free
    PROVE  /\ chased \in Settled /\ chased \in InUse /\ chased \in Nat /\ chased # 0
           /\ chased # list[low + 1] /\ lev[chased] <= low
           /\ Cardinality(Holders(chased)) + 1 <= heap[chased].c
<1>1. stage = "free" /\ chased # 0 /\ chased # Before /\ low \in Nat /\ Len(list) \in Nat
  BY Numbers DEF Free
<1>2. chased \in InUse /\ lev[chased] <= low /\ low < Len(list)
  BY <1>1 DEF HeapInv, FreeInv
<1>3. low + 1 \in 1..Len(list)
  BY <1>1, <1>2
<1>4. lev[list[low + 1]] = low + 1
  BY <1>3 DEF HeapInv, ListInv
<1>5. chased \in Nat
  BY <1>2, NodesAreTyped DEF NodeTypes
<1>6. lev[chased] \in Nat
  BY <1>5
<1>7. lev[chased] # low + 1
  BY <1>1, <1>2, <1>5, <1>6
<1>8. chased # list[low + 1]
  BY <1>4, <1>7
<1>9. chased \in Settled
  BY <1>1, <1>2, <1>8 DEF Settled, Changing
<1>10. Cardinality(Holders(chased)) + 1 <= heap[chased].c
  BY <1>1, <1>2 DEF HeapInv, CountInv, Owed
<1> QED
  BY <1>1, <1>2, <1>5, <1>8, <1>9, <1>10

(* Nobody but the list itself has the last pointer to one of its nodes. *)
LEMMA ListedIsHeld ==
    ASSUME NEW lev \in [Nat -> Nat], NEW yy \in [Nat -> Nat],
           LCSTypes, HeapInv(lev, yy), Free, NEW j \in 1..Len(list), chased = list[j]
    PROVE  Holders(chased) # {}
<1>1. stage = "free" /\ chased # 0 /\ chased # Before /\ low \in Nat /\ Len(list) \in Nat
  BY Numbers DEF Free
<1>2. j < low /\ heap[list[j + 1]].p = chased /\ low < Len(list)
  BY <1>1 DEF HeapInv, FreeInv
<1>3. j + 1 \in 1..Len(list) /\ low + 1 \in 1..Len(list) /\ j + 1 # low + 1
  <2>1. j \in Nat
    BY <1>1
  <2>2. j < low /\ low < Len(list)
    BY <1>2
  <2>3. j < Len(list) /\ j + 1 # low + 1
    BY <1>1, <2>1, <2>2
  <2> QED
    BY <1>1, <2>1, <2>2, <2>3, NextIn, Zenon
<1>4. list[j + 1] \in InUse /\ lev[list[j + 1]] = j + 1 /\ lev[list[low + 1]] = low + 1
  BY <1>3 DEF HeapInv, ListInv
<1>5. list[j + 1] \in Settled
  BY <1>1, <1>3, <1>4 DEF Settled, Changing
<1> QED
  BY <1>2, <1>5 DEF Holders

(* A pointer less. *)
LessOne ==
    /\ heap' \in Seq(Node) /\ Len(heap') = Len(heap)
    /\ \A q \in InUse : heap'[q].x = heap[q].x /\ heap'[q].p = heap[q].p
    /\ \A q \in InUse : q # chased => heap'[q].c = heap[q].c
    /\ heap'[chased].c = heap[chased].c - 1

(* Free takes one pointer and nothing else. *)
LEMMA FreeTakesOne ==
    ASSUME NEW lev \in [Nat -> Nat], NEW yy \in [Nat -> Nat],
           LCSTypes, HeapInv(lev, yy), Free
    PROVE  LessOne
<1>1. PICK r : r = heap[chased]
  OBVIOUS
<1>2. chased \in 1..Len(heap) /\ \A q \in InUse : q \in 1..Len(heap)
  BY ChasedIs DEF InUse
<1>3. heap \in Seq(Node)
  BY DEF LCSTypes
<1>4. r \in Node
  BY <1>1, <1>2, <1>3, SeqAt, Zenon
<1>5. r.x \in Nat /\ r.p \in Nat /\ r.c \in Nat
  BY <1>4 DEF Node
<1>6. Cardinality(Holders(chased)) + 1 <= r.c
  BY <1>1, ChasedIs
<1>7. r.c # 0
  BY <1>5, <1>6, HoldersAreFinite
<1>8. PICK e : e = [r EXCEPT !.c = @ - 1]
  OBVIOUS
<1>9. e = [x |-> r.x, p |-> r.p, c |-> r.c - 1]
  BY <1>4, <1>8 DEF Node
<1>10. e \in Node /\ e.x = r.x /\ e.p = r.p /\ e.c = r.c - 1
  BY <1>5, <1>7, <1>9 DEF Node
<1>11. heap' = [heap EXCEPT ![chased] = e]
  BY <1>1, <1>8 DEF Free
<1>12. Updates(heap', heap, chased, e, Node)
  BY <1>2, <1>3, <1>10, <1>11, SeqUpdates, Zenon
<1> QED
  BY <1>1, <1>2, <1>10, <1>12 DEF Updates, LessOne

(* The last of its pointers is gone: it is recycled. *)
LEMMA RecycleKeeps ==
    ASSUME NEW lev \in [Nat -> Nat], NEW yy \in [Nat -> Nat],
           LCSTypes, HeapInv(lev, yy), Free, LessOne, heap'[chased].c = 0
    PROVE  HeapInv(lev, yy)' /\ recycle' \in Seq(Nat) /\ chased' \in Nat
<1>1. /\ stage = "free" /\ stage' = "free" /\ low' = low /\ list' = list /\ adding' = adding
      /\ queue' = queue /\ turn' = turn /\ xs' = xs /\ ys' = ys
      /\ recycle' = Append(recycle, chased) /\ chased' = heap[chased].p
  BY DEF Free, lcsArguments, lcsLoops
<1>2. /\ chased \in Settled /\ chased \in InUse /\ chased \in Nat /\ chased # 0
      /\ chased # list[low + 1] /\ lev[chased] <= low
  BY ChasedIs
<1>3. heap[chased].c = 1
  <2>1. heap[chased].c \in Nat
    BY <1>2, NodesAreTyped DEF NodeTypes
  <2>2. heap[chased].c - 1 = 0
    BY DEF LessOne
  <2> QED
    BY <2>1, <2>2
<1>4. Holders(chased) = {}
  <2>1. Cardinality(Holders(chased)) + 1 <= 1
    BY <1>3, ChasedIs
  <2>2. Cardinality(Holders(chased)) = 0
    BY <2>1, HoldersAreFinite
  <2> QED
    BY <2>2, HoldersAreFinite, FS_EmptySet
<1>5. recycle \in Seq(Nat) /\ chased \in 1..Len(heap) /\ low \in Nat /\ Len(list) \in Nat
  BY <1>2, Numbers DEF LCSTypes, InUse
<1>6. PICK l : l = Len(recycle)
  OBVIOUS
<1>7. l \in Nat
  BY <1>6, Numbers
<1>8. /\ recycle' \in Seq(Nat) /\ Len(recycle') = l + 1 /\ recycle'[l + 1] = chased
      /\ \A i \in 1..l : recycle'[i] = recycle[i]
  BY <1>1, <1>2, <1>5, <1>6
<1>9. /\ \A i \in 1..(l + 1) : i = l + 1 \/ i \in 1..l
      /\ \A i \in 1..l : i \in 1..(l + 1)
      /\ l + 1 \in 1..(l + 1)
  BY <1>7
<1>10. Spare' = Spare \cup {chased}
  BY <1>6, <1>8, <1>9 DEF Spare
<1>11. InUse' = InUse \ {chased} /\ Settled' = Settled \ {chased} /\ Changing' = Changing /\ Settled \subseteq InUse
  BY <1>1, <1>10 DEF InUse, Settled, Changing, LessOne
<1>12. \A q \in InUse : heap'[q].x = heap[q].x /\ heap'[q].p = heap[q].p
  BY DEF LessOne
<1>13. NodesInv(lev, yy)'
  BY <1>1, <1>11, <1>12 DEF HeapInv, NodesInv, Pending
<1>14. LinksInv(lev, yy)'
  <2> SUFFICES ASSUME NEW q \in Settled'
               PROVE  \/ heap'[q].p = 0 /\ lev[q] = 1
                      \/ /\ heap'[q].p \in InUse'
                         /\ lev[q] = lev[heap'[q].p] + 1
                         /\ heap'[heap'[q].p].x < heap'[q].x
                         /\ yy[heap'[q].p] < yy[q]
    BY DEF LinksInv
  <2>1. q \in Settled /\ q \in InUse /\ heap[q].p # chased
    BY <1>4, <1>11 DEF Holders
  <2>2. PICK t : t = heap[q].p
    OBVIOUS
  <2>3. heap'[q].p = t /\ heap'[q].x = heap[q].x
    BY <1>12, <2>1, <2>2
  <2>4. CASE heap[q].p = 0 /\ lev[q] = 1
    BY <2>2, <2>3, <2>4
  <2>5. CASE /\ heap[q].p \in InUse /\ lev[q] = lev[heap[q].p] + 1
             /\ heap[heap[q].p].x < heap[q].x /\ yy[heap[q].p] < yy[q]
    <3>1. t \in InUse /\ t # chased /\ lev[q] = lev[t] + 1 /\ heap[t].x < heap[q].x /\ yy[t] < yy[q]
      BY <2>1, <2>2, <2>5
    <3>2. heap'[t].x = heap[t].x /\ t \in InUse'
      BY <1>11, <1>12, <3>1
    <3> QED
      BY <2>3, <3>1, <3>2
  <2>6. \/ heap[q].p = 0 /\ lev[q] = 1
        \/ /\ heap[q].p \in InUse /\ lev[q] = lev[heap[q].p] + 1
           /\ heap[heap[q].p].x < heap[q].x /\ yy[heap[q].p] < yy[q]
    BY <2>1 DEF HeapInv, LinksInv
  <2> QED
    BY <2>4, <2>5, <2>6
<1>15. ListInv(lev)'
  <2>1. \A j \in 1..Len(list) : list[j] # chased
    BY <1>4, ListedIsHeld
  <2>2. \A k \in 1..Len(list) : list[k] \in InUse /\ lev[list[k]] = k
    BY DEF HeapInv, ListInv
  <2>3. \A i, j \in 1..Len(list) : i < j => heap'[list[i]].x < heap'[list[j]].x
    BY <1>12, <2>2 DEF HeapInv, ListInv
  <2> QED
    BY <1>1, <1>11, <2>1, <2>2, <2>3 DEF ListInv
<1>16. RecycleInv'
  <2>1. \A i \in 1..Len(recycle) : recycle[i] \in Spare
    BY DEF Spare
  <2>2. chased \notin Spare
    BY <1>2 DEF InUse
  <2>3. \A i \in 1..(l + 1) : recycle'[i] \in 1..Len(heap')
    BY <1>5, <1>6, <1>8, <1>9 DEF HeapInv, RecycleInv, LessOne
  <2>4. ASSUME NEW i \in 1..(l + 1), NEW j \in 1..(l + 1), recycle'[i] = recycle'[j]
        PROVE  i = j
    <3>1. CASE i = l + 1
      BY <1>6, <1>8, <1>9, <2>1, <2>2, <2>4, <3>1
    <3>2. CASE j = l + 1
      BY <1>6, <1>8, <1>9, <2>1, <2>2, <2>4, <3>2
    <3>3. CASE i # l + 1 /\ j # l + 1
      BY <1>6, <1>8, <1>9, <2>4, <3>3 DEF HeapInv, RecycleInv
    <3> QED
      BY <3>1, <3>2, <3>3
  <2> QED
    BY <1>8, <2>3, <2>4 DEF RecycleInv
<1>17. CountInv'
  <2> SUFFICES ASSUME NEW q \in InUse'
               PROVE  Cardinality(Holders(q)') + Owed(q)' <= heap'[q].c
    BY DEF CountInv
  <2>1. q \in InUse /\ q # chased /\ heap'[q].c = heap[q].c
    BY <1>11 DEF LessOne
  <2>2. Owed(q) = 0
    BY <2>1 DEF Owed
  <2>3. Cardinality(Holders(q)) + 0 <= heap[q].c
    BY <2>1, <2>2 DEF HeapInv, CountInv
  <2>4. Holders(q)' = Holders(q) \ {chased}
    BY <1>11, <1>12 DEF Holders
  <2>5. /\ Cardinality(Holders(q)) \in Nat
        /\ Cardinality(Holders(q) \ {chased}) =
             IF chased \in Holders(q) THEN Cardinality(Holders(q)) - 1 ELSE Cardinality(Holders(q))
    BY HoldersAreFinite, FS_RemoveElement
  <2>6. Owed(q)' = IF chased \in Holders(q) THEN 1 ELSE 0
    BY <1>1, <1>2 DEF Owed, Holders
  <2>7. PICK a, b : a = Cardinality(Holders(q)) /\ b = heap[q].c
    OBVIOUS
  <2>8. a \in Nat /\ b \in Nat /\ a <= b
    BY <2>1, <2>3, <2>5, <2>7, NodesAreTyped DEF NodeTypes
  <2>9. CASE chased \in Holders(q)
    <3>1. Cardinality(Holders(q)') = a - 1 /\ Owed(q)' = 1 /\ heap'[q].c = b
      BY <2>1, <2>4, <2>5, <2>6, <2>7, <2>9
    <3> QED
      BY <2>8, <3>1
  <2>10. CASE chased \notin Holders(q)
    <3>1. Cardinality(Holders(q)') = a /\ Owed(q)' = 0 /\ heap'[q].c = b
      BY <2>1, <2>4, <2>5, <2>6, <2>7, <2>10
    <3> QED
      BY <2>8, <3>1
  <2> QED
    BY <2>9, <2>10
<1>18. SharedInv'
  <2> SUFFICES ASSUME NEW q \in Settled, NEW j \in 1..Len(list), heap'[q].p = list[j]
               PROVE  j < Len(list) /\ heap'[list[j + 1]].p = list[j]
    BY <1>1, <1>11 DEF SharedInv
  <2>1. heap[q].p = list[j]
    BY <1>11, <1>12
  <2>2. j < Len(list) /\ heap[list[j + 1]].p = list[j]
    BY <2>1 DEF HeapInv, SharedInv
  <2>3. j + 1 \in 1..Len(list)
    BY <1>5, <2>2, NextIsIn, Zenon
  <2>4. list[j + 1] \in InUse
    BY <2>3 DEF HeapInv, ListInv
  <2> QED
    BY <1>12, <2>2, <2>4
<1>19. chased' \in Nat
  BY <1>1, <1>2, NodesAreTyped DEF NodeTypes
<1>20. FreeInv(lev)'
  <2>1. /\ low < Len(list) /\ heap[list[low + 1]].c = 0
        /\ low # 0 => heap[list[low]].x < adding
        /\ adding < heap[list[low + 1]].x
    BY <1>1 DEF HeapInv, FreeInv
  <2>2. low + 1 \in 1..Len(list) /\ (low # 0 => low \in 1..Len(list))
    BY <1>5, <2>1, NextIn, Zenon
  <2>3. list[low + 1] \in InUse /\ (low # 0 => list[low] \in InUse)
    BY <2>2 DEF HeapInv, ListInv
  <2>4. /\ heap'[list[low + 1]].c = 0
        /\ low # 0 => heap'[list[low]].x < adding
        /\ adding < heap'[list[low + 1]].x
    BY <1>2, <2>1, <2>3 DEF LessOne
  <2>5. ASSUME chased' # 0
        PROVE  /\ chased' \in InUse' /\ lev[chased'] <= low
               /\ \A j \in 1..Len(list) : chased' = list[j] =>
                    chased' = Before \/ (j < low /\ heap'[list[j + 1]].p = chased')
    <3>1. PICK t : t = heap[chased].p
      OBVIOUS
    <3>2. t = chased' /\ t # 0
      BY <1>1, <2>5, <3>1
    <3>3. t \in InUse /\ lev[chased] = lev[t] + 1
      BY <1>2, <3>1, <3>2 DEF HeapInv, LinksInv
    <3>4. t # chased /\ t \in Nat
      BY <1>2, <1>4, <3>1, <3>3, NodesAreTyped DEF Holders, NodeTypes
    <3>5. lev[t] \in Nat /\ lev[chased] \in Nat
      BY <1>2, <3>4
    <3>6. lev[t] < low
      BY <1>2, <1>5, <3>3, <3>4, <3>5
    <3>7. ASSUME NEW j \in 1..Len(list), t = list[j]
          PROVE  j < low /\ heap'[list[j + 1]].p = t
      <4>1. j < Len(list) /\ heap[list[j + 1]].p = list[j]
        BY <1>2, <3>1, <3>7 DEF HeapInv, SharedInv
      <4>2. lev[t] = j
        BY <3>7 DEF HeapInv, ListInv
      <4>3. j + 1 \in 1..Len(list)
        BY <1>5, <4>1, NextIsIn, Zenon
      <4>4. list[j + 1] \in InUse
        BY <4>3 DEF HeapInv, ListInv
      <4> QED
        BY <1>12, <3>6, <3>7, <4>1, <4>2, <4>4
    <3>8. t \in InUse' /\ lev[t] <= low
      BY <1>5, <1>11, <3>3, <3>4, <3>5, <3>6
    <3> QED
      BY <3>2, <3>7, <3>8
  <2>6. Before' = Before
    BY <1>1 DEF Before
  <2> HIDE DEF Before
  <2>7. low' < Len(list)' /\ heap'[list'[low' + 1]].c = 0 /\ (low' # 0 => heap'[list'[low']].x < adding')
        /\ adding' < heap'[list'[low' + 1]].x
    BY <1>1, <2>1, <2>4
  <2>8. chased' # 0 => /\ chased' \in InUse' /\ lev[chased'] <= low'
           /\ \A j \in 1..Len(list') : chased' = list'[j] =>
                    chased' = Before' \/ (j < low' /\ heap'[list'[j + 1]].p = chased')
    BY <1>1, <2>5, <2>6
  <2> QED
    BY <2>7, <2>8 DEF FreeInv
<1> QED
  BY <1>8, <1>13, <1>14, <1>15, <1>16, <1>17, <1>18, <1>19, <1>20 DEF HeapInv

(* It has others: the loop breaks. *)
LEMMA BreakOffKeeps ==
    ASSUME NEW lev \in [Nat -> Nat], NEW yy \in [Nat -> Nat],
           LCSTypes, HeapInv(lev, yy), Free, LessOne, heap'[chased].c # 0
    PROVE  HeapInv(lev, yy)' /\ recycle' = recycle /\ chased' = 0
<1>1. /\ stage = "free" /\ stage' = "free" /\ low' = low /\ list' = list /\ adding' = adding
      /\ queue' = queue /\ turn' = turn /\ xs' = xs /\ ys' = ys
      /\ recycle' = recycle /\ chased' = 0
  BY DEF Free, lcsArguments, lcsLoops
<1>2. /\ chased \in Settled /\ chased \in InUse /\ chased \in Nat /\ chased # 0
      /\ chased # list[low + 1]
  BY ChasedIs
<1>3. low \in Nat /\ Len(list) \in Nat
  BY DEF LCSTypes
<1>4. Spare' = Spare
  BY <1>1 DEF Spare
<1>5. InUse' = InUse /\ Settled' = Settled /\ Changing' = Changing /\ Settled \subseteq InUse
  BY <1>1, <1>4 DEF InUse, Settled, Changing, LessOne
<1>6. \A q \in InUse : heap'[q].x = heap[q].x /\ heap'[q].p = heap[q].p
  BY DEF LessOne
<1>7. \A i \in 1..Len(list) : list[i] \in InUse
  BY DEF HeapInv, ListInv
<1>8. NodesInv(lev, yy)'
  BY <1>1, <1>5, <1>6 DEF HeapInv, NodesInv, Pending
<1>9. LinksInv(lev, yy)'
  <2> SUFFICES ASSUME NEW q \in Settled
               PROVE  \/ heap'[q].p = 0 /\ lev[q] = 1
                      \/ /\ heap'[q].p \in InUse
                         /\ lev[q] = lev[heap'[q].p] + 1
                         /\ heap'[heap'[q].p].x < heap'[q].x
                         /\ yy[heap'[q].p] < yy[q]
    BY <1>5 DEF LinksInv
  <2>1. heap'[q].p = heap[q].p /\ heap'[q].x = heap[q].x
    BY <1>5, <1>6
  <2> QED
    BY <1>6, <2>1 DEF HeapInv, LinksInv
<1>10. ListInv(lev)'
  BY <1>1, <1>5, <1>6, <1>7 DEF HeapInv, ListInv
<1>11. RecycleInv'
  BY <1>1 DEF HeapInv, RecycleInv, LessOne
<1>12. CountInv'
  <2> SUFFICES ASSUME NEW q \in InUse
               PROVE  Cardinality(Holders(q)') + Owed(q)' <= heap'[q].c
    BY <1>5 DEF CountInv
  <2>1. Holders(q)' = Holders(q)
    BY <1>5, <1>6 DEF Holders
  <2>2. q # 0 /\ heap[q].c \in Nat
    BY NodesAreTyped DEF NodeTypes
  <2>3. Owed(q)' = 0
    BY <1>1, <2>2 DEF Owed
  <2>4. Cardinality(Holders(q)) \in Nat
    BY HoldersAreFinite
  <2>5. CASE q = chased
    <3>1. Cardinality(Holders(q)) + 1 <= heap[q].c
      BY <2>5, ChasedIs
    <3>2. heap'[q].c = heap[q].c - 1
      BY <2>5 DEF LessOne
    <3> QED
      BY <2>1, <2>2, <2>3, <2>4, <3>1, <3>2
  <2>6. CASE q # chased
    <3>1. Owed(q) = 0 /\ heap'[q].c = heap[q].c
      BY <2>6 DEF Owed, LessOne
    <3>2. Cardinality(Holders(q)) + Owed(q) <= heap[q].c
      BY DEF HeapInv, CountInv
    <3> QED
      BY <2>1, <2>3, <3>1, <3>2
  <2> QED
    BY <2>5, <2>6
<1>13. SharedInv'
  <2> SUFFICES ASSUME NEW q \in Settled, NEW j \in 1..Len(list), heap'[q].p = list[j]
               PROVE  j < Len(list) /\ heap'[list[j + 1]].p = list[j]
    BY <1>1, <1>5 DEF SharedInv
  <2>1. heap[q].p = list[j]
    BY <1>5, <1>6
  <2>2. j < Len(list) /\ heap[list[j + 1]].p = list[j]
    BY <2>1 DEF HeapInv, SharedInv
  <2>3. j + 1 \in 1..Len(list)
    BY <1>3, <2>2, NextIsIn, Zenon
  <2>4. list[j + 1] \in InUse
    BY <1>7, <2>3
  <2> QED
    BY <1>6, <2>2, <2>4
<1>14. FreeInv(lev)'
  <2>1. /\ low < Len(list) /\ heap[list[low + 1]].c = 0
        /\ low # 0 => heap[list[low]].x < adding
        /\ adding < heap[list[low + 1]].x
    BY <1>1 DEF HeapInv, FreeInv
  <2>2. low + 1 \in 1..Len(list) /\ (low # 0 => low \in 1..Len(list))
    BY <1>3, <2>1, NextIn, Zenon
  <2>3. list[low + 1] \in InUse /\ (low # 0 => list[low] \in InUse)
    BY <1>7, <2>2
  <2>4. /\ heap'[list[low + 1]].c = 0
        /\ low # 0 => heap'[list[low]].x < adding
        /\ adding < heap'[list[low + 1]].x
    BY <1>2, <2>1, <2>3 DEF LessOne
  <2>5. low' < Len(list)' /\ heap'[list'[low' + 1]].c = 0 /\ (low' # 0 => heap'[list'[low']].x < adding')
        /\ adding' < heap'[list'[low' + 1]].x
    BY <1>1, <2>1, <2>4
  <2> QED
    BY <1>1, <2>5 DEF FreeInv
<1> QED
  BY <1>1, <1>8, <1>9, <1>10, <1>11, <1>12, <1>13, <1>14 DEF HeapInv

(* replace begins to change a node in place. *)
LEMMA InPlaceKeeps ==
    ASSUME NEW lev \in [Nat -> Nat], NEW yy \in [Nat -> Nat],
           LCSTypes, HeapInv(lev, yy), stage = "find", InPlace(low' + 1), low' \in Nat,
           low' < Len(list), heap[list[low' + 1]].c = 0,
           low' # 0 => heap[list[low']].x < adding, adding < heap[list[low' + 1]].x,
           UNCHANGED <<xs, ys, turn, queue, adding>>
    PROVE  HeapInv(lev, yy)' /\ chased' \in Nat
<1>1. PICK k, n : k = low' + 1 /\ n = list[k]
  OBVIOUS
<1>2. /\ stage' = "free" /\ chased' = heap[n].p
      /\ list' = list /\ recycle' = recycle /\ heap' = heap
  BY <1>1 DEF InPlace, lcsNodes
<1>3. Len(list) \in Nat /\ k \in 1..Len(list) /\ k \in Nat /\ low' = k - 1
  <2>1. Len(list) \in Nat
    BY Numbers
  <2>2. k \in 1..Len(list)
    BY <1>1, <2>1, NextIn, Zenon
  <2>3. k \in Nat /\ low' = k - 1
    <3>1. PICK l : l = low'
      OBVIOUS
    <3>2. l \in Nat /\ k = l + 1
      BY <1>1, <3>1
    <3>3. k \in Nat /\ l = k - 1
      BY <3>2
    <3> QED
      BY <3>1, <3>3
  <2> QED
    BY <2>1, <2>2, <2>3
<1>4. n \in InUse /\ lev[n] = k
  BY <1>1, <1>3 DEF HeapInv, ListInv
<1>5. /\ Settled = InUse /\ Changing' = {n} /\ InUse' = InUse /\ Settled' = InUse \ {n}
  BY <1>1, <1>2 DEF Settled, Changing, InUse, Spare
<1>6. Pending' = Pending
  BY <1>2 DEF Pending
<1>7. NodesInv(lev, yy)' /\ RecycleInv' /\ ListInv(lev)'
  BY <1>2, <1>5, <1>6 DEF HeapInv, NodesInv, RecycleInv, ListInv
<1>8. LinksInv(lev, yy)' /\ SharedInv'
  BY <1>2, <1>5 DEF HeapInv, LinksInv, SharedInv
<1>9. CountInv'
  <2> SUFFICES ASSUME NEW q \in InUse
               PROVE  Cardinality(Holders(q)') + Owed(q)' <= heap[q].c
    BY <1>2, <1>5 DEF CountInv
  <2>1. Holders(q)' = Holders(q) \ {n}
    BY <1>2, <1>5 DEF Holders
  <2>2. Owed(q) = 0 /\ Owed(q)' = IF n \in Holders(q) THEN 1 ELSE 0
    BY <1>2, <1>4, <1>5 DEF Owed, Holders
  <2>3. /\ Cardinality(Holders(q)) \in Nat
        /\ Cardinality(Holders(q) \ {n}) =
             IF n \in Holders(q) THEN Cardinality(Holders(q)) - 1 ELSE Cardinality(Holders(q))
    BY HoldersAreFinite, FS_RemoveElement
  <2>4. Cardinality(Holders(q)) + Owed(q) <= heap[q].c /\ heap[q].c \in Nat
    BY NodesAreTyped DEF HeapInv, CountInv, NodeTypes
  <2>5. PICK a, b : a = Cardinality(Holders(q)) /\ b = heap[q].c
    OBVIOUS
  <2>6. a \in Nat /\ b \in Nat /\ a <= b
    <3>1. a + 0 <= b /\ a \in Nat /\ b \in Nat
      BY <2>2, <2>3, <2>4, <2>5
    <3> QED
      BY <3>1
  <2>7. CASE n \in Holders(q)
    <3>1. Cardinality(Holders(q)') = a - 1 /\ Owed(q)' = 1
      BY <2>1, <2>2, <2>3, <2>5, <2>7
    <3>2. (a - 1) + 1 <= b
      BY <2>6
    <3> QED
      BY <2>5, <3>1, <3>2
  <2>8. CASE n \notin Holders(q)
    <3>1. Cardinality(Holders(q)') = a /\ Owed(q)' = 0
      BY <2>1, <2>2, <2>3, <2>5, <2>8
    <3>2. a + 0 <= b
      BY <2>6
    <3> QED
      BY <2>5, <3>1, <3>2
  <2> QED
    BY <2>7, <2>8
<1>10. chased' \in Nat
  BY <1>2, <1>4, NodesAreTyped DEF NodeTypes
<1>11. FreeInv(lev)'
  <2>1. ASSUME chased' # 0
        PROVE  /\ chased' \in InUse /\ lev[chased'] <= low'
               /\ \A j \in 1..Len(list) : chased' = list[j] => chased' = Before'
    <3>1. PICK t : t = heap[n].p
      OBVIOUS
    <3>2. t = chased' /\ t # 0
      BY <1>2, <2>1, <3>1
    <3>3. t \in InUse /\ lev[n] = lev[t] + 1
      BY <1>4, <1>5, <3>1, <3>2 DEF HeapInv, LinksInv
    <3>4. t \in Nat /\ lev[t] \in Nat
      BY <3>3, NodesAreTyped DEF NodeTypes
    <3>5. lev[t] = low'
      BY <1>3, <1>4, <3>3, <3>4
    <3>6. ASSUME NEW j \in 1..Len(list), t = list[j]
          PROVE  t = Before'
      <4>1. j = low'
        BY <3>5, <3>6 DEF HeapInv, ListInv
      <4>2. low' # 0
        BY <1>3, <3>6, <4>1
      <4> QED
        BY <1>2, <3>6, <4>1, <4>2 DEF Before
    <3>7. lev[t] <= low'
      BY <3>4, <3>5
    <3> QED
      BY <3>2, <3>3, <3>6, <3>7
  <2>2. low' < Len(list)' /\ heap'[list'[low' + 1]].c = 0 /\ (low' # 0 => heap'[list'[low']].x < adding')
        /\ adding' < heap'[list'[low' + 1]].x
    BY <1>2
  <2>3. chased' # 0 => /\ chased' \in InUse' /\ lev[chased'] <= low'
           /\ \A j \in 1..Len(list') : chased' = list'[j] => chased' = Before'
    BY <1>2, <1>5, <2>1
  <2> QED
    BY <2>2, <2>3 DEF FreeInv
<1> QED
  BY <1>7, <1>8, <1>9, <1>10, <1>11 DEF HeapInv

-----------------------------------------------------------------------------
(* LCS: nothing longer is missed *)

(* What find has found when the bisection ends. *)
Found ==
    /\ low <= from /\ from <= Len(list)
    /\ \A i \in 1..Len(list) :
         /\ i <= low => heap[list[i]].x < adding
         /\ low < i /\ i <= from => adding <= heap[list[i]].x

(* The nodes of the list have positions. *)
LEMMA ListedPositions ==
    ASSUME NEW lev, LCSTypes, ListInv(lev)
    PROVE  \A i \in 1..Len(list) : heap[list[i]].x \in Nat /\ list[i] \in Nat /\ list[i] # 0
<1>1. \A i \in 1..Len(list) : list[i] \in InUse
  BY DEF ListInv
<1> QED
  BY <1>1, NodesAreTyped DEF NodeTypes

(* The end of the bisection, from its invariant. *)
LEMMA FoundIs ==
    ASSUME NEW lev, LCSTypes, ListInv(lev), FindInv, stage = "find", low >= high
    PROVE  Found
<1>1. /\ low \in Nat /\ high \in Nat /\ from \in Nat /\ Len(list) \in Nat /\ adding \in Nat
  BY Numbers
<1>2. from <= Len(list)
  <2>1. from \in 0..Len(list)
    BY DEF LCSTypes
  <2> QED
    BY <1>1, <2>1
<1>3. /\ low <= high /\ high <= from
      /\ low # 0 => heap[list[low]].x < adding
      /\ high < from => adding <= heap[list[high + 1]].x
  BY DEF FindInv
<1>4. low = high /\ low <= from
  BY <1>1, <1>3
<1>5. \A i \in 1..Len(list) : heap[list[i]].x \in Nat
  BY ListedPositions
<1>6. ASSUME NEW i \in 1..Len(list), i <= low
      PROVE  heap[list[i]].x < adding
  <2>1. low # 0 /\ low \in 1..Len(list) /\ (i = low \/ i < low)
    BY <1>1, <1>2, <1>4, <1>6
  <2>2. heap[list[low]].x < adding
    BY <1>3, <2>1
  <2>3. i < low => heap[list[i]].x < heap[list[low]].x
    BY <2>1 DEF ListInv
  <2> QED
    BY <1>1, <1>5, <2>1, <2>2, <2>3
<1>7. ASSUME NEW i \in 1..Len(list), low < i, i <= from
      PROVE  adding <= heap[list[i]].x
  <2>1. low + 1 \in 1..Len(list) /\ low < from /\ (i = low + 1 \/ low + 1 < i)
    BY <1>1, <1>2, <1>7
  <2>2. adding <= heap[list[low + 1]].x
    BY <1>3, <1>4, <2>1
  <2>3. low + 1 < i => heap[list[low + 1]].x < heap[list[i]].x
    BY <2>1 DEF ListInv
  <2> QED
    BY <1>1, <1>5, <2>1, <2>2, <2>3
<1> QED
  BY <1>2, <1>4, <1>6, <1>7 DEF Found

(* The node that low leaves to go on with. *)
Chained == IF low' = 0 THEN 0 ELSE list[low']

(* add gives the position to the k-th node, or a new one. *)
Chosen(k) ==
    /\ k = low' + 1 /\ low' \in Nat /\ k \in 1..(Len(list) + 1)
    /\ HasPlace(k, Chained)
    /\ \/ Place(k, Chained)
       \/ k <= Len(list) /\ heap[list[k]].c = 0 /\ InPlace(k)

(* Extend chooses the place after low, or leaves a position that comes too *)
(* late.                                                                   *)
LEMMA ExtendChooses ==
    ASSUME NEW lev, LCSTypes, ListInv(lev), Found, Extend
    PROVE  /\ low' = low /\ from' = low /\ low # 0 /\ Len(list) - low < Rest
           /\ \/ Chosen(low + 1)
              \/ Leave /\ low < Len(list) /\ heap[list[low + 1]].x <= adding
<1>1. /\ low \in Nat /\ from \in Nat /\ Len(list) \in Nat /\ adding \in Nat
  BY Numbers
<1>2. /\ low' = low /\ from' = low /\ low > 0 /\ Len(list) - low < Rest
      /\ \/ low = Len(list) /\ Place(low + 1, list[low])
         \/ low < Len(list) /\ adding < heap[list[low + 1]].x /\ Replace(low + 1, list[low])
         \/ low < Len(list) /\ adding >= heap[list[low + 1]].x /\ Leave
  BY DEF Extend, Extends
<1>3. low # 0 /\ low <= Len(list) /\ low \in 1..Len(list)
  BY <1>1, <1>2 DEF Found
<1>4. PICK k : k = low + 1
  OBVIOUS
<1>5. k \in Nat /\ k # 1 /\ k - 1 = low /\ k \in 1..(Len(list) + 1) /\ \A i \in 1..Len(list) : i < k <=> i <= low
  BY <1>1, <1>2, <1>3, <1>4
<1>6. \A i \in 1..Len(list) : heap[list[i]].x \in Nat
  BY ListedPositions
<1>7. Chained = list[low] /\ low' \in Nat /\ k = low' + 1
  BY <1>1, <1>2, <1>3, <1>4 DEF Chained
<1>8. ASSUME \A i \in 1..Len(list) : k <= i => adding < heap[list[i]].x
      PROVE  HasPlace(k, Chained)
  BY <1>3, <1>5, <1>7, <1>8 DEF HasPlace, Found
<1>9. CASE low = Len(list) /\ Place(low + 1, list[low])
  <2>1. \A i \in 1..Len(list) : ~(k <= i)
    BY <1>1, <1>4, <1>9
  <2>2. HasPlace(k, Chained) /\ Place(k, Chained)
    BY <1>4, <1>7, <1>8, <1>9, <2>1
  <2> QED
    BY <1>2, <1>3, <1>4, <1>5, <1>7, <2>2 DEF Chosen
<1>10. CASE low < Len(list) /\ adding < heap[list[low + 1]].x /\ Replace(low + 1, list[low])
  <2>1. k \in 1..Len(list) /\ k <= Len(list) /\ adding < heap[list[k]].x /\ Replace(k, Chained)
    BY <1>1, <1>4, <1>7, <1>10
  <2>2. ASSUME NEW i \in 1..Len(list), k <= i
        PROVE  adding < heap[list[i]].x
    <3>1. k = i \/ k < i
      BY <1>5, <2>2
    <3>2. k < i => heap[list[k]].x < heap[list[i]].x
      BY <2>1 DEF ListInv
    <3> QED
      BY <1>1, <1>6, <2>1, <3>1, <3>2
  <2>3. HasPlace(k, Chained)
    BY <1>8, <2>2
  <2>4. Place(k, Chained) \/ (heap[list[k]].c = 0 /\ InPlace(k))
    BY <2>1 DEF Replace
  <2> QED
    BY <1>2, <1>3, <1>4, <1>5, <1>7, <2>1, <2>3, <2>4 DEF Chosen
<1>11. CASE low < Len(list) /\ adding >= heap[list[low + 1]].x /\ Leave
  <2>1. low + 1 \in 1..Len(list)
    BY <1>1, <1>11
  <2>2. heap[list[low + 1]].x \in Nat
    BY <1>6, <2>1
  <2> QED
    BY <1>1, <1>2, <1>3, <1>11, <2>2
<1> QED
  BY <1>2, <1>9, <1>10, <1>11

(* Begin chooses the first place, or leaves the position. *)
LEMMA BeginChooses ==
    ASSUME NEW lev, LCSTypes, ListInv(lev), Found, Begin
    PROVE  /\ low' = 0 /\ ~Extends
           /\ \/ list = << >> /\ from' = 1 /\ Chosen(1)
              \/ /\ list # << >> /\ from' = 0
                 /\ \/ Chosen(1)
                    \/ Leave /\ (Len(list) - 1 < Rest => heap[list[1]].x <= adding)
<1>1. /\ low \in Nat /\ from \in Nat /\ Len(list) \in Nat /\ adding \in Nat
  BY Numbers
<1>2. /\ low' = 0 /\ ~Extends
      /\ \/ list = << >> /\ from' = 1 /\ Place(1, 0)
         \/ /\ list # << >> /\ from' = 0
            /\ IF Len(list) - 1 < Rest /\ adding < heap[list[1]].x THEN Replace(1, 0) ELSE Leave
  BY DEF Begin
<1>3. Chained = 0 /\ low' \in Nat /\ 1 = low' + 1 /\ 1 \in 1..(Len(list) + 1)
  BY <1>1, <1>2 DEF Chained
<1>4. \A i \in 1..Len(list) : heap[list[i]].x \in Nat
  BY ListedPositions
<1>5. ASSUME \A i \in 1..Len(list) : 1 <= i => adding < heap[list[i]].x
      PROVE  HasPlace(1, Chained)
  BY <1>1, <1>3, <1>5 DEF HasPlace
<1>6. CASE list = << >> /\ from' = 1 /\ Place(1, 0)
  <2>1. Len(list) = 0
    BY <1>6
  <2>2. HasPlace(1, Chained)
    BY <1>5, <2>1
  <2> QED
    BY <1>2, <1>3, <1>6, <2>2 DEF Chosen
<1>7. CASE list # << >> /\ from' = 0
  <2>1. Len(list) # 0 /\ 1 \in 1..Len(list) /\ 1 <= Len(list)
    <3>1. list \in Seq(Nat)
      BY DEF LCSTypes
    <3>2. Len(list) # 0
      BY <1>7, <3>1, EmptySeq
    <3> QED
      BY <1>1, <3>2
  <2>2. CASE Len(list) - 1 < Rest /\ adding < heap[list[1]].x
    <3>1. Replace(1, 0)
      BY <1>2, <1>7, <2>2
    <3>2. ASSUME NEW i \in 1..Len(list)
          PROVE  adding < heap[list[i]].x
      <4>1. 1 = i \/ 1 < i
        BY <1>1
      <4>2. 1 < i => heap[list[1]].x < heap[list[i]].x
        BY <2>1 DEF ListInv
      <4> QED
        BY <1>1, <1>4, <2>1, <2>2, <4>1, <4>2
    <3>3. HasPlace(1, Chained)
      BY <1>5, <3>2
    <3>4. Place(1, Chained) \/ (heap[list[1]].c = 0 /\ InPlace(1))
      BY <1>3, <3>1 DEF Replace
    <3>5. Chosen(1)
      BY <1>3, <2>1, <3>3, <3>4 DEF Chosen
    <3> QED
      BY <1>2, <1>7, <3>5
  <2>3. CASE ~(Len(list) - 1 < Rest /\ adding < heap[list[1]].x)
    <3>1. Leave
      BY <1>2, <1>7, <2>3
    <3>2. Len(list) - 1 < Rest => heap[list[1]].x <= adding
      <4>1. heap[list[1]].x \in Nat
        BY <1>4, <2>1
      <4> QED
        BY <1>1, <2>3, <4>1
    <3> QED
      BY <1>2, <1>7, <3>1, <3>2
  <2> QED
    BY <2>2, <2>3
<1> QED
  BY <1>2, <1>6, <1>7

(* The position is now where the k-th node is, or about to be. *)
Lowered(k) ==
    /\ Len(list) <= Len(list') /\ Len(list') \in Nat /\ k \in 1..Len(list')
    /\ Reach(k)' = adding
    /\ \A i \in 1..Len(list') : i # k => i \in 1..Len(list) /\ Reach(i)' = heap[list[i]].x

(* What the choice says of the numbers. *)
LEMMA ChosenIs ==
    ASSUME LCSTypes, NEW k, Chosen(k)
    PROVE  /\ Len(list) \in Nat /\ k \in Nat /\ k \in 1..(Len(list) + 1)
           /\ low' \in Nat /\ k = low' + 1 /\ low' = k - 1
           /\ low' < k /\ (low' # 0 => low' \in 1..Len(list) /\ Chained = list[low'])
           /\ k <= Len(list) => k \in 1..Len(list) /\ low' < Len(list)
<1>1. PICK l : l = low'
  OBVIOUS
<1>2. Len(list) \in Nat /\ l \in Nat /\ k = l + 1 /\ k \in 1..(Len(list) + 1)
  BY <1>1, Numbers DEF Chosen
<1>3. k \in Nat /\ l = k - 1 /\ l < k
  BY <1>2
<1>4. l # 0 => l \in 1..Len(list)
  BY <1>2
<1>5. k <= Len(list) => k \in 1..Len(list) /\ l < Len(list)
  BY <1>2
<1> QED
  BY <1>1, <1>2, <1>3, <1>4, <1>5 DEF Chained

(* A position that is chosen is reached at its place, and nothing else     *)
(* moves.                                                                  *)
LEMMA ChosenLowers ==
    ASSUME NEW lev \in [Nat -> Nat], NEW yy \in [Nat -> Nat],
           LCSTypes, HeapInv(lev, yy), stage = "find", NEW k, Chosen(k), UNCHANGED adding
    PROVE  Lowered(k)
<1>1. /\ Len(list) \in Nat /\ k \in 1..(Len(list) + 1) /\ k = low' + 1 /\ low' \in Nat
      /\ low' # 0 => low' \in 1..Len(list) /\ Chained = list[low']
      /\ k <= Len(list) => k \in 1..Len(list)
  BY ChosenIs
<1>2. CASE Place(k, Chained)
  <2>1. Chained # 0 => Chained \in InUse
    <3>1. Chained # 0 => low' \in 1..Len(list) /\ Chained = list[low']
      BY <1>1 DEF Chained
    <3> QED
      BY <3>1 DEF HeapInv, ListInv
  <2>2. PICK n : LinksTo(n, Chained) /\ Lists(n, k)
    BY <1>1, <1>2, <2>1, PlaceLinks
  <2>3. /\ stage' = "item" /\ heap'[n].x = adding /\ list'[k] = n
        /\ \A i \in 1..Len(list') : i # k =>
              i \in 1..Len(list) /\ list'[i] = list[i] /\ heap'[list[i]].x = heap[list[i]].x
    BY <2>2 DEF LinksTo, Lists
  <2> QED
    BY <2>2, <2>3 DEF Lowered, Lists, Reach
<1>3. CASE k <= Len(list) /\ heap[list[k]].c = 0 /\ InPlace(k)
  <2>1. stage' = "free" /\ list' = list /\ heap' = heap
    BY <1>3 DEF InPlace, lcsNodes
  <2>2. k \in 1..Len(list) /\ Len(list) <= Len(list)
    <3>1. Len(list) <= Len(list)
      BY <1>1
    <3> QED
      BY <1>1, <1>3, <3>1
  <2>3. \A i \in 1..Len(list) : i # k => Reach(i)' = heap[list[i]].x
    BY <1>1, <2>1 DEF Reach
  <2>4. Reach(k)' = adding
    BY <1>1, <2>1 DEF Reach
  <2> QED
    BY <1>1, <2>1, <2>2, <2>3, <2>4 DEF Lowered
<1> QED
  BY <1>2, <1>3 DEF Chosen

(* A position that is chosen keeps the chains. *)
LEMMA ChosenKeeps ==
    ASSUME NEW lev \in [Nat -> Nat], NEW yy \in [Nat -> Nat],
           LCSTypes, ItemsInv, FirstTaken, HeapInv(lev, yy), stage = "find", NEW k, Chosen(k),
           UNCHANGED <<xs, ys, turn, queue, adding>>
    PROVE  /\ \E lev1 \in [Nat -> Nat], yy1 \in [Nat -> Nat] : HeapInv(lev1, yy1)'
           /\ heap' \in Seq(Node) /\ recycle' \in Seq(Nat) /\ list' \in Seq(Nat)
           /\ chased' \in Nat /\ stage' \in {"item", "free"}
<1>1. /\ k \in Nat /\ k \in 1..(Len(list) + 1) /\ k = low' + 1 /\ low' \in Nat /\ low' < k
      /\ low' # 0 => low' \in 1..Len(list) /\ Chained = list[low']
      /\ k <= Len(list) => k \in 1..Len(list) /\ low' < Len(list)
  BY ChosenIs
<1>11. chased \in Nat /\ turn \in Nat
  BY Numbers
<1>2. HasPlace(k, Chained)
  BY DEF Chosen
<1>3. CASE Place(k, Chained)
  <2>1. Chained # 0 => Chained \in InUse
    <3>1. Chained # 0 => low' \in 1..Len(list) /\ Chained = list[low']
      BY <1>1 DEF Chained
    <3> QED
      BY <3>1 DEF HeapInv, ListInv
  <2>2. /\ \E n : LinksTo(n, Chained) /\ Lists(n, k)
        /\ RecycleInv' /\ heap' \in Seq(Node) /\ recycle' \in Seq(Nat) /\ list' \in Seq(Nat)
    BY <1>1, <1>3, <2>1, PlaceLinks
  <2>3. PICK n : LinksTo(n, Chained) /\ Lists(n, k)
    BY <2>2
  <2>4. HeapInv([lev EXCEPT ![n] = k], [yy EXCEPT ![n] = turn])'
    BY <1>2, <2>2, <2>3, LinkKeeps
  <2>5. [lev EXCEPT ![n] = k] \in [Nat -> Nat] /\ [yy EXCEPT ![n] = turn] \in [Nat -> Nat]
    BY <1>1, <1>11
  <2>6. stage' = "item" /\ chased' = chased
    BY <1>3 DEF Place
  <2> QED
    BY <1>11, <2>2, <2>4, <2>5, <2>6
<1>4. CASE k <= Len(list) /\ heap[list[k]].c = 0 /\ InPlace(k)
  <2>1. k \in 1..Len(list) /\ low' < Len(list) /\ low' < k
    BY <1>1, <1>4
  <2>2. /\ low' # 0 => heap[list[low']].x < adding
        /\ adding < heap[list[low' + 1]].x
    <3>1. adding < heap[list[k]].x
      <4>1. k <= k
        <5>1. k \in Nat
          BY <1>1
        <5> QED
          BY <5>1
      <4> QED
        BY <1>2, <2>1, <4>1, Zenon DEF HasPlace
    <3>2. low' # 0 => low' \in 1..Len(list)
      BY <1>1
    <3> QED
      BY <1>1, <1>2, <3>1, <3>2 DEF HasPlace
  <2>3. HeapInv(lev, yy)' /\ chased' \in Nat
    BY <1>1, <1>4, <2>1, <2>2, InPlaceKeeps
  <2>4. heap' = heap /\ recycle' = recycle /\ list' = list /\ stage' = "free"
    BY <1>4 DEF InPlace, lcsNodes
  <2> QED
    BY <2>3, <2>4 DEF LCSTypes
<1> QED
  BY <1>3, <1>4 DEF Chosen

(* What add has done for the chains: none of them ends later than before,  *)
(* and the one that the position extends, if it may still become the       *)
(* longest, ends with it at the latest.                                    *)
Settles ==
    /\ Len(list') \in Nat /\ Len(list) <= Len(list')
    /\ \A i \in 1..Len(list) : Reach(i)' \in Nat /\ Reach(i)' <= heap[list[i]].x
    /\ \A i \in Nat : i = low + 1 /\ Len(list) - low < Rest => i <= Len(list') /\ Reach(i)' <= adding

(* Nothing is later than itself. *)
LEMMA NoLater ==
    ASSUME NEW v \in Nat
    PROVE  v <= v
OBVIOUS

(* A position that is chosen settles what may end with it. *)
LEMMA LoweredSettles ==
    ASSUME NEW lev \in [Nat -> Nat], NEW k, LCSTypes, ListInv(lev), HasPlace(k, Chained), Lowered(k),
           Len(list) - low < Rest => k = low + 1
    PROVE  Settles
<1>1. /\ Len(list) \in Nat /\ low \in Nat /\ adding \in Nat
  BY Numbers
<1>2. \A i \in 1..Len(list) : heap[list[i]].x \in Nat
  BY ListedPositions
<1>3. /\ Len(list') \in Nat /\ Len(list) <= Len(list') /\ k \in 1..Len(list') /\ Reach(k)' = adding
      /\ \A i \in 1..Len(list') : i # k => Reach(i)' = heap[list[i]].x
  BY DEF Lowered
<1>4. ASSUME NEW i \in 1..Len(list)
      PROVE  Reach(i)' \in Nat /\ Reach(i)' <= heap[list[i]].x
  <2>1. i \in 1..Len(list')
    <3>1. PICK l : l = Len(list')
      OBVIOUS
    <3>2. l \in Nat /\ Len(list) <= l
      BY <1>3, <3>1
    <3>3. i \in 1..l
      BY <1>1, <3>2
    <3> QED
      BY <3>1, <3>3
  <2>2. CASE i = k
    <3>1. k <= i
      <4>1. i \in Nat
        OBVIOUS
      <4> QED
        BY <2>2, <4>1
    <3>2. adding < heap[list[i]].x
      BY <3>1 DEF HasPlace
    <3>3. adding <= heap[list[i]].x
      <4>1. PICK v : v = heap[list[i]].x
        OBVIOUS
      <4>2. v \in Nat /\ adding < v
        BY <1>2, <3>2, <4>1
      <4>3. adding <= v
        BY <1>1, <4>2
      <4> QED
        BY <4>1, <4>3
    <3> QED
      BY <1>1, <1>3, <2>2, <3>3
  <2>3. CASE i # k
    <3>1. Reach(i)' = heap[list[i]].x
      BY <1>3, <2>1, <2>3
    <3>2. heap[list[i]].x \in Nat
      BY <1>2
    <3>3. heap[list[i]].x <= heap[list[i]].x
      BY <3>2, NoLater, Zenon
    <3> QED
      BY <3>1, <3>2, <3>3
  <2> QED
    BY <2>2, <2>3
<1>5. ASSUME NEW i \in Nat, i = low + 1, Len(list) - low < Rest
      PROVE  i <= Len(list') /\ Reach(i)' <= adding
  <2>1. i = k
    BY <1>5
  <2>2. k <= Len(list')
    <3>1. PICK l : l = Len(list')
      OBVIOUS
    <3>2. l \in Nat /\ k \in 1..l
      BY <1>3, <3>1
    <3>3. k <= l
      BY <3>2
    <3> QED
      BY <3>1, <3>3
  <2>3. adding <= adding
    BY <1>1
  <2> QED
    BY <1>3, <2>1, <2>2, <2>3
<1> QED
  BY <1>3, <1>4, <1>5 DEF Settles

(* So does one that is left because it comes too late. *)
LEMMA LeaveSettles ==
    ASSUME NEW lev \in [Nat -> Nat], LCSTypes, ListInv(lev), Leave,
           Len(list) - low < Rest => low < Len(list) /\ heap[list[low + 1]].x <= adding
    PROVE  /\ Settles /\ Len(list') = Len(list)
           /\ \A i \in 1..Len(list) : Reach(i)' = heap[list[i]].x
<1>1. /\ Len(list) \in Nat /\ low \in Nat /\ adding \in Nat
  BY Numbers
<1>2. \A i \in 1..Len(list) : heap[list[i]].x \in Nat
  BY ListedPositions
<1>3. stage' = "item" /\ list' = list /\ heap' = heap
  BY DEF Leave, lcsNodes
<1>4. \A i : Reach(i)' = heap[list[i]].x
  BY <1>3 DEF Reach
<1>5. \A i \in 1..Len(list) : heap[list[i]].x <= heap[list[i]].x
  BY <1>2, NoLater, Zenon
<1>6. Len(list) <= Len(list)
  BY <1>1
<1>7. low < Len(list) => low + 1 <= Len(list)
  BY <1>1
<1>8. \A i \in Nat : i = low + 1 /\ Len(list) - low < Rest => i <= Len(list') /\ Reach(i)' <= adding
  BY <1>3, <1>4, <1>7
<1>9. \A i \in 1..Len(list) : Reach(i)' \in Nat /\ Reach(i)' <= heap[list[i]].x
  BY <1>2, <1>4, <1>5
<1>10. Len(list') = Len(list) /\ Len(list') \in Nat /\ Len(list) <= Len(list')
  BY <1>1, <1>3, <1>6
<1> QED
  BY <1>4, <1>8, <1>9, <1>10 DEF Settles

(* The positions that are left come before the one that find has found a   *)
(* place for.                                                              *)
LEMMA FromAfterChosen ==
    ASSUME NEW lev \in [Nat -> Nat], NEW k \in Nat, LCSTypes, ListInv(lev), FirstTaken, stage = "find",
           HasPlace(k, Chained), Lowered(k), stage' \in {"item", "free"}, queue' = queue,
           ItemsInv, from' \in Nat, k <= from' + 1
    PROVE  FromInv'
<1> SUFFICES ASSUME NEW r \in Unsought', NEW i \in 1..Len(list'), from' < i, Reach(i)' < r
             PROVE  FALSE
  BY DEF FromInv
<1>1. r \in queue /\ r < adding /\ r \in Nat /\ adding \in Nat /\ Len(list) \in Nat /\ Len(xs) \in Nat
  <2>1. r \in queue /\ r \in Pending /\ Len(xs) \in Nat
    BY Numbers DEF Unsought, Pending
  <2>2. r \in 1..Len(xs)
    BY <2>1 DEF ItemsInv
  <2> QED
    BY <2>1, <2>2, Numbers DEF FirstTaken
<1>2. k <= i
  <2>1. PICK l, m : l = Len(list') /\ m = from'
    OBVIOUS
  <2>2. l \in Nat /\ i \in 1..l
    BY <2>1 DEF Lowered
  <2>3. i \in Nat
    BY <2>2
  <2>4. m \in Nat /\ m < i /\ k <= m + 1
    BY <2>1, Zenon
  <2>5. k <= i
    BY <2>3, <2>4
  <2> QED
    BY <2>5
<1>3. CASE i = k
  <2>1. adding < r
    BY <1>3 DEF Lowered
  <2> QED
    BY <1>1, <2>1
<1>4. CASE i # k
  <2>1. i \in 1..Len(list) /\ Reach(i)' = heap[list[i]].x
    BY <1>4 DEF Lowered
  <2>2. PICK v : v = heap[list[i]].x
    OBVIOUS
  <2>3. adding < v /\ v < r
    BY <1>2, <2>1, <2>2 DEF HasPlace
  <2>4. v \in Nat
    BY <2>1, <2>2, ListedPositions
  <2> QED
    BY <1>1, <2>3, <2>4
<1> QED
  BY <1>3, <1>4

(* The same when the position is left. *)
LEMMA FromAfterLeave ==
    ASSUME NEW lev \in [Nat -> Nat], LCSTypes, ListInv(lev), FirstTaken, stage = "find",
           Found, FromInv, ItemsInv, Leave, UNCHANGED <<queue, turn, ys>>,
           from' \in Nat, \A i \in 1..Len(list) : from' < i /\ i <= low => Len(list) - i >= Rest
    PROVE  FromInv'
<1>0. stage' = "item" /\ list' = list /\ heap' = heap
  BY DEF Leave, lcsNodes
<1> SUFFICES ASSUME NEW r \in Unsought', NEW i \in 1..Len(list), from' < i, heap[list[i]].x < r
             PROVE  Len(list) - i >= Rest
  BY <1>0 DEF FromInv, Reach, Rest
<1>1. r \in queue /\ r \in Unsought /\ r < adding /\ r \in Nat /\ adding \in Nat
  <2>1. r \in queue /\ r \in Pending /\ r \in Unsought /\ Len(xs) \in Nat
    BY <1>0, Numbers DEF Unsought, Pending
  <2>2. r \in 1..Len(xs)
    BY <2>1 DEF ItemsInv
  <2> QED
    BY <2>1, <2>2, Numbers DEF FirstTaken
<1>2. i \in Nat /\ low \in Nat /\ from \in Nat
  BY Numbers
<1>3. CASE i <= low
  BY <1>3
<1>4. CASE ~(i <= low)
  <2>1. PICK v : v = heap[list[i]].x
    OBVIOUS
  <2>2. v \in Nat /\ v < r
    BY <2>1, ListedPositions
  <2>3. ~(adding <= v)
    BY <1>1, <2>2
  <2>4. ~(i <= from)
    <3>1. low < i
      BY <1>2, <1>4
    <3> QED
      BY <2>1, <2>3, <3>1, Zenon DEF Found
  <2>5. from < i
    BY <1>2, <2>4
  <2>6. Reach(i) < r
    BY DEF Reach
  <2> QED
    BY <1>1, <2>5, <2>6 DEF FromInv
<1> QED
  BY <1>3, <1>4

(* A choice of positions, but for the last. *)
LEMMA PicksPrefix ==
    ASSUME NEW k \in Nat \ {0}, k # 1, NEW n \in Nat, NEW f \in Picks(k, n)
    PROVE  /\ [i \in 1..(k - 1) |-> f[i]] \in Picks(k - 1, n)
           /\ k - 1 \in Nat \ {0} /\ k - 1 \in DOMAIN [i \in 1..(k - 1) |-> f[i]]
           /\ f[k - 1] \in Nat /\ f[k] \in Nat /\ f[k - 1] < f[k]
<1>1. f \in [1..k -> 1..n] /\ \A i, j \in 1..k : i < j => f[i] < f[j]
  BY DEF Picks
<1>2. k - 1 \in Nat \ {0} /\ k - 1 \in 1..k /\ k \in 1..k /\ k - 1 < k /\ 1..(k - 1) \subseteq 1..k /\ k - 1 \in 1..(k - 1)
  OBVIOUS
<1>3. [i \in 1..(k - 1) |-> f[i]] \in [1..(k - 1) -> 1..n]
  BY <1>1, <1>2
<1>4. \A i, j \in 1..(k - 1) : i < j => [h \in 1..(k - 1) |-> f[h]][i] < [h \in 1..(k - 1) |-> f[h]][j]
  BY <1>1, <1>2
<1>5. f[k - 1] \in 1..n /\ f[k] \in 1..n
  BY <1>1, <1>2
<1> QED
  BY <1>1, <1>2, <1>3, <1>4, <1>5 DEF Picks

(* The last of a choice of positions. *)
LEMMA PicksAt ==
    ASSUME NEW k \in Nat \ {0}, NEW n \in Nat, NEW f \in Picks(k, n)
    PROVE  f[k] \in 1..n /\ f[k] \in Nat /\ DOMAIN f = 1..k /\ k \in 1..k
BY DEF Picks

(* What the earlier items have stays in the list. *)
LEMMA SettlesKeepsEarlier ==
    ASSUME NEW lev \in [Nat -> Nat], LCSTypes, ListInv(lev), EarlierInv, Settles, stage = "find",
           UNCHANGED <<xs, ys, turn>>
    PROVE  EarlierInv'
<1>0. xs' = xs /\ ys' = ys /\ turn' = turn
  OBVIOUS
<1> SUFFICES ASSUME NEW k \in Nat \ {0}, NEW f \in Picks(k, Len(xs')), NEW g \in Picks(k, Len(ys')),
                    SameLetters(f, g)', g[k] < turn', Len(list') <= k + Len(ys') - turn'
             PROVE  Reached(k, f)'
  BY Zenon DEF EarlierInv
<1>13. /\ f \in Picks(k, Len(xs)) /\ g \in Picks(k, Len(ys))
       /\ SameLetters(f, g) /\ g[k] < turn /\ Len(list') <= k + Len(ys) - turn
  BY <1>0 DEF SameLetters
<1> USE <1>13
<1> SUFFICES k <= Len(list') /\ Reach(k)' <= f[k]
  BY DEF Reached
<1>1. PICK l, m : l = Len(list) /\ m = Len(list')
  OBVIOUS
<1>2. l \in Nat /\ m \in Nat /\ l <= m /\ turn \in Nat /\ Len(ys) \in Nat /\ Len(xs) \in Nat
  BY <1>1, Numbers DEF Settles
<1>3. m <= k + Len(ys) - turn
  BY <1>1
<1>4. l <= k + Len(ys) - turn
  BY <1>2, <1>3
<1>5. Reached(k, f)
  BY <1>1, <1>4 DEF EarlierInv
<1>6. k <= l /\ heap[list[k]].x <= f[k]
  BY <1>1, <1>5 DEF Reached, Reach
<1>7. k \in 1..l /\ k <= m
  <2>1. k <= l
    BY <1>6
  <2> QED
    BY <1>2, <2>1
<1>8. PICK u, v, w : u = Reach(k)' /\ v = heap[list[k]].x /\ w = f[k]
  OBVIOUS
<1>9. u \in Nat /\ u <= v
  BY <1>1, <1>7, <1>8 DEF Settles
<1>10. v \in Nat
  BY <1>1, <1>7, <1>8, ListedPositions
<1>11. w \in Nat /\ v <= w
  BY <1>2, <1>6, <1>8, PicksAt
<1>12. u <= w
  BY <1>9, <1>10, <1>11
<1> QED
  BY <1>1, <1>7, <1>8, <1>12

(* A chain that the position ends goes on from one that find has found.    *)
LEMMA FoundBefore ==
    ASSUME NEW lev \in [Nat -> Nat], LCSTypes, ListInv(lev), EarlierInv, FromInv, Found, stage = "find",
           NEW k \in Nat \ {0}, NEW f \in Picks(k, Len(xs)), NEW g \in Picks(k, Len(ys)),
           SameLetters(f, g), g[k] = turn, f[k] = adding, Len(list) < k + Len(ys) - turn
    PROVE  k <= low + 1
<1>1. /\ Len(list) \in Nat /\ low \in Nat /\ turn \in Nat /\ Len(ys) \in Nat /\ Len(xs) \in Nat
      /\ from \in Nat /\ adding \in Nat
  BY Numbers
<1>2. CASE k = 1
  BY <1>1, <1>2
<1>3. CASE k # 1
  <2> DEFINE F == [i \in 1..(k - 1) |-> f[i]]
             G == [i \in 1..(k - 1) |-> g[i]]
  <2>1. /\ F \in Picks(k - 1, Len(xs)) /\ k - 1 \in Nat \ {0}
        /\ f[k - 1] \in Nat /\ f[k - 1] < adding
    BY <1>1, <1>3, PicksPrefix
  <2>2. G \in Picks(k - 1, Len(ys)) /\ g[k - 1] \in Nat /\ g[k - 1] < turn
    BY <1>1, <1>3, PicksPrefix
  <2>3. SameLetters(F, G)
    <3>1. DOMAIN f = 1..k /\ 1..(k - 1) \subseteq 1..k
      BY <1>1, PicksAt
    <3>2. \A i \in 1..(k - 1) : xs[f[i]] = ys[g[i]]
      BY <3>1 DEF SameLetters
    <3> QED
      BY <3>2 DEF SameLetters
  <2>4. F[k - 1] = f[k - 1] /\ G[k - 1] = g[k - 1]
    <3>1. k - 1 \in 1..(k - 1)
      BY <1>3
    <3> QED
      BY <3>1
  <2> HIDE DEF F, G
  <2>5. PICK h : h = k - 1
    OBVIOUS
  <2>6. h \in Nat \ {0} /\ k = h + 1
    BY <1>3, <2>5
  <2>7. Len(list) <= h + Len(ys) - turn
    BY <1>1, <2>6
  <2>8. Reached(h, F)
    BY <2>1, <2>2, <2>3, <2>4, <2>5, <2>6, <2>7 DEF EarlierInv
  <2>9. h \in 1..Len(list)
    <3>1. h <= Len(list)
      BY <2>8 DEF Reached
    <3> QED
      BY <1>1, <2>6, <3>1
  <2>10. PICK v, w : v = heap[list[h]].x /\ w = f[h]
    OBVIOUS
  <2>11. v <= w /\ w \in Nat /\ w < adding
    BY <2>1, <2>4, <2>5, <2>8, <2>10 DEF Reached, Reach
  <2>12. v \in Nat
    BY <2>9, <2>10, ListedPositions
  <2>13. v < adding /\ ~(adding <= v)
    BY <1>1, <2>11, <2>12
  <2>14. ~(from < h)
    <3> SUFFICES ASSUME from < h
                 PROVE  FALSE
      OBVIOUS
    <3>1. adding \in Unsought /\ Reach(h) < adding
      BY <2>10, <2>13 DEF Unsought, Reach
    <3>2. Len(list) - h >= Rest
      BY <2>9, <3>1 DEF FromInv
    <3>3. Len(list) - h >= Len(ys) - turn + 1
      BY <3>2 DEF Rest
    <3> QED
      BY <1>1, <2>6, <2>7, <3>3
  <2>15. h <= from
    BY <1>1, <2>6, <2>14
  <2>16. ~(low < h)
    BY <2>9, <2>10, <2>13, <2>15, Zenon DEF Found
  <2> QED
    BY <1>1, <2>6, <2>16
<1> QED
  BY <1>2, <1>3

(* What ends with the position is now in the list, if it may still become  *)
(* the longest.                                                            *)
LEMMA SettlesKeepsThis ==
    ASSUME NEW lev \in [Nat -> Nat], LCSTypes, ListInv(lev), EarlierInv, ThisInv, FromInv,
           Found, Settles, stage = "find", stage' \in {"item", "free"}, UNCHANGED <<xs, ys, turn, queue>>
    PROVE  ThisInv'
<1>0. Unsought' = queue
  <2>1. stage' # "find"
    OBVIOUS
  <2> QED
    BY <2>1 DEF Unsought
<1> SUFFICES ASSUME NEW k \in Nat \ {0}, NEW f \in Picks(k, Len(xs')), NEW g \in Picks(k, Len(ys')),
                    SameLetters(f, g)', g[k] = turn', f[k] \notin Unsought',
                    Len(list') < k + Len(ys') - turn'
             PROVE  Reached(k, f)'
  BY Zenon DEF ThisInv
<1>10. xs' = xs /\ ys' = ys /\ turn' = turn
  OBVIOUS
<1>11. /\ f \in Picks(k, Len(xs)) /\ g \in Picks(k, Len(ys))
       /\ SameLetters(f, g) /\ g[k] = turn /\ f[k] \notin queue /\ Len(list') < k + Len(ys) - turn
  BY <1>0, <1>10 DEF SameLetters
<1> USE <1>11
<1> SUFFICES k <= Len(list') /\ Reach(k)' <= f[k]
  BY DEF Reached
<1>1. PICK l, m : l = Len(list) /\ m = Len(list')
  OBVIOUS
<1>2. /\ l \in Nat /\ m \in Nat /\ l <= m /\ turn \in Nat /\ Len(ys) \in Nat /\ Len(xs) \in Nat
      /\ low \in Nat /\ adding \in Nat
  BY <1>1, Numbers DEF Settles
<1>3. m < k + Len(ys) - turn
  BY <1>1
<1>4. l < k + Len(ys) - turn
  BY <1>2, <1>3
<1>5. PICK u, v, w : u = Reach(k)' /\ v = heap[list[k]].x /\ w = f[k]
  OBVIOUS
<1>6. w \in Nat
  BY <1>2, <1>5, PicksAt
<1>7. ASSUME k <= l, v <= w
      PROVE  k <= m /\ u <= w
  <2>1. k \in 1..l /\ k <= m
    BY <1>2, <1>7
  <2>2. u \in Nat /\ u <= v
    BY <1>1, <1>5, <2>1 DEF Settles
  <2>3. v \in Nat
    BY <1>1, <1>5, <2>1, ListedPositions
  <2> QED
    BY <1>6, <1>7, <2>1, <2>2, <2>3
<1>8. CASE w # adding
  <2>1. f[k] \notin Unsought
    BY <1>5, <1>8 DEF Unsought
  <2>2. Reached(k, f)
    BY <1>1, <1>4, <2>1 DEF ThisInv
  <2>3. k <= l /\ v <= w
    BY <1>1, <1>5, <2>2 DEF Reached, Reach
  <2> QED
    BY <1>1, <1>5, <1>7, <2>3
<1>9. CASE w = adding
  <2>1. k <= low + 1
    BY <1>1, <1>4, <1>5, <1>9, FoundBefore
  <2>2. CASE k <= low
    <3>1. low <= l
      <4>1. low <= from /\ from <= l
        BY <1>1 DEF Found
      <4>2. from \in Nat
        BY Numbers
      <4> QED
        BY <1>2, <4>1, <4>2
    <3>2. k \in 1..l /\ k <= l
      BY <1>2, <2>2, <3>1
    <3>3. v < adding
      BY <1>1, <1>5, <2>2, <3>2 DEF Found
    <3>4. v \in Nat
      BY <1>1, <1>5, <3>2, ListedPositions
    <3>5. v <= w
      BY <1>2, <1>9, <3>3, <3>4
    <3> QED
      BY <1>1, <1>5, <1>7, <3>2, <3>5
  <2>3. CASE k = low + 1
    <3>1. l - low < Len(ys) - turn + 1
      BY <1>2, <1>4, <2>3
    <3>2. Len(list) - low < Rest
      BY <1>1, <3>1 DEF Rest
    <3>3. k <= m /\ u <= adding
      BY <1>1, <1>5, <2>3, <3>2 DEF Settles
    <3> QED
      BY <1>1, <1>5, <1>9, <3>3
  <2> QED
    BY <1>2, <2>1, <2>2, <2>3
<1> QED
  BY <1>8, <1>9

(* Why nothing longer is missed. *)
AlgorithmInv == FromInv /\ EarlierInv /\ ThisInv

(* Extend misses nothing. *)
LEMMA ExtendKeepsAlgorithm ==
    ASSUME NEW lev \in [Nat -> Nat], NEW yy \in [Nat -> Nat],
           LCSTypes, ItemsInv, FirstTaken, HeapInv(lev, yy), FindInv, AlgorithmInv, Extend
    PROVE  AlgorithmInv'
<1>1. stage = "find" /\ low >= high /\ UNCHANGED <<xs, ys, turn, queue, adding>>
  BY DEF Extend, lcsArguments, lcsLoops
<1>2. ListInv(lev)
  BY DEF HeapInv
<1>3. Found
  BY <1>1, <1>2, FoundIs
<1>4. /\ low' = low /\ from' = low /\ low # 0 /\ Len(list) - low < Rest
      /\ \/ Chosen(low + 1)
         \/ Leave /\ low < Len(list) /\ heap[list[low + 1]].x <= adding
  BY <1>2, <1>3, ExtendChooses
<1>5. low \in Nat /\ from' \in Nat /\ Len(list) \in Nat
  BY <1>4, Numbers
<1>6. stage' \in {"item", "free"}
  BY DEF Extend, Place, Replace, InPlace, Leave
<1>7. CASE Chosen(low + 1)
  <2>1. PICK k : k = low + 1
    OBVIOUS
  <2>2. k \in Nat /\ Chosen(k) /\ k <= from' + 1
    <3>1. Chosen(k) /\ k = from' + 1
      BY <1>4, <1>7, <2>1
    <3>2. k \in Nat
      BY <1>5, <2>1
    <3>3. k <= k
      BY <3>2
    <3> QED
      BY <3>1, <3>2, <3>3
  <2>3. Lowered(k) /\ HasPlace(k, Chained)
    BY <1>1, <2>2, ChosenLowers DEF Chosen
  <2>4. Settles
    BY <1>2, <2>1, <2>3, LoweredSettles
  <2>5. FromInv'
    BY <1>1, <1>2, <1>5, <1>6, <2>2, <2>3, FromAfterChosen
  <2> QED
    BY <1>1, <1>2, <1>3, <1>6, <2>4, <2>5, SettlesKeepsEarlier, SettlesKeepsThis DEF AlgorithmInv
<1>8. CASE Leave /\ low < Len(list) /\ heap[list[low + 1]].x <= adding
  <2>1. Settles
    BY <1>2, <1>8, LeaveSettles
  <2>2. \A i \in 1..Len(list) : from' < i /\ i <= low => Len(list) - i >= Rest
    BY <1>4, <1>5
  <2>3. FromInv'
    BY <1>1, <1>2, <1>3, <1>5, <1>8, <2>2, FromAfterLeave DEF AlgorithmInv
  <2> QED
    BY <1>1, <1>2, <1>3, <1>6, <2>1, <2>3, SettlesKeepsEarlier, SettlesKeepsThis DEF AlgorithmInv
<1> QED
  BY <1>4, <1>7, <1>8

(* Begin misses nothing. *)
LEMMA BeginKeepsAlgorithm ==
    ASSUME NEW lev \in [Nat -> Nat], NEW yy \in [Nat -> Nat],
           LCSTypes, ItemsInv, FirstTaken, HeapInv(lev, yy), FindInv, AlgorithmInv, Begin
    PROVE  AlgorithmInv'
<1>1. stage = "find" /\ low >= high /\ UNCHANGED <<xs, ys, turn, queue, adding>>
  BY DEF Begin, lcsArguments, lcsLoops
<1>2. ListInv(lev)
  BY DEF HeapInv
<1>3. Found
  BY <1>1, <1>2, FoundIs
<1>4. /\ low' = 0 /\ ~Extends
      /\ \/ list = << >> /\ from' = 1 /\ Chosen(1)
         \/ /\ list # << >> /\ from' = 0
            /\ \/ Chosen(1)
               \/ Leave /\ (Len(list) - 1 < Rest => heap[list[1]].x <= adding)
  BY <1>2, <1>3, BeginChooses
<1>5. low \in Nat /\ from' \in Nat /\ Len(list) \in Nat /\ turn \in Nat /\ Len(ys) \in Nat
  BY <1>4, Numbers
<1>6. stage' \in {"item", "free"}
  BY DEF Begin, Place, Replace, InPlace, Leave
<1>7. Len(list) - low < Rest => low = 0
  BY <1>4, <1>5 DEF Extends
<1>8. CASE Chosen(1)
  <2>1. Lowered(1) /\ HasPlace(1, Chained)
    BY <1>1, <1>8, ChosenLowers DEF Chosen
  <2>2. Len(list) - low < Rest => 1 = low + 1
    BY <1>5, <1>7
  <2>3. Settles
    BY <1>2, <2>1, <2>2, LoweredSettles
  <2>4. 1 <= from' + 1
    <3>1. from' = 0 \/ from' = 1
      BY <1>4
    <3> QED
      BY <3>1
  <2>5. FromInv'
    BY <1>1, <1>2, <1>5, <1>6, <2>1, <2>4, FromAfterChosen
  <2> QED
    BY <1>1, <1>2, <1>3, <1>6, <2>3, <2>5, SettlesKeepsEarlier, SettlesKeepsThis DEF AlgorithmInv
<1>9. CASE list # << >> /\ from' = 0 /\ Leave /\ (Len(list) - 1 < Rest => heap[list[1]].x <= adding)
  <2>1. 0 < Len(list)
    <3>1. list \in Seq(Nat)
      BY DEF LCSTypes
    <3>2. Len(list) # 0
      BY <1>9, <3>1, EmptySeq
    <3> QED
      BY <1>5, <3>2
  <2>2. Len(list) - low < Rest => low < Len(list) /\ heap[list[low + 1]].x <= adding
    <3> SUFFICES ASSUME Len(list) - low < Rest
                 PROVE  low < Len(list) /\ heap[list[low + 1]].x <= adding
      OBVIOUS
    <3>1. low = 0 /\ low + 1 = 1
      BY <1>7
    <3>2. Len(list) - 0 < Rest
      BY <3>1
    <3>3. Len(list) < Len(ys) - turn + 1
      BY <1>5, <3>2 DEF Rest
    <3>4. Len(list) - 1 < Rest
      BY <1>5, <3>3 DEF Rest
    <3> QED
      BY <1>9, <2>1, <3>1, <3>4
  <2>3. Settles
    BY <1>2, <1>9, <2>2, LeaveSettles
  <2>4. \A i \in 1..Len(list) : from' < i /\ i <= low => Len(list) - i >= Rest
    <3> SUFFICES ASSUME NEW i \in 1..Len(list), i <= low
                 PROVE  Len(list) - i >= Rest
      OBVIOUS
    <3>1. low > 0
      BY <1>5
    <3>2. ~(Len(list) - low < Rest)
      BY <1>4, <3>1 DEF Extends
    <3> QED
      BY <1>5, <3>2 DEF Rest
  <2>5. FromInv'
    BY <1>1, <1>2, <1>3, <1>5, <1>9, <2>4, FromAfterLeave DEF AlgorithmInv
  <2> QED
    BY <1>1, <1>2, <1>3, <1>6, <2>3, <2>5, SettlesKeepsEarlier, SettlesKeepsThis DEF AlgorithmInv
<1> QED
  BY <1>4, <1>8, <1>9

(* Nothing that the chains are told from changes. *)
SameReach ==
    /\ UNCHANGED <<xs, ys, turn, from>> /\ Unsought' = Unsought /\ Len(list') = Len(list)
    /\ \A k \in 1..Len(list) : Reach(k)' = Reach(k)

(* Where no chain changes nothing is missed. *)
LEMMA SameReachKeepsAlgorithm ==
    ASSUME LCSTypes, AlgorithmInv, SameReach
    PROVE  AlgorithmInv'
<1>1. Len(list) \in Nat
  BY Numbers
<1>2. FromInv'
  BY DEF AlgorithmInv, SameReach, FromInv, Rest
<1>3. ASSUME NEW k \in Nat \ {0}, NEW f, Reached(k, f)
      PROVE  Reached(k, f)'
  <2>1. k \in 1..Len(list)
    BY <1>1, <1>3 DEF Reached
  <2> QED
    BY <1>3, <2>1 DEF Reached, SameReach
<1>4. EarlierInv'
  BY <1>3 DEF AlgorithmInv, SameReach, EarlierInv, SameLetters
<1>5. ThisInv'
  BY <1>3 DEF AlgorithmInv, SameReach, ThisInv, SameLetters
<1> QED
  BY <1>2, <1>4, <1>5 DEF AlgorithmInv

-----------------------------------------------------------------------------
(* LCS: every step *)

(* The inductive invariant, of the levels and the indices in ys. *)
LCSInvWith(lev, yy, gg) ==
    /\ LCSTypes /\ ItemsInv /\ FirstTaken /\ FindInv /\ AlgorithmInv
    /\ HeapInv(lev, yy) /\ CollectInv(lev, yy, gg)

(* The steps that leave the nodes alone. *)
LEMMA SameHeapKeeps ==
    ASSUME NEW lev, NEW yy, HeapInv(lev, yy), UNCHANGED <<xs, ys, lcsNodes>>,
           stage # "free", stage' # "free",
           \A n \in InUse : yy[n] <= turn',
           \A n \in InUse : yy[n] = turn' => \A r \in Pending' : r < heap[n].x
    PROVE  HeapInv(lev, yy)'
<1>1. list' = list /\ recycle' = recycle /\ heap' = heap
  BY DEF lcsNodes
<1>2. InUse' = InUse /\ Settled' = Settled /\ \A n : Holders(n)' = Holders(n) /\ Owed(n)' = Owed(n)
  BY <1>1 DEF InUse, Spare, Settled, Changing, Holders, Owed
<1>3. NodesInv(lev, yy)'
  BY <1>1, <1>2 DEF HeapInv, NodesInv
<1>4. LinksInv(lev, yy)' /\ ListInv(lev)' /\ SharedInv'
  BY <1>1, <1>2 DEF HeapInv, LinksInv, ListInv, SharedInv
<1>5. RecycleInv' /\ CountInv' /\ FreeInv(lev)'
  BY <1>1, <1>2 DEF HeapInv, RecycleInv, CountInv, FreeInv
<1> QED
  BY <1>3, <1>4, <1>5 DEF HeapInv

(* What ends with this item is what ends before the next one. *)
LEMMA NextItemKeepsAlgorithm ==
    ASSUME LCSTypes, AlgorithmInv, NextItem
    PROVE  AlgorithmInv'
<1>1. /\ stage = "item" /\ stage' = "item" /\ queue = {} /\ turn' = turn + 1 /\ turn < Len(ys)
      /\ queue' = Occurrence(ys[turn']) /\ from' = Len(list)
      /\ xs' = xs /\ ys' = ys /\ list' = list /\ heap' = heap
  BY DEF NextItem, lcsArguments, lcsNodes
<1>2. Len(list) \in Nat /\ turn \in Nat /\ Len(ys) \in Nat /\ Len(xs) \in Nat
  BY Numbers
<1>3. Unsought = {} /\ Unsought' = Occurrence(ys[turn'])
  BY <1>1 DEF Unsought
<1>4. \A k : Reach(k) = heap[list[k]].x /\ Reach(k)' = heap[list[k]].x
  BY <1>1 DEF Reach
<1>5. \A k, f : Reached(k, f)' <=> Reached(k, f)
  BY <1>1, <1>4 DEF Reached
<1>6. FromInv'
  <2>1. \A i \in 1..Len(list) : ~(Len(list) < i)
    BY <1>2
  <2> QED
    BY <1>1, <2>1 DEF FromInv
<1>7. EarlierInv'
  <2> SUFFICES ASSUME NEW k \in Nat \ {0}, NEW f \in Picks(k, Len(xs)), NEW g \in Picks(k, Len(ys)),
                      SameLetters(f, g), g[k] < turn + 1, Len(list) <= k + Len(ys) - (turn + 1)
               PROVE  Reached(k, f)
    BY <1>1, <1>5 DEF EarlierInv, SameLetters
  <2>1. g[k] \in Nat
    BY <1>2, PicksAt
  <2>2. CASE g[k] < turn
    <3>1. Len(list) <= k + Len(ys) - turn
      BY <1>2
    <3> QED
      BY <2>2, <3>1 DEF AlgorithmInv, EarlierInv
  <2>3. CASE g[k] = turn
    <3>1. Len(list) < k + Len(ys) - turn
      BY <1>2
    <3>2. f[k] \notin Unsought
      BY <1>3
    <3> QED
      BY <2>3, <3>1, <3>2 DEF AlgorithmInv, ThisInv
  <2> QED
    BY <1>2, <2>1, <2>2, <2>3
<1>8. ThisInv'
  <2> SUFFICES ASSUME NEW k \in Nat \ {0}, NEW f \in Picks(k, Len(xs)), NEW g \in Picks(k, Len(ys)),
                      SameLetters(f, g), g[k] = turn', f[k] \notin Occurrence(ys[turn'])
               PROVE  FALSE
    BY <1>1, <1>3 DEF ThisInv, SameLetters
  <2>1. f[k] \in 1..Len(xs) /\ k \in DOMAIN f
    BY <1>2, PicksAt
  <2>2. xs[f[k]] = ys[g[k]]
    BY <2>1 DEF SameLetters
  <2> QED
    BY <2>1, <2>2 DEF Occurrence
<1> QED
  BY <1>6, <1>7, <1>8 DEF AlgorithmInv

(* The next item of ys. *)
LEMMA NextItemKeeps ==
    ASSUME NEW lev \in [Nat -> Nat], NEW yy \in [Nat -> Nat], NEW gg \in [Nat -> Nat],
           LCSInvWith(lev, yy, gg), NextItem
    PROVE  LCSInvWith(lev, yy, gg)'
<1> USE DEF LCSInvWith
<1>1. /\ stage = "item" /\ stage' = "item" /\ queue = {} /\ turn' = turn + 1 /\ turn < Len(ys)
      /\ queue' = Occurrence(ys[turn']) /\ from' = Len(list)
      /\ UNCHANGED <<lcsArguments, lcsNodes, adding, low, high, chased, idx>>
  BY DEF NextItem
<1>2. xs' = xs /\ ys' = ys /\ list' = list /\ heap' = heap /\ recycle' = recycle
  BY <1>1 DEF lcsArguments, lcsNodes
<1>3. Len(list) \in Nat /\ turn \in Nat /\ Len(ys) \in Nat /\ Len(xs) \in Nat
  BY Numbers
<1>4. turn' \in 0..Len(ys) /\ turn' # 0 /\ turn' \in Nat /\ turn < turn'
  BY <1>1, <1>3
<1>5. LCSTypes'
  <2>1. from' \in 0..Len(list')
    BY <1>1, <1>2, <1>3
  <2> QED
    BY <1>1, <1>2, <1>4, <2>1 DEF LCSTypes
<1>6. Pending' = Occurrence(ys[turn'])
  BY <1>1 DEF Pending
<1>7. ItemsInv'
  BY <1>2, <1>4, <1>6 DEF ItemsInv, Occurrence
<1>8. FirstTaken' /\ FindInv' /\ CollectInv(lev, yy, gg)'
  BY <1>1 DEF FirstTaken, FindInv, CollectInv
<1>9. HeapInv(lev, yy)'
  <2>1. PICK t : t = turn'
    OBVIOUS
  <2>2. \A n \in InUse : yy[n] <= t /\ yy[n] # t
    <3> SUFFICES ASSUME NEW n \in InUse
                 PROVE  yy[n] <= t /\ yy[n] # t
      OBVIOUS
    <3>1. PICK v : v = yy[n]
      OBVIOUS
    <3>2. v \in 1..Len(ys) /\ v <= turn
      BY <3>1 DEF HeapInv, NodesInv
    <3>3. t \in Nat /\ turn < t
      BY <1>4, <2>1
    <3>4. v <= t /\ v # t
      BY <1>3, <3>2, <3>3
    <3> QED
      BY <3>1, <3>4
  <2> QED
    BY <1>1, <1>2, <2>1, <2>2, SameHeapKeeps
<1>10. AlgorithmInv'
  BY NextItemKeepsAlgorithm
<1> QED
  BY <1>5, <1>7, <1>8, <1>9, <1>10

(* The next position of the item; find begins. *)
LEMMA NextPositionKeeps ==
    ASSUME NEW lev \in [Nat -> Nat], NEW yy \in [Nat -> Nat], NEW gg \in [Nat -> Nat],
           LCSInvWith(lev, yy, gg), NextPosition
    PROVE  LCSInvWith(lev, yy, gg)'
<1> USE DEF LCSInvWith
<1>1. /\ stage = "item" /\ stage' = "find" /\ adding' \in queue /\ queue' = queue \ {adding'}
      /\ \A x \in queue : x <= adding'
      /\ low' = 0 /\ high' = from
      /\ UNCHANGED <<lcsArguments, turn, from, lcsNodes, chased, idx>>
  BY DEF NextPosition
<1>2. xs' = xs /\ ys' = ys /\ list' = list /\ heap' = heap /\ recycle' = recycle
  BY <1>1 DEF lcsArguments, lcsNodes
<1>3. Len(list) \in Nat /\ turn \in Nat /\ Len(ys) \in Nat /\ Len(xs) \in Nat /\ from \in Nat
  BY Numbers
<1>4. Pending = queue /\ Pending' = queue /\ Unsought = queue /\ Unsought' = queue
  BY <1>1 DEF Pending, Unsought
<1>5. \A r \in queue : r \in 1..Len(xs) /\ r \in Nat
  BY <1>3, <1>4 DEF ItemsInv
<1>6. adding' \in Nat
  BY <1>1, <1>5
<1>7. LCSTypes'
  BY <1>1, <1>2, <1>3, <1>6 DEF LCSTypes
<1>8. ItemsInv'
  BY <1>1, <1>2, <1>4 DEF ItemsInv
<1>9. FirstTaken'
  <2>1. PICK a : a = adding'
    OBVIOUS
  <2>2. \A r \in queue' : r < a
    BY <1>1, <1>5, <2>1
  <2> QED
    BY <2>1, <2>2 DEF FirstTaken
<1>10. FindInv'
  <2>1. 0 <= from /\ from <= from /\ ~(from < from)
    BY <1>3
  <2> QED
    BY <1>1, <2>1 DEF FindInv
<1>11. CollectInv(lev, yy, gg)'
  BY <1>1 DEF CollectInv
<1>12. HeapInv(lev, yy)'
  BY <1>1, <1>2, <1>4, SameHeapKeeps DEF HeapInv, NodesInv
<1>13. SameReach
  BY <1>1, <1>2, <1>4 DEF SameReach, Reach
<1> QED
  BY <1>7, <1>8, <1>9, <1>10, <1>11, <1>12, <1>13, SameReachKeepsAlgorithm

(* The middle of the positions that are left to look at. *)
LEMMA Middle ==
    ASSUME NEW a \in Nat, NEW b \in Nat, a < b
    PROVE  LET h == (a + b) \div 2 IN
           h \in Nat /\ a <= h /\ h < b /\ h + 1 <= b /\ h + 1 \in 1..b
OBVIOUS

(* A step of the bisection keeps its invariant. *)
LEMMA ProbeKeeps ==
    ASSUME NEW lev \in [Nat -> Nat], NEW yy \in [Nat -> Nat], NEW gg \in [Nat -> Nat],
           LCSInvWith(lev, yy, gg), Probe
    PROVE  LCSInvWith(lev, yy, gg)'
<1> USE DEF LCSInvWith
<1> DEFINE h == (low + high) \div 2
<1>1. /\ stage = "find" /\ low < high /\ stage' = "find"
      /\ \/ heap[list[h + 1]].x < adding /\ low' = h + 1 /\ high' = high
         \/ ~(heap[list[h + 1]].x < adding) /\ high' = h /\ low' = low
      /\ UNCHANGED <<lcsArguments, lcsLoops, from, lcsNodes, adding, chased, idx>>
  BY DEF Probe
<1>2. /\ xs' = xs /\ ys' = ys /\ list' = list /\ heap' = heap /\ recycle' = recycle
      /\ turn' = turn /\ queue' = queue
  BY <1>1 DEF lcsArguments, lcsNodes, lcsLoops
<1>3. /\ Len(list) \in Nat /\ turn \in Nat /\ Len(ys) \in Nat /\ Len(xs) \in Nat /\ from \in Nat
      /\ low \in Nat /\ high \in Nat /\ adding \in Nat
  BY Numbers
<1>4. /\ low <= high /\ high <= from /\ from <= Len(list)
      /\ low # 0 => heap[list[low]].x < adding
      /\ high < from => adding <= heap[list[high + 1]].x
  <2>1. from <= Len(list)
    <3>1. from \in 0..Len(list)
      BY DEF LCSTypes
    <3> QED
      BY <1>3, <3>1
  <2> QED
    BY <1>1, <2>1 DEF FindInv
<1>5. h \in Nat /\ low <= h /\ h < high /\ h + 1 \in 1..Len(list) /\ h + 1 <= high /\ h + 1 # 0 /\ h <= from /\ h + 1 \in Nat
  <2>1. h \in Nat /\ low <= h /\ h < high /\ h + 1 <= high
    BY <1>1, <1>3, Middle
  <2> HIDE DEF h
  <2>2. high <= from /\ from <= Len(list)
    BY <1>4
  <2>3. h <= from /\ h + 1 <= Len(list)
    BY <1>3, <2>1, <2>2
  <2>4. h + 1 \in 1..Len(list) /\ h + 1 # 0 /\ h + 1 \in Nat
    BY <1>3, <2>1, <2>3
  <2> QED
    BY <2>1, <2>3, <2>4
<1> HIDE DEF h
<1>6. PICK v : v = heap[list[h + 1]].x
  OBVIOUS
<1>7. v \in Nat
  BY <1>5, <1>6, ListedPositions DEF HeapInv
<1>8. low' \in Nat /\ high' \in Nat
  BY <1>1, <1>3, <1>5
<1>9. LCSTypes'
  BY <1>1, <1>2, <1>8 DEF LCSTypes
<1>10. Pending' = Pending /\ Unsought' = Unsought
  BY <1>1, <1>2 DEF Pending, Unsought
<1>11. ItemsInv' /\ FirstTaken'
  BY <1>1, <1>2, <1>10 DEF ItemsInv, FirstTaken
<1>12. FindInv'
  <2>1. CASE v < adding /\ low' = h + 1 /\ high' = high
    BY <1>1, <1>2, <1>4, <1>5, <1>6, <2>1 DEF FindInv
  <2>2. CASE ~(v < adding) /\ high' = h /\ low' = low
    <3>1. adding <= v
      BY <1>3, <1>7, <2>2
    <3> QED
      BY <1>1, <1>2, <1>4, <1>5, <1>6, <2>2, <3>1 DEF FindInv
  <2> QED
    BY <1>1, <1>6, <2>1, <2>2
<1>13. CollectInv(lev, yy, gg)'
  BY <1>1 DEF CollectInv
<1>14. HeapInv(lev, yy)'
  BY <1>1, <1>2, <1>10, SameHeapKeeps DEF HeapInv, NodesInv
<1>15. SameReach
  BY <1>1, <1>2, <1>10 DEF SameReach, Reach
<1> QED
  BY <1>9, <1>11, <1>12, <1>13, <1>14, <1>15, SameReachKeepsAlgorithm

(* The end of the context changes nothing yet. *)
LEMMA CutShortKeeps ==
    ASSUME NEW lev \in [Nat -> Nat], NEW yy \in [Nat -> Nat], NEW gg \in [Nat -> Nat],
           LCSInvWith(lev, yy, gg), CutShort
    PROVE  LCSInvWith(lev, yy, gg)'
<1> USE DEF LCSInvWith
<1>1. /\ xs' = xs /\ ys' = ys /\ list' = list /\ heap' = heap /\ recycle' = recycle
      /\ turn' = turn /\ queue' = queue /\ from' = from /\ stage' = stage /\ adding' = adding
      /\ low' = low /\ high' = high /\ chased' = chased /\ idx' = idx /\ cut'
  BY DEF CutShort, lcsLoops, lcsNodes
<1>2. LCSTypes' /\ ItemsInv' /\ FirstTaken' /\ FindInv'
  BY <1>1 DEF LCSTypes, ItemsInv, FirstTaken, FindInv, Pending
<1>3. InUse' = InUse /\ Settled' = Settled /\ \A n : Holders(n)' = Holders(n) /\ Owed(n)' = Owed(n)
  BY <1>1 DEF InUse, Spare, Settled, Changing, Holders, Owed
<1>4. Pending' = Pending /\ Before' = Before /\ Unsought' = Unsought
  BY <1>1 DEF Pending, Before, Unsought
<1>5. NodesInv(lev, yy)' /\ LinksInv(lev, yy)' /\ ListInv(lev)'
  BY <1>1, <1>3, <1>4 DEF HeapInv, NodesInv, LinksInv, ListInv
<1>6. RecycleInv' /\ CountInv' /\ SharedInv' /\ FreeInv(lev)'
  BY <1>1, <1>3, <1>4 DEF HeapInv, RecycleInv, CountInv, SharedInv, FreeInv
<1>7. SameReach
  BY <1>1, <1>4 DEF SameReach, Reach
<1>8. CollectInv(lev, yy, gg)'
  BY <1>1, <1>3 DEF CollectInv
<1> QED
  BY <1>2, <1>5, <1>6, <1>7, <1>8, SameReachKeepsAlgorithm DEF HeapInv

(* What comes before the next position is this one or comes before it. *)
LEMMA Upto ==
    ASSUME NEW a \in Nat, NEW i \in Nat \ {0}, i < a + 1
    PROVE  a # 0 /\ (i = a \/ i < a)
OBVIOUS

(* add keeps the chains, whatever it decides. *)
LEMMA AddKeeps ==
    ASSUME NEW lev \in [Nat -> Nat], NEW yy \in [Nat -> Nat], NEW gg \in [Nat -> Nat],
           LCSInvWith(lev, yy, gg), stage = "find", NEW k, Chosen(k) \/ Leave,
           UNCHANGED <<lcsArguments, lcsLoops, adding, high, idx>>,
           low' \in Nat, from' \in 0..Len(list'), AlgorithmInv'
    PROVE  \E lev1, yy1 \in [Nat -> Nat] : LCSInvWith(lev1, yy1, gg)'
<1> USE DEF LCSInvWith
<1>1. xs' = xs /\ ys' = ys /\ turn' = turn /\ queue' = queue
  BY DEF lcsArguments, lcsLoops
<1>2. /\ stage' \in {"item", "free"} /\ \E lev1, yy1 \in [Nat -> Nat] : HeapInv(lev1, yy1)'
      /\ heap' \in Seq(Node) /\ recycle' \in Seq(Nat) /\ list' \in Seq(Nat) /\ chased' \in Nat
  <2>1. CASE Chosen(k)
    BY <1>1, <2>1, ChosenKeeps
  <2>2. CASE Leave
    <3>1. stage' = "item" /\ UNCHANGED lcsNodes /\ chased' = chased
      BY <2>2 DEF Leave
    <3>2. heap' = heap /\ recycle' = recycle /\ list' = list
      BY <3>1 DEF lcsNodes
    <3>3. Pending' \subseteq Pending
      BY <1>1, <3>1 DEF Pending
    <3>4. HeapInv(lev, yy)'
      BY <1>1, <3>1, <3>3, SameHeapKeeps DEF HeapInv, NodesInv
    <3> QED
      BY <3>1, <3>2, <3>4 DEF LCSTypes
  <2> QED
    BY <2>1, <2>2
<1>3. LCSTypes'
  BY <1>1, <1>2 DEF LCSTypes
<1>4. ItemsInv' /\ FirstTaken'
  <2>1. Pending' \subseteq Pending
    BY <1>1, <1>2 DEF Pending
  <2> QED
    BY <1>1, <2>1 DEF ItemsInv, FirstTaken
<1>5. FindInv' /\ CollectInv(lev, yy, gg)'
  BY <1>2 DEF FindInv, CollectInv
<1>6. ASSUME NEW lev1, NEW yy1
      PROVE  CollectInv(lev1, yy1, gg)'
  BY <1>2 DEF CollectInv
<1> QED
  BY <1>2, <1>3, <1>4, <1>5, <1>6

(* Extend keeps the invariant, with the level of its node. *)
LEMMA ExtendKeeps ==
    ASSUME NEW lev \in [Nat -> Nat], NEW yy \in [Nat -> Nat], NEW gg \in [Nat -> Nat],
           LCSInvWith(lev, yy, gg), Extend
    PROVE  \E lev1, yy1 \in [Nat -> Nat] : LCSInvWith(lev1, yy1, gg)'
<1>1. stage = "find" /\ low >= high /\ UNCHANGED <<lcsArguments, lcsLoops, adding, high, idx>>
  BY DEF Extend
<1>2. ListInv(lev) /\ Found
  BY <1>1, FoundIs DEF LCSInvWith, HeapInv
<1>3. low' = low /\ from' = low /\ (Chosen(low + 1) \/ Leave)
  BY <1>2, ExtendChooses DEF LCSInvWith
<1>4. low \in Nat /\ Len(list) \in Nat /\ low <= Len(list)
  <2>1. low <= from /\ from <= Len(list)
    BY <1>2 DEF Found
  <2>2. low \in Nat /\ from \in Nat /\ Len(list) \in Nat
    BY Numbers DEF LCSInvWith
  <2> QED
    BY <2>1, <2>2
<1>5. PICK k : k = low + 1
  OBVIOUS
<1>6. Chosen(k) \/ Leave
  BY <1>3, <1>5
<1>7. Len(list) <= Len(list') /\ Len(list') \in Nat
  <2>1. CASE Chosen(k)
    BY <1>1, <2>1, ChosenLowers DEF LCSInvWith, Lowered
  <2>2. CASE Leave
    <3>1. list' = list
      BY <2>2 DEF Leave, lcsNodes
    <3> QED
      BY <1>4, <3>1
  <2> QED
    BY <1>6, <2>1, <2>2
<1>8. low' \in Nat /\ from' \in 0..Len(list')
  <2>1. PICK l : l = Len(list')
    OBVIOUS
  <2>2. low \in 0..l
    BY <1>4, <1>7, <2>1
  <2> QED
    BY <1>3, <1>4, <2>1, <2>2
<1>9. AlgorithmInv'
  BY ExtendKeepsAlgorithm DEF LCSInvWith
<1> QED
  BY <1>1, <1>6, <1>8, <1>9, AddKeeps

(* Begin keeps the invariant, with the level of its node. *)
LEMMA BeginKeeps ==
    ASSUME NEW lev \in [Nat -> Nat], NEW yy \in [Nat -> Nat], NEW gg \in [Nat -> Nat],
           LCSInvWith(lev, yy, gg), Begin
    PROVE  \E lev1, yy1 \in [Nat -> Nat] : LCSInvWith(lev1, yy1, gg)'
<1>1. stage = "find" /\ low >= high /\ UNCHANGED <<lcsArguments, lcsLoops, adding, high, idx>>
  BY DEF Begin
<1>2. ListInv(lev) /\ Found
  BY <1>1, FoundIs DEF LCSInvWith, HeapInv
<1>3. low' = 0 /\ ((from' = 1 /\ Chosen(1)) \/ (from' = 0 /\ (Chosen(1) \/ Leave)))
  BY <1>2, BeginChooses DEF LCSInvWith
<1>4. Len(list) \in Nat
  BY Numbers DEF LCSInvWith
<1>5. Chosen(1) => 1 \in 1..Len(list') /\ Len(list') \in Nat
  BY <1>1, ChosenLowers DEF LCSInvWith, Lowered
<1>6. Leave => list' = list
  BY DEF Leave, lcsNodes
<1>7. from' \in 0..Len(list')
  <2>1. PICK l : l = Len(list')
    OBVIOUS
  <2>2. CASE Chosen(1)
    <3>1. l \in Nat /\ 1 \in 1..l
      BY <1>5, <2>1, <2>2
    <3>2. 0 \in 0..l /\ 1 \in 0..l
      BY <3>1
    <3>3. from' = 0 \/ from' = 1
      BY <1>3
    <3> QED
      BY <2>1, <3>2, <3>3
  <2>3. CASE from' = 0 /\ Leave
    <3>1. l \in Nat
      BY <1>4, <1>6, <2>1, <2>3
    <3>2. 0 \in 0..l
      BY <3>1
    <3> QED
      BY <2>1, <2>3, <3>2
  <2> QED
    BY <1>3, <2>2, <2>3
<1>8. low' \in Nat
  BY <1>3
<1>9. AlgorithmInv'
  BY BeginKeepsAlgorithm DEF LCSInvWith
<1>10. Chosen(1) \/ Leave
  BY <1>3
<1> QED
  BY <1>1, <1>7, <1>8, <1>9, <1>10, AddKeeps

(* A pointer less keeps the invariant. *)
LEMMA FreeKeeps ==
    ASSUME NEW lev \in [Nat -> Nat], NEW yy \in [Nat -> Nat], NEW gg \in [Nat -> Nat],
           LCSInvWith(lev, yy, gg), Free
    PROVE  LCSInvWith(lev, yy, gg)'
<1> USE DEF LCSInvWith
<1>1. /\ stage = "free" /\ UNCHANGED <<lcsArguments, lcsLoops, from, list, stage, adding, low, high, idx>>
  BY DEF Free
<1>2. xs' = xs /\ ys' = ys /\ turn' = turn /\ queue' = queue
  BY <1>1 DEF lcsArguments, lcsLoops
<1>3. LessOne
  BY FreeTakesOne
<1>4. HeapInv(lev, yy)' /\ recycle' \in Seq(Nat) /\ chased' \in Nat
  <2>1. CASE heap'[chased].c = 0
    BY <1>3, <2>1, RecycleKeeps
  <2>2. CASE heap'[chased].c # 0
    BY <1>3, <2>2, BreakOffKeeps DEF LCSTypes
  <2> QED
    BY <2>1, <2>2
<1>5. LCSTypes'
  BY <1>1, <1>2, <1>3, <1>4 DEF LCSTypes, LessOne
<1>6. ItemsInv' /\ FirstTaken' /\ FindInv' /\ CollectInv(lev, yy, gg)'
  BY <1>1, <1>2 DEF ItemsInv, FirstTaken, FindInv, CollectInv, Pending
<1>7. SameReach
  <2>1. \A i \in 1..Len(list) : list[i] \in InUse
    BY DEF HeapInv, ListInv
  <2> QED
    BY <1>1, <1>2, <1>3, <2>1 DEF SameReach, Reach, LessOne, Unsought
<1> QED
  BY <1>4, <1>5, <1>6, <1>7, SameReachKeepsAlgorithm

(* Relink keeps the invariant, with the index of its node. *)
LEMMA RelinkKeeps ==
    ASSUME NEW lev \in [Nat -> Nat], NEW yy \in [Nat -> Nat], NEW gg \in [Nat -> Nat],
           LCSInvWith(lev, yy, gg), Relink
    PROVE  \E lev1, yy1 \in [Nat -> Nat] : LCSInvWith(lev1, yy1, gg)'
<1> USE DEF LCSInvWith
<1>1. /\ stage = "free" /\ stage' = "item"
      /\ UNCHANGED <<lcsArguments, lcsLoops, from, list, recycle, adding, low, high, chased, idx>>
  BY DEF Relink
<1>2. xs' = xs /\ ys' = ys /\ turn' = turn /\ queue' = queue
  BY <1>1 DEF lcsArguments, lcsLoops
<1>3. low \in Nat /\ Len(list) \in Nat /\ adding \in Nat /\ turn \in Nat
  BY Numbers
<1>4. /\ low < Len(list)
      /\ low # 0 => heap[list[low]].x < adding
      /\ adding < heap[list[low + 1]].x
  BY <1>1 DEF HeapInv, FreeInv
<1>5. PICK k, n : k = low + 1 /\ n = list[k]
  OBVIOUS
<1>6. k \in Nat /\ k \in 1..Len(list) /\ k - 1 = low /\ (low # 0 => low \in 1..Len(list)) /\ (k = 1 <=> low = 0)
  <2>1. low < Len(list) /\ k = low + 1
    BY <1>4, <1>5
  <2>2. k \in 1..Len(list) /\ (low # 0 => low \in 1..Len(list))
    BY <1>3, <2>1, NextIn
  <2>3. k \in Nat /\ k - 1 = low /\ (k = 1 <=> low = 0)
    BY <1>3, <2>1
  <2> QED
    BY <2>2, <2>3
<1>7. LinksTo(n, Before) /\ Lists(n, k) /\ RecycleInv' /\ heap' \in Seq(Node)
  BY <1>5, RelinkLinks
<1>8. HasPlace(k, Before)
  <2>1. \A i \in 1..Len(list) : heap[list[i]].x \in Nat
    BY ListedPositions DEF HeapInv
  <2>2. ASSUME NEW i \in 1..Len(list), i < k
        PROVE  heap[list[i]].x < adding
    <3>1. PICK u, v : u = heap[list[i]].x /\ v = heap[list[low]].x
      OBVIOUS
    <3>2. low # 0 /\ low \in 1..Len(list) /\ (i = low \/ i < low)
      <4>1. i \in Nat \ {0} /\ k = low + 1
        BY <1>5
      <4>2. low # 0 /\ (i = low \/ i < low)
        <5>1. i < low + 1
          BY <2>2, <4>1
        <5> QED
          BY <1>3, <4>1, <5>1, Upto
      <4> QED
        BY <1>6, <4>2
    <3>3. i < low => u < v
      BY <3>1, <3>2 DEF HeapInv, ListInv
    <3>4. u \in Nat /\ v \in Nat /\ v < adding
      BY <1>4, <2>1, <3>1, <3>2
    <3>5. u < adding
      <4>1. CASE i < low
        BY <1>3, <3>3, <3>4, <4>1
      <4>2. CASE i = low
        BY <3>1, <3>4, <4>2
      <4> QED
        BY <3>2, <4>1, <4>2
    <3> QED
      BY <3>1, <3>5
  <2>3. ASSUME NEW i \in 1..Len(list), k <= i
        PROVE  adding < heap[list[i]].x
    <3>1. PICK u, v : u = heap[list[i]].x /\ v = heap[list[k]].x
      OBVIOUS
    <3>2. i = k \/ k < i
      <4>1. i \in Nat
        OBVIOUS
      <4> QED
        BY <1>6, <2>3, <4>1
    <3>3. k < i => v < u
      BY <1>6, <3>1 DEF HeapInv, ListInv
    <3>4. u \in Nat /\ v \in Nat /\ adding < v
      BY <1>4, <1>5, <1>6, <2>1, <3>1
    <3>5. adding < u
      <4>1. CASE k < i
        BY <1>3, <3>3, <3>4, <4>1
      <4>2. CASE i = k
        BY <3>1, <3>4, <4>2
      <4> QED
        BY <3>2, <4>1, <4>2
    <3> QED
      BY <3>1, <3>5
  <2>4. /\ k = 1 => Before = 0
        /\ k # 1 => k - 1 \in 1..Len(list) /\ Before = list[k - 1]
    BY <1>6 DEF Before
  <2> QED
    BY <2>2, <2>3, <2>4 DEF HasPlace
<1>9. HeapInv([lev EXCEPT ![n] = k], [yy EXCEPT ![n] = turn])'
  BY <1>1, <1>2, <1>7, <1>8, LinkKeeps
<1>10. [lev EXCEPT ![n] = k] \in [Nat -> Nat] /\ [yy EXCEPT ![n] = turn] \in [Nat -> Nat]
  BY <1>3, <1>6
<1>11. LCSTypes'
  BY <1>1, <1>2, <1>7 DEF LCSTypes
<1>12. ItemsInv' /\ FirstTaken' /\ FindInv'
  <2>1. Pending' \subseteq Pending
    BY <1>1, <1>2 DEF Pending
  <2> QED
    BY <1>1, <1>2, <2>1 DEF ItemsInv, FirstTaken, FindInv
<1>13. \A lev1, yy1 : CollectInv(lev1, yy1, gg)'
  BY <1>1 DEF CollectInv
<1>14. SameReach
  <2>1. \A i \in 1..Len(list) : i # k => Reach(i) = heap[list[i]].x /\ Reach(i)' = heap[list[i]].x
    <3> SUFFICES ASSUME NEW i \in 1..Len(list), i # k
                 PROVE  Reach(i) = heap[list[i]].x /\ Reach(i)' = heap[list[i]].x
      OBVIOUS
    <3>1. list[i] \in Settled
      BY <1>1, <1>7 DEF Lists
    <3>2. heap'[list[i]].x = heap[list[i]].x
      BY <1>7, <3>1 DEF LinksTo
    <3> QED
      BY <1>1, <1>5, <3>2 DEF Reach
  <2>2. Reach(k) = adding /\ Reach(k)' = adding
    BY <1>1, <1>5, <1>7 DEF Reach, LinksTo
  <2>3. Unsought' = Unsought
    BY <1>1, <1>2 DEF Unsought
  <2> QED
    BY <1>1, <1>2, <2>1, <2>2, <2>3 DEF SameReach
<1>15. AlgorithmInv'
  BY <1>14, SameReachKeepsAlgorithm
<1>16. PICK lev1, yy1 : lev1 = [lev EXCEPT ![n] = k] /\ yy1 = [yy EXCEPT ![n] = turn']
  OBVIOUS
<1>17. lev1 \in [Nat -> Nat] /\ yy1 \in [Nat -> Nat] /\ HeapInv(lev1, yy1)'
  BY <1>2, <1>9, <1>10, <1>16
<1> QED
  BY <1>11, <1>12, <1>13, <1>15, <1>17

(* lcs begins with the last node of the list. *)
LEMMA CollectKeeps ==
    ASSUME NEW lev \in [Nat -> Nat], NEW yy \in [Nat -> Nat], NEW gg \in [Nat -> Nat],
           LCSInvWith(lev, yy, gg), Collect
    PROVE  LCSInvWith(lev, yy, gg)'
<1> USE DEF LCSInvWith
<1>1. /\ stage = "item" /\ stage' = "collect" /\ queue = {} /\ (turn = Len(ys) \/ cut)
      /\ low' = Len(list) /\ chased' = IF list = << >> THEN 0 ELSE Last(list)
      /\ idx' = [i \in 1..Len(list) |-> 0]
      /\ UNCHANGED <<lcsArguments, lcsLoops, from, lcsNodes, adding, high>>
  BY DEF Collect
<1>2. /\ xs' = xs /\ ys' = ys /\ cut' = cut /\ turn' = turn /\ queue' = queue
      /\ list' = list /\ heap' = heap /\ recycle' = recycle
  BY <1>1 DEF lcsArguments, lcsLoops, lcsNodes
<1>3. Len(list) \in Nat /\ list \in Seq(Nat)
  BY DEF LCSTypes
<1>4. idx' \in Seq(Nat) /\ Len(idx') = Len(list)
  BY <1>1, <1>3
<1>5. Pending' = Pending /\ Unsought' = Unsought
  BY <1>1, <1>2 DEF Pending, Unsought
<1>6. \/ Len(list) = 0 /\ chased' = 0
      \/ Len(list) # 0 /\ chased' \in InUse' /\ lev[chased'] = Len(list)
  <2>1. CASE list = << >>
    BY <1>1, <2>1
  <2>2. CASE list # << >>
    <3>1. Len(list) \in 1..Len(list) /\ chased' = list[Len(list)] /\ Len(list) # 0
      <4>1. Len(list) # 0
        BY <1>3, <2>2, EmptySeq
      <4>2. chased' = list[Len(list)]
        BY <1>1, <2>2 DEF Last
      <4> QED
        BY <1>3, <4>1, <4>2
    <3>2. InUse' = InUse
      BY <1>2 DEF InUse, Spare
    <3> QED
      BY <3>1, <3>2 DEF HeapInv, ListInv
  <2> QED
    BY <2>1, <2>2
<1>7. chased' \in Nat
  <2>1. InUse' = InUse
    BY <1>2 DEF InUse, Spare
  <2> QED
    BY <1>6, <2>1, NodesAreTyped DEF NodeTypes
<1>8. LCSTypes'
  BY <1>1, <1>2, <1>3, <1>4, <1>7 DEF LCSTypes
<1>9. ItemsInv' /\ FirstTaken' /\ FindInv'
  BY <1>1, <1>2, <1>5 DEF ItemsInv, FirstTaken, FindInv
<1>10. HeapInv(lev, yy)'
  BY <1>1, <1>2, <1>5, SameHeapKeeps DEF HeapInv, NodesInv
<1>11. SameReach
  BY <1>1, <1>2, <1>5 DEF SameReach, Reach
<1>12. CollectInv(lev, yy, gg)'
  <2>1. Len(list) <= Len(list) /\ \A i \in 1..Len(list) : ~(Len(list) < i)
    BY <1>3
  <2> QED
    BY <1>1, <1>2, <1>4, <1>6, <2>1 DEF CollectInv
<1> QED
  BY <1>8, <1>9, <1>10, <1>11, <1>12, SameReachKeepsAlgorithm

(* The node that lcs has reached, and the one that its chain goes on with. *)
LEMMA ChainGoesOn ==
    ASSUME NEW lev \in [Nat -> Nat], NEW yy \in [Nat -> Nat], NEW gg \in [Nat -> Nat],
           LCSInvWith(lev, yy, gg), Follow
    PROVE  /\ low # 0 /\ low - 1 \in Nat /\ low \in 1..Len(list)
           /\ heap[chased].x \in 1..Len(xs) /\ yy[chased] \in 1..Len(ys)
           /\ xs[heap[chased].x] = ys[yy[chased]] /\ heap[chased].p \in Nat
           /\ \/ heap[chased].p = 0 /\ low - 1 = 0
              \/ /\ low - 1 # 0 /\ heap[chased].p \in InUse /\ lev[heap[chased].p] = low - 1
                 /\ heap[heap[chased].p].x < heap[chased].x /\ yy[heap[chased].p] < yy[chased]
<1> USE DEF LCSInvWith
<1>1. stage = "collect" /\ chased # 0
  BY DEF Follow
<1>2. /\ low # 0 /\ chased \in InUse /\ lev[chased] = low /\ low <= Len(list)
  BY <1>1 DEF CollectInv
<1>3. low \in Nat /\ Len(list) \in Nat
  BY Numbers
<1>4. low - 1 \in Nat /\ low \in 1..Len(list)
  BY <1>2, <1>3
<1>5. Settled = InUse
  BY <1>1 DEF Settled, Changing
<1>6. PICK p : p = heap[chased].p
  OBVIOUS
<1>7. p \in Nat /\ (p \in InUse => heap[p].p \in Nat)
  BY <1>2, <1>6, NodesAreTyped DEF NodeTypes
<1>8. \/ p = 0 /\ low = 1
      \/ p \in InUse /\ low = lev[p] + 1 /\ heap[p].x < heap[chased].x /\ yy[p] < yy[chased]
  BY <1>2, <1>5, <1>6 DEF HeapInv, LinksInv
<1>9. p \in InUse => lev[p] # 0
  <2> SUFFICES ASSUME p \in InUse
               PROVE  lev[p] # 0
    OBVIOUS
  <2>1. PICK q : q = heap[p].p
    OBVIOUS
  <2>2. lev[p] = 1 \/ lev[p] = lev[q] + 1
    BY <1>5, <2>1 DEF HeapInv, LinksInv
  <2>3. q \in Nat
    BY <1>7, <2>1
  <2>4. PICK a, b : a = lev[p] /\ b = lev[q]
    OBVIOUS
  <2>5. b \in Nat
    BY <2>3, <2>4
  <2>6. a = 1 \/ a = b + 1
    BY <2>2, <2>4
  <2>7. a # 0
    BY <2>5, <2>6
  <2> QED
    BY <2>4, <2>7
<1>10. CASE p = 0 /\ low = 1
  <2>1. low - 1 = 0
    BY <1>10
  <2> QED
    BY <1>2, <1>4, <1>6, <1>7, <1>10, <2>1 DEF HeapInv, NodesInv
<1>11. CASE p \in InUse /\ low = lev[p] + 1 /\ heap[p].x < heap[chased].x /\ yy[p] < yy[chased]
  <2>1. PICK a : a = lev[p]
    OBVIOUS
  <2>2. a \in Nat /\ low = a + 1 /\ a # 0
    BY <1>7, <1>9, <1>11, <2>1
  <2>3. low - 1 = a
    BY <2>2
  <2> QED
    BY <1>2, <1>4, <1>6, <1>7, <1>11, <2>1, <2>2, <2>3 DEF HeapInv, NodesInv
<1> QED
  BY <1>8, <1>10, <1>11

(* What comes after a position is the next one or comes after it. *)
LEMMA AfterThat ==
    ASSUME NEW a \in Nat, NEW b \in Nat, b = a + 1, NEW i \in Nat, a < i
    PROVE  i = b \/ b < i
OBVIOUS

(* lcs follows a pointer: the chain gets shorter and the result longer. *)
LEMMA FollowKeeps ==
    ASSUME NEW lev \in [Nat -> Nat], NEW yy \in [Nat -> Nat], NEW gg \in [Nat -> Nat],
           LCSInvWith(lev, yy, gg), Follow
    PROVE  \E gg1 \in [Nat -> Nat] : LCSInvWith(lev, yy, gg1)'
<1> USE DEF LCSInvWith
<1>1. PICK l, p, u, v : /\ l = low - 1 /\ p = heap[chased].p
                        /\ u = heap[chased].x /\ v = yy[chased]
  OBVIOUS
<1>2. /\ stage = "collect" /\ chased # 0 /\ stage' = "collect"
      /\ idx' = [idx EXCEPT ![low] = u] /\ low' = l /\ chased' = p
      /\ UNCHANGED <<lcsArguments, lcsLoops, from, lcsNodes, stage, adding, high>>
  BY <1>1 DEF Follow
<1>3. /\ xs' = xs /\ ys' = ys /\ cut' = cut /\ turn' = turn /\ queue' = queue
      /\ list' = list /\ heap' = heap /\ recycle' = recycle
  BY <1>2 DEF lcsArguments, lcsLoops, lcsNodes
<1>4. /\ low # 0 /\ l \in Nat /\ low \in 1..Len(list) /\ u \in 1..Len(xs) /\ v \in 1..Len(ys)
      /\ xs[u] = ys[v] /\ p \in Nat
      /\ \/ p = 0 /\ l = 0
         \/ l # 0 /\ p \in InUse /\ lev[p] = l /\ heap[p].x < u /\ yy[p] < v
  BY <1>1, ChainGoesOn, Zenon
<1>5. Len(list) \in Nat /\ Len(xs) \in Nat /\ Len(ys) \in Nat /\ low \in Nat
  BY Numbers
<1>6. /\ queue = {} /\ (turn = Len(ys) \/ cut) /\ low <= Len(list) /\ Len(idx) = Len(list)
      /\ \A i \in 1..Len(list) : low < i =>
            /\ idx[i] \in 1..Len(xs) /\ gg[i] \in 1..Len(ys) /\ xs[idx[i]] = ys[gg[i]]
            /\ u < idx[i] /\ v < gg[i]
            /\ \A j \in 1..Len(list) : i < j => idx[i] < idx[j] /\ gg[i] < gg[j]
  BY <1>1, <1>2, <1>4 DEF CollectInv
<1>7. u \in Nat /\ v \in Nat /\ l <= Len(list) /\ low = l + 1
  <2>1. u \in 1..Len(xs) /\ v \in 1..Len(ys) /\ low \in 1..Len(list) /\ l = low - 1
    BY <1>1, <1>4
  <2>2. u \in Nat /\ v \in Nat
    BY <1>5, <2>1
  <2>3. l <= Len(list) /\ low = l + 1
    BY <1>5, <2>1
  <2> QED
    BY <2>2, <2>3
<1>8. Updates(idx', idx, low, u, Nat)
  <2>1. idx \in Seq(Nat) /\ low \in 1..Len(idx)
    BY <1>4, <1>6 DEF LCSTypes
  <2> QED
    BY <1>2, <1>7, <2>1, SeqUpdates
<1>9. /\ idx' \in Seq(Nat) /\ Len(idx') = Len(list) /\ idx'[low] = u
      /\ \A j \in 1..Len(list) : j # low => idx'[j] = idx[j]
  BY <1>6, <1>8 DEF Updates
<1>10. PICK gg1 : gg1 = [gg EXCEPT ![low] = v]
  OBVIOUS
<1>11. gg1 \in [Nat -> Nat] /\ gg1[low] = v /\ \A j \in 1..Len(list) : j # low => gg1[j] = gg[j]
  BY <1>5, <1>7, <1>10
<1>12. LCSTypes'
  BY <1>2, <1>3, <1>4, <1>9 DEF LCSTypes
<1>13. Pending' = Pending /\ Unsought' = Unsought
  BY <1>2, <1>3 DEF Pending, Unsought
<1>14. ItemsInv' /\ FirstTaken' /\ FindInv'
  BY <1>2, <1>3, <1>13 DEF ItemsInv, FirstTaken, FindInv
<1>15. HeapInv(lev, yy)'
  BY <1>2, <1>3, <1>13, SameHeapKeeps DEF HeapInv, NodesInv
<1>16. AlgorithmInv'
  <2>1. SameReach
    BY <1>2, <1>3, <1>13 DEF SameReach, Reach
  <2> QED
    BY <2>1, SameReachKeepsAlgorithm
<1>17. InUse' = InUse
  BY <1>3 DEF InUse, Spare
<1>18. ASSUME NEW i \in 1..Len(list), l < i
       PROVE  /\ idx'[i] \in 1..Len(xs) /\ gg1[i] \in 1..Len(ys) /\ xs[idx'[i]] = ys[gg1[i]]
              /\ l # 0 => heap[p].x < idx'[i] /\ yy[p] < gg1[i]
              /\ \A j \in 1..Len(list) : i < j => idx'[i] < idx'[j] /\ gg1[i] < gg1[j]
  <2>1. i = low \/ low < i
    <3>1. i \in Nat /\ low = l + 1
      BY <1>7
    <3> QED
      BY <1>4, <1>5, <1>18, <3>1, AfterThat
  <2>2. \A j \in 1..Len(list) : low < j => j # low
    BY <1>5
  <2>3. CASE i = low
    <3>1. idx'[i] = u /\ gg1[i] = v
      BY <1>9, <1>11, <2>3
    <3>2. ASSUME NEW j \in 1..Len(list), i < j
          PROVE  u < idx'[j] /\ v < gg1[j]
      BY <1>6, <1>9, <1>11, <2>2, <2>3, <3>2
    <3> QED
      BY <1>4, <3>1, <3>2
  <2>4. CASE low < i
    <3>1. i # low /\ idx'[i] = idx[i] /\ gg1[i] = gg[i]
      BY <1>9, <1>11, <2>2, <2>4
    <3>2. /\ idx[i] \in 1..Len(xs) /\ gg[i] \in 1..Len(ys) /\ xs[idx[i]] = ys[gg[i]]
          /\ u < idx[i] /\ v < gg[i]
          /\ \A j \in 1..Len(list) : i < j => idx[i] < idx[j] /\ gg[i] < gg[j]
      BY <1>6, <2>4
    <3>3. l # 0 => heap[p].x < idx[i] /\ yy[p] < gg[i]
      <4> SUFFICES ASSUME l # 0
                   PROVE  heap[p].x < idx[i] /\ yy[p] < gg[i]
        OBVIOUS
      <4>1. PICK a, b, c, d : a = heap[p].x /\ b = yy[p] /\ c = idx[i] /\ d = gg[i]
        OBVIOUS
      <4>2. a < u /\ b < v /\ u < c /\ v < d
        BY <1>4, <3>2, <4>1
      <4>3. a \in Nat
        BY <1>4, <4>1, NodesAreTyped DEF NodeTypes
      <4>4. b \in Nat
        BY <1>4, <4>1
      <4>5. c \in Nat /\ d \in Nat
        <5>1. c \in 1..Len(xs) /\ d \in 1..Len(ys)
          BY <3>2, <4>1
        <5> QED
          BY <1>5, <5>1
      <4>6. a < c /\ b < d
        BY <1>7, <4>2, <4>3, <4>4, <4>5
      <4> QED
        BY <4>1, <4>6
    <3>4. ASSUME NEW j \in 1..Len(list), i < j
          PROVE  idx'[j] = idx[j] /\ gg1[j] = gg[j]
      <4>1. low < j
        BY <1>5, <2>4, <3>4
      <4> QED
        BY <1>9, <1>11, <2>2, <4>1
    <3> QED
      BY <3>1, <3>2, <3>3, <3>4
  <2> QED
    BY <2>1, <2>3, <2>4
<1>19. CollectInv(lev, yy, gg1)'
  BY <1>2, <1>3, <1>4, <1>6, <1>7, <1>9, <1>17, <1>18 DEF CollectInv
<1> QED
  BY <1>11, <1>12, <1>14, <1>15, <1>16, <1>19

(* At the end of the chain the result is complete. *)
LEMMA FinishedKeeps ==
    ASSUME NEW lev \in [Nat -> Nat], NEW yy \in [Nat -> Nat], NEW gg \in [Nat -> Nat],
           LCSInvWith(lev, yy, gg), Finished
    PROVE  LCSInvWith(lev, yy, gg)'
<1> USE DEF LCSInvWith
<1>1. /\ stage = "collect" /\ chased = 0 /\ stage' = "returned"
      /\ UNCHANGED <<lcsArguments, lcsLoops, from, lcsNodes, adding, low, high, chased, idx>>
  BY DEF Finished
<1>2. /\ xs' = xs /\ ys' = ys /\ cut' = cut /\ turn' = turn /\ queue' = queue
      /\ list' = list /\ heap' = heap /\ recycle' = recycle
  BY <1>1 DEF lcsArguments, lcsLoops, lcsNodes
<1>3. low = 0
  BY <1>1, NodesAreTyped DEF CollectInv, NodeTypes
<1>4. LCSTypes'
  BY <1>1, <1>2 DEF LCSTypes
<1>5. Pending' = Pending /\ Unsought' = Unsought
  BY <1>1, <1>2 DEF Pending, Unsought
<1>6. ItemsInv' /\ FirstTaken' /\ FindInv'
  BY <1>1, <1>2, <1>5 DEF ItemsInv, FirstTaken, FindInv
<1>7. HeapInv(lev, yy)'
  BY <1>1, <1>2, <1>5, SameHeapKeeps DEF HeapInv, NodesInv
<1>8. AlgorithmInv'
  <2>1. SameReach
    BY <1>1, <1>2, <1>5 DEF SameReach, Reach
  <2> QED
    BY <2>1, SameReachKeepsAlgorithm
<1>9. CollectInv(lev, yy, gg)'
  BY <1>1, <1>2, <1>3 DEF CollectInv
<1> QED
  BY <1>4, <1>6, <1>7, <1>8, <1>9

(* The inductive invariant of lcs: there are such levels and indices. *)
LCSInv == \E lev, yy, gg \in [Nat -> Nat] : LCSInvWith(lev, yy, gg)

(* At first there is nothing. *)
LEMMA LCSInitially ==
    ASSUME LCSInit
    PROVE  LCSInv
<1>1. /\ xs \in Words /\ ys \in Words
      /\ turn = 0 /\ queue = {} /\ from = 0
      /\ list = << >> /\ recycle = << >> /\ heap = << >>
      /\ stage = "item" /\ adding = 0 /\ low = 0 /\ high = 0 /\ chased = 0 /\ idx = << >>
  BY DEF LCSInit
<1>2. xs \in Seq(Letters) /\ ys \in Seq(Letters)
  BY <1>1, LCSAssumption
<1>3. Len(ys) \in Nat /\ Len(xs) \in Nat
  BY <1>2
<1>4. Len(list) = 0 /\ Len(recycle) = 0 /\ Len(heap) = 0 /\ 1..0 = {}
  BY <1>1
<1>5. LCSTypes
  <2>1. 0 \in 0..Len(ys) /\ 0 \in 0..0
    BY <1>3
  <2>2. << >> \in Seq(Nat) /\ << >> \in Seq(Node)
    OBVIOUS
  <2> QED
    BY <1>1, <1>2, <1>4, <2>1, <2>2 DEF LCSTypes
<1>6. Pending = {} /\ Unsought = {}
  BY <1>1 DEF Pending, Unsought
<1>7. ItemsInv /\ FirstTaken /\ FindInv /\ FromInv
  BY <1>1, <1>6 DEF ItemsInv, FirstTaken, FindInv, FromInv
<1>8. InUse = {} /\ Settled = {}
  BY <1>4 DEF InUse, Settled
<1>9. PICK z : z = [n \in Nat |-> 0]
  OBVIOUS
<1>10. z \in [Nat -> Nat]
  BY <1>9
<1>11. HeapInv(z, z)
  <2>1. NodesInv(z, z) /\ LinksInv(z, z) /\ CountInv /\ SharedInv
    BY <1>8 DEF NodesInv, LinksInv, CountInv, SharedInv
  <2>2. ListInv(z) /\ RecycleInv
    BY <1>4 DEF ListInv, RecycleInv
  <2>3. FreeInv(z)
    BY <1>1 DEF FreeInv
  <2> QED
    BY <2>1, <2>2, <2>3 DEF HeapInv
<1>12. CollectInv(z, z, z)
  BY <1>1 DEF CollectInv
<1>13. EarlierInv /\ ThisInv
  <2> SUFFICES ASSUME NEW k \in Nat \ {0}, NEW f \in Picks(k, Len(xs)), NEW g \in Picks(k, Len(ys)),
                      g[k] <= 0
               PROVE  FALSE
    <3>1. ASSUME NEW k \in Nat \ {0}, NEW f \in Picks(k, Len(xs)), NEW g \in Picks(k, Len(ys))
          PROVE  ~(g[k] < 0) /\ g[k] # 0
      <4>1. PICK v : v = g[k]
        OBVIOUS
      <4>2. v \in 1..Len(ys)
        BY <1>3, <4>1, PicksAt
      <4>3. ~(v < 0) /\ v # 0
        BY <1>3, <4>2
      <4> QED
        BY <4>1, <4>3
    <3> QED
      BY <1>1, <3>1 DEF EarlierInv, ThisInv
  <2>1. PICK v : v = g[k]
    OBVIOUS
  <2>2. v \in 1..Len(ys) /\ v <= 0
    BY <1>3, <2>1, PicksAt
  <2> QED
    BY <1>3, <2>2
<1> QED
  BY <1>5, <1>7, <1>10, <1>11, <1>12, <1>13 DEF LCSInv, LCSInvWith, AlgorithmInv

(* Every step of lcs keeps the invariant. *)
LEMMA LCSStep ==
    ASSUME LCSInv, [LCSNext]_lcsVars
    PROVE  LCSInv'
<1>1. PICK lev \in [Nat -> Nat], yy \in [Nat -> Nat], gg \in [Nat -> Nat] : LCSInvWith(lev, yy, gg)
  BY DEF LCSInv
<1> SUFFICES \E lev1, yy1, gg1 \in [Nat -> Nat] : LCSInvWith(lev1, yy1, gg1)'
  BY DEF LCSInv
<1>2. CASE CutShort
  BY <1>1, <1>2, CutShortKeeps
<1>3. CASE NextItem
  BY <1>1, <1>3, NextItemKeeps
<1>4. CASE NextPosition
  BY <1>1, <1>4, NextPositionKeeps
<1>5. CASE Probe
  BY <1>1, <1>5, ProbeKeeps
<1>6. CASE Extend
  BY <1>1, <1>6, ExtendKeeps
<1>7. CASE Begin
  BY <1>1, <1>7, BeginKeeps
<1>8. CASE Free
  BY <1>1, <1>8, FreeKeeps
<1>9. CASE Relink
  BY <1>1, <1>9, RelinkKeeps
<1>10. CASE Collect
  BY <1>1, <1>10, CollectKeeps
<1>11. CASE Follow
  BY <1>1, <1>11, FollowKeeps
<1>12. CASE Finished
  BY <1>1, <1>12, FinishedKeeps
<1>13. CASE UNCHANGED lcsVars
  <2>1. /\ xs' = xs /\ ys' = ys /\ list' = list /\ heap' = heap /\ recycle' = recycle
        /\ turn' = turn /\ queue' = queue /\ from' = from /\ stage' = stage /\ adding' = adding
        /\ low' = low /\ high' = high /\ chased' = chased /\ idx' = idx /\ cut' = cut
    BY <1>13 DEF lcsVars, lcsArguments, lcsLoops, lcsNodes
  <2>2. InUse' = InUse /\ Settled' = Settled /\ \A n : Holders(n)' = Holders(n) /\ Owed(n)' = Owed(n)
    BY <2>1 DEF InUse, Spare, Settled, Changing, Holders, Owed
  <2>3. Pending' = Pending /\ Before' = Before /\ Unsought' = Unsought
    BY <2>1 DEF Pending, Before, Unsought
  <2>4. LCSTypes' /\ ItemsInv' /\ FirstTaken' /\ FindInv'
    BY <1>1, <2>1, <2>3 DEF LCSInvWith, LCSTypes, ItemsInv, FirstTaken, FindInv
  <2>5. NodesInv(lev, yy)' /\ LinksInv(lev, yy)' /\ ListInv(lev)'
    BY <1>1, <2>1, <2>2, <2>3 DEF LCSInvWith, HeapInv, NodesInv, LinksInv, ListInv
  <2>6. RecycleInv' /\ CountInv' /\ SharedInv' /\ FreeInv(lev)'
    BY <1>1, <2>1, <2>2, <2>3 DEF LCSInvWith, HeapInv, RecycleInv, CountInv, SharedInv, FreeInv
  <2>7. AlgorithmInv'
    <3>1. SameReach
      BY <2>1, <2>3 DEF SameReach, Reach
    <3> QED
      BY <1>1, <3>1, SameReachKeepsAlgorithm DEF LCSInvWith
  <2>8. CollectInv(lev, yy, gg)'
    BY <1>1, <2>1, <2>2 DEF LCSInvWith, CollectInv
  <2> QED
    BY <1>1, <2>4, <2>5, <2>6, <2>7, <2>8 DEF LCSInvWith, HeapInv
<1> QED
  BY <1>2, <1>3, <1>4, <1>5, <1>6, <1>7, <1>8, <1>9, <1>10, <1>11, <1>12, <1>13 DEF LCSNext

(* The invariant says that the result is right. *)
LEMMA LCSResult ==
    ASSUME LCSInv
    PROVE  LCSCorrect
<1>1. PICK lev \in [Nat -> Nat], yy \in [Nat -> Nat], gg \in [Nat -> Nat] : LCSInvWith(lev, yy, gg)
  BY DEF LCSInv
<1> USE <1>1 DEF LCSInvWith
<1>2. /\ low \in Nat /\ Len(list) \in Nat /\ turn \in Nat /\ Len(xs) \in Nat /\ Len(ys) \in Nat
  BY Numbers
<1>3. stage = "collect" /\ chased # 0 => low > 0
  BY <1>2 DEF CollectInv
<1>4. ASSUME stage = "returned"
      PROVE  LET k == Len(idx) IN
             /\ idx \in Picks(k, Len(xs))
             /\ \E g \in Picks(k, Len(ys)) : SameLetters(idx, g)
             /\ turn = Len(ys) =>
                  \A f \in Picks(k + 1, Len(xs)), g \in Picks(k + 1, Len(ys)) : ~SameLetters(f, g)
  <2>1. PICK k : k = Len(idx)
    OBVIOUS
  <2>2. /\ queue = {} /\ low = 0 /\ k = Len(list)
        /\ \A i \in 1..Len(list) : low < i =>
              /\ idx[i] \in 1..Len(xs) /\ gg[i] \in 1..Len(ys) /\ xs[idx[i]] = ys[gg[i]]
              /\ \A j \in 1..Len(list) : i < j => idx[i] < idx[j] /\ gg[i] < gg[j]
    BY <1>4, <2>1 DEF CollectInv
  <2>3. k \in Nat /\ \A i \in 1..k : low < i
    BY <1>2, <2>2
  <2>4. \A i \in 1..k :
              /\ idx[i] \in 1..Len(xs) /\ gg[i] \in 1..Len(ys) /\ xs[idx[i]] = ys[gg[i]]
              /\ \A j \in 1..k : i < j => idx[i] < idx[j] /\ gg[i] < gg[j]
    BY <2>2, <2>3
  <2>5. idx \in [1..k -> 1..Len(xs)] /\ DOMAIN idx = 1..k
    <3>1. idx \in Seq(Nat)
      BY DEF LCSTypes
    <3>2. idx \in [1..k -> Nat]
      BY <2>1, <3>1, LenProperties
    <3> QED
      BY <2>4, <3>2
  <2>6. idx \in Picks(k, Len(xs))
    BY <2>4, <2>5 DEF Picks
  <2>7. PICK g : g = [i \in 1..k |-> gg[i]]
    OBVIOUS
  <2>8. g \in Picks(k, Len(ys)) /\ SameLetters(idx, g)
    BY <2>4, <2>5, <2>7 DEF Picks, SameLetters
  <2>9. ASSUME turn = Len(ys), NEW f \in Picks(k + 1, Len(xs)), NEW h \in Picks(k + 1, Len(ys)),
               SameLetters(f, h)
        PROVE  FALSE
    <3>1. PICK q, v : q = k + 1 /\ v = h[q]
      OBVIOUS
    <3>2. q \in Nat \ {0} /\ ~(q <= k) /\ k < q
      BY <2>3, <3>1
    <3>3. f \in Picks(q, Len(xs)) /\ h \in Picks(q, Len(ys))
      BY <3>1
    <3>4. v \in 1..Len(ys)
      BY <1>2, <3>1, <3>2, <3>3, PicksAt
    <3>5. v < turn \/ v = turn
      BY <1>2, <2>9, <3>4
    <3>6. Len(list) <= q + Len(ys) - turn /\ Len(list) < q + Len(ys) - turn
      BY <1>2, <2>2, <2>3, <2>9, <3>2
    <3>7. Unsought = {}
      BY <1>4, <2>2 DEF Unsought
    <3>8. Reached(q, f)
      <4>1. CASE v < turn
        BY <2>9, <3>1, <3>2, <3>3, <3>6, <4>1 DEF AlgorithmInv, EarlierInv
      <4>2. CASE v = turn
        BY <2>9, <3>1, <3>2, <3>3, <3>6, <3>7, <4>2 DEF AlgorithmInv, ThisInv
      <4> QED
        BY <3>5, <4>1, <4>2
    <3> QED
      BY <2>2, <3>2, <3>8 DEF Reached
  <2> QED
    BY <2>1, <2>6, <2>8, <2>9
<1> QED
  BY <1>3, <1>4 DEF LCSCorrect

(* What lcs returns is a common subsequence of its arguments, and unless   *)
(* its context ended there is none that is longer: for any words, however  *)
(* the nodes of its chains were shared, counted, changed and recycled, and *)
(* whatever positions it left out.  The chain has the length of the list.  *)
THEOREM LongestIsFound == LCSSpec => []LCSCorrect
<1>1. LCSInit => LCSInv
  BY LCSInitially
<1>2. LCSInv /\ [LCSNext]_lcsVars => LCSInv'
  BY LCSStep
<1>3. LCSInv => LCSCorrect
  BY LCSResult
<1> QED
  BY <1>1, <1>2, <1>3, PTL DEF LCSSpec

-----------------------------------------------------------------------------
(* Pool *)

(* Whoever has an element uses it. *)
UsersHold == \A w \in Borrowers : elem[w] # Nil => borrower[w] = "uses"

SlotsConserved == Len(channel) + Cardinality(Busy) + spent = Limit

(* The inductive invariant of the pool. *)
PoolInv == PoolTypeOK /\ OnePlace /\ UsersHold /\ SlotsConserved

USE PoolAssumption DEF Nil, NotCleaning

(* The goroutines in Get's create, or with an element, are finitely many.   *)
LEMMA BusyCount ==
    /\ IsFiniteSet(Busy) /\ Cardinality(Busy) \in Nat
    /\ \A w \in Busy : Cardinality(Busy \ {w}) = Cardinality(Busy) - 1
    /\ \A w \in Borrowers \ Busy : Cardinality(Busy \cup {w}) = Cardinality(Busy) + 1
<1>1. IsFiniteSet(Busy)
  BY FS_Subset DEF Busy
<1> QED
  BY <1>1, FS_CardinalityType, FS_AddElement, FS_RemoveElement

(* Head and Tail of a channel that is not empty, element by element. *)
LEMMA Received ==
    ASSUME PoolTypeOK, channel # << >>
    PROVE  /\ Len(channel) \in Nat \ {0}
           /\ Head(channel) = channel[1]
           /\ Tail(channel) \in Seq(0..created)
           /\ Len(Tail(channel)) = Len(channel) - 1
           /\ \A i \in 1..(Len(channel) - 1) : Tail(channel)[i] = channel[i + 1]
           /\ channel[1] \in 0..created
           /\ ToSet(channel) = ToSet(Tail(channel)) \cup {channel[1]}
<1> USE DEF PoolTypeOK
<1>1. /\ Len(channel) \in Nat \ {0}
      /\ Head(channel) = channel[1]
      /\ Tail(channel) \in Seq(0..created)
      /\ Len(Tail(channel)) = Len(channel) - 1
      /\ \A i \in 1..(Len(channel) - 1) : Tail(channel)[i] = channel[i + 1]
      /\ channel[1] \in 0..created
  OBVIOUS
<1>2. \A i \in 2..Len(channel) : i - 1 \in 1..(Len(channel) - 1) /\ Tail(channel)[i - 1] = channel[i]
  BY <1>1
<1>3. ToSet(channel) \subseteq ToSet(Tail(channel)) \cup {channel[1]}
  <2> SUFFICES ASSUME NEW i \in DOMAIN channel, i # 1
               PROVE  channel[i] \in ToSet(Tail(channel))
    BY DEF ToSet
  <2>1. i \in 2..Len(channel)
    BY <1>1
  <2>2. i - 1 \in DOMAIN Tail(channel)
    BY <1>1, <2>1
  <2> QED
    BY <1>2, <2>1, <2>2 DEF ToSet
<1>4. ToSet(Tail(channel)) \cup {channel[1]} \subseteq ToSet(channel)
  BY <1>1 DEF ToSet
<1> QED
  BY <1>1, <1>3, <1>4

LEMMA PutBack ==
    ASSUME NEW s \in Seq(Nat), NEW x \in Nat
    PROVE  ToSet(Append(s, x)) = ToSet(s) \cup {x}
<1>1. ToSet(Append(s, x)) \subseteq ToSet(s) \cup {x}
  BY DEF ToSet
<1>2. ToSet(s) \subseteq ToSet(Append(s, x))
  BY DEF ToSet
<1>3. x \in ToSet(Append(s, x))
  <2>1. Len(s) + 1 \in DOMAIN Append(s, x) /\ Append(s, x)[Len(s) + 1] = x
    OBVIOUS
  <2> QED
    BY <2>1 DEF ToSet
<1> QED
  BY <1>1, <1>2, <1>3

LEMMA GetKeeps ==
    ASSUME PoolInv, NEW w \in Borrowers, Get(w)
    PROVE  PoolInv'
<1> USE DEF PoolInv, Get, Moves
<1> DEFINE x == channel[1]
<1>1. PoolTypeOK'
  BY Received DEF PoolTypeOK
<1>2. elem[w] = Nil /\ elem' = [elem EXCEPT ![w] = x] /\ elem \in [Borrowers -> 0..created]
  BY Received DEF UsersHold, PoolTypeOK
<1>3. x # Nil => x \notin ToSet(channel')
  BY Received DEF OnePlace, ToSet
<1>4. \A v \in Borrowers : elem[v] # Nil => elem[v] # x
  BY Received DEF OnePlace, ToSet
<1>5. OnePlace'
  <2>1. \A i, j \in 1..Len(channel') : channel'[i] = channel'[j] /\ channel'[i] # Nil => i = j
    BY Received DEF OnePlace
  <2>2. \A u, v \in Borrowers : elem'[u] = elem'[v] /\ elem'[u] # Nil => u = v
    BY <1>2, <1>4 DEF OnePlace
  <2>3. \A v \in Borrowers : elem'[v] # Nil => elem'[v] \notin ToSet(channel')
    BY <1>2, <1>3, Received DEF OnePlace
  <2>4. {elem'[v] : v \in Borrowers} \ {Nil} = ({elem[v] : v \in Borrowers} \cup {x}) \ {Nil}
    BY <1>2
  <2>5. Live' = (ToSet(channel') \cup {elem'[v] : v \in Borrowers}) \ {Nil}
    BY <2>4, Received DEF OnePlace, Live
  <2> QED
    BY <2>1, <2>2, <2>3, <2>5 DEF OnePlace
<1>6. UsersHold'
  BY <1>2 DEF UsersHold, PoolTypeOK
<1>7. SlotsConserved'
  <2>1. w \notin Busy /\ Busy' = Busy \cup {w}
    BY DEF Busy, PoolTypeOK
  <2> QED
    <3>1. Cardinality(Busy') = Cardinality(Busy) + 1 /\ Cardinality(Busy) \in Nat
      BY <2>1, BusyCount
    <3>2. Len(channel') = Len(channel) - 1 /\ Len(channel) \in Nat /\ spent' = spent /\ spent \in Nat
      BY Received DEF PoolTypeOK
    <3> QED
      BY <3>1, <3>2 DEF SlotsConserved
<1> QED
  BY <1>1, <1>5, <1>6, <1>7

LEMMA CreateKeeps ==
    ASSUME PoolInv, NEW w \in Borrowers, Create(w)
    PROVE  PoolInv'
<1> USE DEF PoolInv, Create, Moves
<1>1. PoolTypeOK'
  BY DEF PoolTypeOK
<1>2. /\ elem[w] = Nil /\ elem' = [elem EXCEPT ![w] = created + 1]
      /\ elem \in [Borrowers -> 0..created]
      /\ \A i \in 1..Len(channel) : channel[i] \in 0..created
  BY DEF UsersHold, PoolTypeOK
<1>3. created + 1 \notin ToSet(channel)
  BY <1>2 DEF PoolTypeOK, ToSet
<1>4. OnePlace'
  <2>1. {elem'[v] : v \in Borrowers} \ {Nil} = ({elem[v] : v \in Borrowers} \ {Nil}) \cup {created + 1}
    BY <1>2 DEF PoolTypeOK
  <2>2. Live' = Live \cup {created + 1}
    BY DEF Live, PoolTypeOK
  <2>3. Live' = (ToSet(channel') \cup {elem'[v] : v \in Borrowers}) \ {Nil}
    BY <2>1, <2>2, <1>3 DEF OnePlace, PoolTypeOK
  <2>4. \A u, v \in Borrowers : elem'[u] = elem'[v] /\ elem'[u] # Nil => u = v
    BY <1>2 DEF OnePlace, PoolTypeOK
  <2> QED
    BY <1>2, <1>3, <2>3, <2>4 DEF OnePlace
<1>5. UsersHold'
  BY <1>2 DEF UsersHold, PoolTypeOK
<1>6. SlotsConserved'
  <2>1. Busy' = Busy
    BY DEF Busy, PoolTypeOK
  <2> QED
    BY <2>1 DEF SlotsConserved
<1> QED
  BY <1>1, <1>4, <1>5, <1>6

LEMMA CreateFailsKeeps ==
    ASSUME PoolInv, NEW w \in Borrowers, CreateFails(w)
    PROVE  PoolInv'
<1> USE DEF PoolInv, CreateFails, Moves
<1>1. PoolTypeOK'
  BY SMTT(30) DEF PoolTypeOK
<1>2. OnePlace' /\ UsersHold'
  BY DEF OnePlace, UsersHold, Live, PoolTypeOK
<1>3. SlotsConserved'
  <2>1. w \in Busy /\ Busy' \in {Busy, Busy \ {w}} /\ (spent' = spent <=> Busy' = Busy)
    BY DEF Busy, PoolTypeOK
  <2>2. spent' \in {spent, spent + 1} /\ spent \in Nat /\ Len(channel) \in Nat
    BY DEF PoolTypeOK
  <2> QED
    BY <2>1, <2>2, BusyCount DEF SlotsConserved
<1> QED
  BY <1>1, <1>2, <1>3

LEMMA PutKeeps ==
    ASSUME PoolInv, NEW w \in Borrowers, Put(w)
    PROVE  PoolInv'
<1> USE DEF PoolInv, Put, Moves
<1>1. PoolTypeOK'
  BY DEF PoolTypeOK
<1>2. /\ elem \in [Borrowers -> 0..created] /\ elem' = [elem EXCEPT ![w] = Nil]
      /\ channel \in Seq(Nat) /\ created \in Nat /\ elem[w] \in 0..created
  BY DEF PoolTypeOK
<1>3. ToSet(channel') = ToSet(channel) \cup {elem[w]}
  BY <1>2, PutBack
<1>4. OnePlace'
  <2>1. \A i \in 1..Len(channel) : channel'[i] = channel[i] /\ channel[i] \in ToSet(channel)
    BY <1>2 DEF ToSet
  <2>2. Len(channel') = Len(channel) + 1 /\ channel'[Len(channel) + 1] = elem[w]
    BY <1>2
  <2>3. \A i, j \in 1..Len(channel') : channel'[i] = channel'[j] /\ channel'[i] # Nil => i = j
    BY <1>2, <2>1, <2>2 DEF OnePlace
  <2>4. {elem'[v] : v \in Borrowers} \cup {elem[w], Nil} = {elem[v] : v \in Borrowers} \cup {Nil}
    BY <1>2
  <2>5. Live' = (ToSet(channel') \cup {elem'[v] : v \in Borrowers}) \ {Nil}
    BY <1>3, <2>4 DEF OnePlace, Live
  <2>6. \A v \in Borrowers : elem'[v] # Nil => elem'[v] \notin ToSet(channel')
    BY <1>2, <1>3 DEF OnePlace
  <2>7. \A u, v \in Borrowers : elem'[u] = elem'[v] /\ elem'[u] # Nil => u = v
    BY <1>2 DEF OnePlace
  <2> QED
    BY <2>3, <2>5, <2>6, <2>7 DEF OnePlace
<1>5. UsersHold'
  BY <1>2 DEF UsersHold, PoolTypeOK
<1>6. SlotsConserved'
  <2>1. w \in Busy /\ Busy' = Busy \ {w}
    BY DEF Busy, PoolTypeOK
  <2>2. Cardinality(Busy') = Cardinality(Busy) - 1 /\ Cardinality(Busy) \in Nat
    BY <2>1, BusyCount
  <2>3. Len(channel') = Len(channel) + 1 /\ Len(channel) \in Nat /\ spent \in Nat /\ spent' = spent
    BY DEF PoolTypeOK
  <2> QED
    BY <2>2, <2>3 DEF SlotsConserved
<1> QED
  BY <1>1, <1>4, <1>5, <1>6

LEMMA CleanupKeeps ==
    ASSUME PoolInv, Cleanup
    PROVE  PoolInv'
<1> USE DEF PoolInv, Cleanup
<1>1. PoolTypeOK'
  BY DEF PoolTypeOK
<1> QED
  BY <1>1 DEF OnePlace, UsersHold, SlotsConserved, Live, Busy

LEMMA CleanupReceiveKeeps ==
    ASSUME PoolInv, CleanupReceive
    PROVE  PoolInv'
<1> USE DEF PoolInv
<1>1. /\ UNCHANGED <<borrower, elem, created>> /\ Busy' = Busy
      /\ cleanup' \in 0..NotCleaning /\ spent \in Nat /\ Cardinality(Busy) \in Nat
      /\ elem \in [Borrowers -> 0..created] /\ created \in Nat
  BY BusyCount DEF PoolTypeOK, Busy, CleanupReceive
<1>2. CASE UNCHANGED <<channel, cleaned, spent>>
  <2>1. PoolTypeOK'
    BY <1>1, <1>2 DEF PoolTypeOK
  <2>2. OnePlace'
    BY <1>1, <1>2 DEF OnePlace, Live
  <2> QED
    BY <1>1, <1>2, <2>1, <2>2 DEF UsersHold, SlotsConserved
<1>3. CASE /\ channel # << >>
           /\ channel' = Tail(channel)
           /\ cleaned' = cleaned \cup ({Head(channel)} \ {Nil})
           /\ spent' = spent + 1
  <2> DEFINE x == channel[1]
  <2>1. x \in 0..created /\ cleaned' = cleaned \cup ({x} \ {Nil})
    BY <1>3, Received
  <2>2. PoolTypeOK'
    <3>1. cleaned' \subseteq 1..created
      <4>1. x # Nil => x \in 1..created
        BY <1>1, <2>1
      <4>2. cleaned \subseteq 1..created
        BY DEF PoolTypeOK
      <4> HIDE DEF x
      <4> QED
        BY <2>1, <4>1, <4>2
    <3>2. channel' \in Seq(0..created)
      BY <1>3, Received
    <3>3. borrower \in [Borrowers -> {"idle", "creates", "uses", "failed"}]
      BY DEF PoolTypeOK
    <3> QED
      BY <1>1, <1>3, <3>1, <3>2, <3>3 DEF PoolTypeOK
  <2>3. x # Nil => x \notin ToSet(channel')
    BY <1>3, Received DEF OnePlace, ToSet
  <2>4. \A v \in Borrowers : elem[v] # Nil => elem[v] # x
    BY <1>3, Received DEF OnePlace, ToSet
  <2>5. Live' = Live \ {x}
    BY <1>1, <2>1 DEF Live
  <2>6. ToSet(channel) = ToSet(channel') \cup {x}
    BY <1>3, Received
  <2>7. Live' = (ToSet(channel') \cup {elem[v] : v \in Borrowers}) \ {Nil}
    <3>1. Live = (ToSet(channel) \cup {elem[v] : v \in Borrowers}) \ {Nil}
      BY DEF OnePlace
    <3>2. x # Nil => x \notin {elem[v] : v \in Borrowers}
      BY <2>4
    <3> HIDE DEF x
    <3> QED
      BY <3>1, <3>2, <2>3, <2>5, <2>6
  <2>8. \A i, j \in 1..Len(channel') : channel'[i] = channel'[j] /\ channel'[i] # Nil => i = j
    BY <1>3, Received DEF OnePlace
  <2>9. \A v \in Borrowers : elem[v] # Nil => elem[v] \notin ToSet(channel')
    BY <2>6 DEF OnePlace
  <2>10. OnePlace'
    BY <1>1, <2>7, <2>8, <2>9 DEF OnePlace
  <2>11. SlotsConserved'
    <3>1. Len(channel') = Len(channel) - 1 /\ Len(channel) \in Nat
      BY <1>3, Received
    <3> QED
      BY <1>1, <1>3, <3>1 DEF SlotsConserved
  <2> QED
    BY <1>1, <2>2, <2>10, <2>11 DEF UsersHold
<1> QED
  BY <1>2, <1>3 DEF CleanupReceive

LEMMA PoolInvBegins == PoolInit => PoolInv
<1> SUFFICES ASSUME PoolInit
             PROVE  PoolInv
  OBVIOUS
<1> USE DEF PoolInit
<1>1. PoolTypeOK /\ Len(channel) = Limit
  BY DEF PoolTypeOK
<1>2. Busy = {} /\ Cardinality(Busy) = 0
  BY FS_EmptySet DEF Busy
<1>3. OnePlace
  <2>1. Live = {}
    BY DEF Live
  <2>2. ToSet(channel) \subseteq {Nil} /\ {elem[w] : w \in Borrowers} \subseteq {Nil}
    BY DEF ToSet
  <2> QED
    BY <1>1, <2>1, <2>2 DEF OnePlace
<1> QED
  BY <1>1, <1>2, <1>3 DEF PoolInv, UsersHold, SlotsConserved

LEMMA PoolInvStep == PoolInv /\ [PoolNext]_poolVars => PoolInv'
<1> SUFFICES ASSUME PoolInv, [PoolNext]_poolVars
             PROVE  PoolInv'
  OBVIOUS
<1>1. CASE UNCHANGED poolVars
  BY <1>1 DEF poolVars, PoolInv, PoolTypeOK, OnePlace, UsersHold, SlotsConserved, Live, Busy
<1> QED
  BY <1>1, GetKeeps, CreateKeeps, CreateFailsKeeps, PutKeeps, CleanupKeeps, CleanupReceiveKeeps
  DEF PoolNext

(* There is a slot for each element that is alive. *)
LEMMA LiveBound == PoolInv => Cardinality(Live) <= Limit
<1> SUFFICES ASSUME PoolInv
             PROVE  Cardinality(Live) <= Limit
  OBVIOUS
<1> DEFINE waiting == ToSet(channel)
           used == [w \in Busy |-> elem[w]]
           taken == {elem[w] : w \in Busy}
<1>1. Len(channel) \in Nat /\ spent \in Nat /\ DOMAIN channel = 1..Len(channel)
  BY DEF PoolInv, PoolTypeOK
<1>2. IsFiniteSet(waiting) /\ Cardinality(waiting) <= Len(channel)
  <2>1. channel \in Surjection(1..Len(channel), waiting)
    BY <1>1 DEF Surjection, ToSet, PoolInv, PoolTypeOK
  <2>2. IsFiniteSet(1..Len(channel)) /\ Cardinality(1..Len(channel)) = Len(channel)
    <3>1. 1 \in Int /\ Len(channel) \in Int
      BY <1>1
    <3>2. /\ IsFiniteSet(1..Len(channel))
          /\ Cardinality(1..Len(channel)) = IF 1 > Len(channel) THEN 0 ELSE Len(channel) - 1 + 1
      BY <3>1, FS_Interval, Zenon
    <3> QED
      BY <1>1, <3>2
  <2> QED
    BY <2>1, <2>2, FS_Surjection
<1>3. IsFiniteSet(taken) /\ Cardinality(taken) <= Cardinality(Busy)
  <2>1. used \in Surjection(Busy, taken)
    BY DEF Surjection
  <2> QED
    BY <2>1, BusyCount, FS_Surjection
<1>4. Live \subseteq waiting \cup taken
  BY DEF PoolInv, OnePlace, UsersHold, Busy
<1>5. /\ IsFiniteSet(waiting \cup taken)
      /\ Cardinality(waiting \cup taken) <= Cardinality(waiting) + Cardinality(taken)
  <2>1. /\ Cardinality(waiting \cap taken) \in Nat
        /\ Cardinality(waiting) \in Nat /\ Cardinality(taken) \in Nat
    BY <1>2, <1>3, FS_Intersection, FS_CardinalityType
  <2>2. /\ IsFiniteSet(waiting \cup taken)
        /\ Cardinality(waiting \cup taken) =
             Cardinality(waiting) + Cardinality(taken) - Cardinality(waiting \cap taken)
    BY <1>2, <1>3, FS_Union, Zenon
  <2> HIDE DEF waiting, taken
  <2> QED
    BY <2>1, <2>2
<1>6. Cardinality(Live) <= Cardinality(waiting \cup taken)
  BY <1>4, <1>5, FS_Subset
<1>7. /\ Cardinality(Live) \in Nat /\ Cardinality(waiting \cup taken) \in Nat
      /\ Cardinality(waiting) \in Nat /\ Cardinality(taken) \in Nat
  BY <1>2, <1>3, <1>4, <1>5, FS_Subset, FS_CardinalityType
<1> QED
  BY <1>1, <1>2, <1>3, <1>5, <1>6, <1>7, BusyCount DEF PoolInv, SlotsConserved

(* The pool shares no element, conserves its slots, never has more elements *)
(* than Limit, and Put finds room, however many goroutines borrow from it   *)
(* while another cleans it up (utils.go:96-130).                            *)
THEOREM PoolIsSound == PoolSpec => []PoolSound
<1>1. PoolInv => PoolSound
  <2> SUFFICES ASSUME PoolInv, NEW w \in Borrowers, borrower[w] = "uses"
               PROVE  Len(channel) < Limit
    BY LiveBound DEF PoolInv, PoolSound, SlotsConserved
  <2>1. w \in Busy
    BY DEF Busy
  <2>2. Cardinality(Busy) # 0
    BY <2>1, BusyCount, FS_EmptySet
  <2> QED
    BY <2>2, BusyCount DEF PoolInv, SlotsConserved, PoolTypeOK
<1> QED
  BY <1>1, PoolInvBegins, PoolInvStep, PTL DEF PoolSpec

HIDE PoolAssumption DEF Nil, NotCleaning

-----------------------------------------------------------------------------
(* StreamReader *)

USE StreamAssumption

(* What the caller has read and what waits in the buffer. *)
Arrived == got \o buf

Increasing(s) == \A i \in 1..(Len(s) - 1) : s[i] < s[i + 1]

(* The inductive invariant of the reader: without an Offset, what arrived   *)
(* is the stream up to the browser's position; after an error or a piece    *)
(* that was dropped, it is in order, still.                                 *)
StreamInv ==
    /\ StreamTypeOK /\ Offset \in Offsets
    /\ reading = "eof" => buf = << >>
    /\ Offset = NoOffset =>
         /\ reading # "error" /\ ~odd => Arrived = Piece(0, position)
         /\ reading = "eof" /\ ~odd => position = Size
         /\ Increasing(Arrived)
         /\ \A i \in 1..Len(Arrived) : Arrived[i] <= position

LEMMA Regrouped ==
    ASSUME NEW a \in Seq(1..Size), NEW b \in Seq(1..Size), NEW c \in Seq(1..Size)
    PROVE  (a \o b) \o c = a \o (b \o c)
BY ConcatAssociative

LEMMA PieceIs ==
    ASSUME NEW first \in 0..Size, NEW to \in first..Size
    PROVE  /\ Piece(first, to) \in Seq(1..Size) /\ Len(Piece(first, to)) = to - first
           /\ \A i \in 1..(to - first) : Piece(first, to)[i] = first + i
<1>1. to - first \in Nat
  OBVIOUS
<1>2. Piece(first, to) \in [1..(to - first) -> 1..Size]
  BY DEF Piece
<1> QED
  BY <1>1, <1>2 DEF Piece

LEMMA PiecesJoin ==
    ASSUME NEW at \in 0..Size, NEW to \in at..Size
    PROVE  Piece(0, at) \o Piece(at, to) = Piece(0, to)
<1> DEFINE a == Piece(0, at)
           b == Piece(at, to)
           c == Piece(0, to)
<1>1. 0 \in 0..Size /\ at \in 0..Size /\ to \in 0..Size /\ to \in at..Size
  OBVIOUS
<1>2. /\ a \in Seq(1..Size) /\ Len(a) = at - 0 /\ \A i \in 1..(at - 0) : a[i] = 0 + i
      /\ b \in Seq(1..Size) /\ Len(b) = to - at /\ \A i \in 1..(to - at) : b[i] = at + i
      /\ c \in Seq(1..Size) /\ Len(c) = to - 0 /\ \A i \in 1..(to - 0) : c[i] = 0 + i
  <2>1. at \in 0..Size /\ to \in 0..Size /\ to \in at..Size
    BY <1>1
  <2> QED
    BY <1>1, <2>1, PieceIs
<1> HIDE DEF a, b, c
<1>3. /\ a \o b \in Seq(1..Size) /\ Len(a \o b) = to
      /\ \A i \in 1..to : (a \o b)[i] = IF i <= at THEN a[i] ELSE b[i - at]
  <2>1. /\ a \o b \in Seq(1..Size) /\ Len(a \o b) = Len(a) + Len(b)
        /\ \A i \in 1..(Len(a) + Len(b)) : (a \o b)[i] = IF i <= Len(a) THEN a[i] ELSE b[i - Len(a)]
    BY <1>2, ConcatProperties
  <2>2. Len(a) = at /\ Len(a) + Len(b) = to
    BY <1>2
  <2> QED
    BY <2>1, <2>2
<1>4. \A i \in 1..to : (a \o b)[i] = c[i]
  <2> SUFFICES ASSUME NEW i \in 1..to
               PROVE  (a \o b)[i] = i
    BY <1>2
  <2>1. CASE i <= at
    BY <1>2, <1>3, <2>1
  <2>2. CASE ~(i <= at)
    <3>1. i - at \in 1..(to - at) /\ at + (i - at) = i
      BY <2>2
    <3> QED
      BY <1>2, <1>3, <2>2, <3>1
  <2> QED
    BY <2>1, <2>2
<1>5. a \o b = c
  <2>1. Len(c) = to
    BY <1>2
  <2> QED
    BY <1>2, <1>3, <1>4, <2>1, SeqEqual
<1> QED
  BY <1>5 DEF a, b, c

(* Whatever Buffer.Read takes out of the buffer goes to the caller, and an  *)
(* empty buffer is the end.                                                 *)
LEMMA ReadBufferKeeps ==
    ASSUME StreamTypeOK, NEW buffer \in Seq(1..Size), NEW n \in Nat, ReadBuffer(buffer, n),
           buffer = << >> => buf = << >>
    PROVE  /\ Arrived' = got \o buffer
           /\ got' \in Seq(1..Size) /\ buf' \in Seq(1..Size)
           /\ reading' = "eof" => (buffer = << >> /\ buf' = << >>) \/ reading = "eof"
           /\ reading' \in {reading, "eof"}
<1> USE DEF StreamTypeOK
<1>1. CASE buffer = << >> /\ n > 0
  BY <1>1 DEF ReadBuffer, Arrived
<1>2. CASE ~(buffer = << >> /\ n > 0)
  <2> DEFINE k == IF n < Len(buffer) THEN n ELSE Len(buffer)
             front == SubSeq(buffer, 1, k)
             rest == SubSeq(buffer, k + 1, Len(buffer))
  <2>1. got' = got \o front /\ buf' = rest /\ UNCHANGED reading
    BY <1>2 DEF ReadBuffer
  <2>2. Len(buffer) \in Nat /\ k \in Nat /\ k <= Len(buffer)
    OBVIOUS
  <2>3. front \in Seq(1..Size) /\ rest \in Seq(1..Size)
    <3> HIDE DEF k
    <3> QED
      BY SMTT(30), <2>2
  <2>4. front \o rest = buffer
    <3>1. 1 \in 1..(Len(buffer) + 1) /\ k \in (1 - 1)..Len(buffer) /\ Len(buffer) \in k..Len(buffer)
      BY <2>2
    <3> HIDE DEF k
    <3>2. front \o rest = SubSeq(buffer, 1, Len(buffer))
      BY <3>1, ConcatAdjacentSubSeq, Zenon
    <3>3. SubSeq(buffer, 1, Len(buffer)) = buffer
      BY SubSeqFull
    <3> QED
      BY <3>2, <3>3
  <2> HIDE DEF front, rest
  <2>5. (got \o front) \o rest = got \o (front \o rest)
    <3>1. got \in Seq(1..Size)
      OBVIOUS
    <3> QED
      BY <2>3, <3>1, Regrouped
  <2>6. got \o front \in Seq(1..Size)
    BY <2>3
  <2> QED
    BY <2>1, <2>3, <2>4, <2>5, <2>6 DEF Arrived
<1> QED
  BY <1>1, <1>2

LEMMA ReadKeeps ==
    ASSUME StreamInv, NEW n \in Spaces, Read(n)
    PROVE  StreamInv'
<1> USE DEF StreamInv
<1>1. PICK to \in Start..Size, EOF \in BOOLEAN :
        /\ EOF => to = Size
        /\ position' = to
        /\ odd' = (odd \/ (EOF <=> to > Start))
        /\ ReadBuffer(IF EOF THEN buf ELSE buf \o Piece(Start, to), n)
  BY DEF Read
<1> DEFINE piece == Piece(Start, to)
           buffer == IF EOF THEN buf ELSE buf \o piece
<1>2. Start \in 0..Size /\ to \in 0..Size /\ reading = "reading" /\ UNCHANGED Offset
  BY DEF Start, StreamTypeOK, Read
<1>3. /\ piece \in Seq(1..Size) /\ Len(piece) = to - Start
      /\ \A i \in 1..(to - Start) : piece[i] = Start + i
  BY <1>1, <1>2, PieceIs
<1> HIDE DEF piece
<1>4. /\ buffer \in Seq(1..Size) /\ (buffer = << >> => buf = << >>)
      /\ ~EOF => (buffer = << >> => to = Start)
  <2>1. buf \in Seq(1..Size)
    BY DEF StreamTypeOK
  <2>2. /\ buf \o piece \in Seq(1..Size)
        /\ buf \o piece = << >> => buf = << >> /\ piece = << >>
    BY <1>3, <2>1, ConcatProperties, ConcatEqualIffEmpty
  <2>3. piece = << >> => to = Start
    BY <1>1, <1>2, <1>3
  <2> QED
    BY <2>1, <2>2, <2>3
<1>5. /\ Arrived' = got \o buffer
      /\ got' \in Seq(1..Size) /\ buf' \in Seq(1..Size)
      /\ reading' = "eof" => buffer = << >> /\ buf' = << >>
      /\ reading' \in {"reading", "eof"}
  <2>1. ReadBuffer(buffer, n) /\ n \in Nat
    BY <1>1, SpacesAssumption DEF piece
  <2> HIDE DEF buffer
  <2> QED
    BY <1>2, <1>4, <2>1, ReadBufferKeeps
<1>6. Arrived' = IF EOF THEN Arrived ELSE Arrived \o piece
  <2>1. (got \o buf) \o piece = got \o (buf \o piece)
    <3>1. got \in Seq(1..Size) /\ buf \in Seq(1..Size)
      BY DEF StreamTypeOK
    <3> QED
      BY <1>3, <3>1, Regrouped
  <2> QED
    BY <1>5, <2>1 DEF Arrived
<1>7. StreamTypeOK'
  BY <1>1, <1>2, <1>5 DEF StreamTypeOK
<1>8. ASSUME Offset = NoOffset
      PROVE  /\ ~odd' => Arrived' = Piece(0, position')
             /\ reading' = "eof" /\ ~odd' => position' = Size
             /\ Increasing(Arrived')
             /\ \A i \in 1..Len(Arrived') : Arrived'[i] <= position'
  <2>1. Start = position /\ position \in 0..Size /\ to \in position..Size
    BY <1>1, <1>8 DEF Start, StreamTypeOK
  <2>2. Arrived \in Seq(1..Size) /\ Len(Arrived) \in Nat
    BY DEF Arrived, StreamTypeOK
  <2>3. ~odd' => ~odd /\ (EOF => to = position) /\ Arrived = Piece(0, position)
    BY <1>1, <1>2, <1>8, <2>1 DEF StreamTypeOK
  <2>4. ~odd' => Arrived' = Piece(0, position')
    <3>1. Piece(0, position) \o Piece(position, to) = Piece(0, to)
      BY <2>1, PiecesJoin
    <3> QED
      BY <1>1, <1>6, <2>1, <2>3, <3>1 DEF piece
  <2>5. reading' = "eof" /\ ~odd' => position' = Size
    <3>1. reading' = "eof" => EOF \/ to = Start
      BY <1>4, <1>5
    <3>2. to = Start => ~(to > Start)
      BY <1>2
    <3>3. ~EOF /\ ~(to > Start) => odd'
      BY <1>1, Zenon
    <3> QED
      BY <1>1, <3>1, <3>2, <3>3
  <2>6. CASE EOF
    <3>1. Arrived' = Arrived /\ position' = Size
      BY <1>1, <1>6, <2>6
    <3>2. Increasing(Arrived) /\ \A i \in 1..Len(Arrived) : Arrived[i] \in 1..Size
      BY <1>8, <2>2
    <3> QED
      BY <2>4, <2>5, <3>1, <3>2
  <2>7. CASE ~EOF
    <3>1. /\ Len(Arrived') = Len(Arrived) + Len(piece)
          /\ \A i \in 1..(Len(Arrived) + Len(piece)) :
               Arrived'[i] = IF i <= Len(Arrived) THEN Arrived[i] ELSE piece[i - Len(Arrived)]
      BY <1>3, <1>6, <2>2, <2>7, ConcatProperties
    <3>2. ASSUME NEW i \in 1..Len(Arrived)
          PROVE  Arrived'[i] = Arrived[i] /\ Arrived'[i] \in 1..position
      <4>1. i \in 1..(Len(Arrived) + Len(piece)) /\ i <= Len(Arrived)
        BY <1>3, <2>1, <2>2
      <4>2. Arrived[i] \in 1..Size /\ Arrived[i] <= position
        BY <1>8, <2>2
      <4> QED
        BY <2>1, <3>1, <4>1, <4>2
    <3>3. ASSUME NEW i \in (Len(Arrived) + 1)..Len(Arrived')
          PROVE  Arrived'[i] = position + (i - Len(Arrived))
      <4>1. /\ i \in 1..(Len(Arrived) + Len(piece)) /\ ~(i <= Len(Arrived))
            /\ i - Len(Arrived) \in 1..(to - Start)
        BY <1>1, <1>2, <1>3, <2>2, <3>1
      <4> QED
        BY <1>3, <2>1, <3>1, <4>1
    <3>4. Increasing(Arrived')
      <4> SUFFICES ASSUME NEW i \in 1..(Len(Arrived') - 1)
                   PROVE  Arrived'[i] < Arrived'[i + 1]
        BY DEF Increasing
      <4>1. CASE i + 1 <= Len(Arrived)
        BY SMTT(30), <1>8, <2>2, <3>2, <4>1 DEF Increasing
      <4>2. CASE i = Len(Arrived)
        BY SMTT(30), <1>3, <2>1, <2>2, <3>1, <3>2, <3>3, <4>2
      <4>3. CASE i > Len(Arrived)
        <5>1. /\ i \in (Len(Arrived) + 1)..Len(Arrived') /\ i + 1 \in (Len(Arrived) + 1)..Len(Arrived')
              /\ position + (i - Len(Arrived)) < position + (i + 1 - Len(Arrived))
          BY <1>1, <1>2, <1>3, <2>1, <2>2, <3>1, <4>3
        <5> QED
          BY <3>3, <5>1
      <4>4. i \in Nat
        BY <1>3, <2>2, <3>1
      <4> QED
        BY <2>2, <4>1, <4>2, <4>3, <4>4
    <3>5. \A i \in 1..Len(Arrived') : Arrived'[i] <= position'
      <4> SUFFICES ASSUME NEW i \in 1..Len(Arrived')
                   PROVE  Arrived'[i] <= to
        BY <1>1
      <4>1. CASE i <= Len(Arrived)
        BY <2>1, <2>2, <3>2, <4>1
      <4>2. CASE i > Len(Arrived)
        BY <1>3, <2>1, <2>2, <3>1, <3>3, <4>2
      <4> QED
        BY <2>2, <4>1, <4>2
    <3> QED
      BY <2>4, <2>5, <3>4, <3>5
  <2> QED
    BY <2>6, <2>7
<1> QED
  BY <1>2, <1>5, <1>7, <1>8

LEMMA IOReadFailsKeeps ==
    ASSUME StreamInv, IOReadFails
    PROVE  StreamInv'
<1> USE DEF StreamInv, IOReadFails
<1>1. StreamTypeOK'
  BY DEF StreamTypeOK
<1>2. UNCHANGED Arrived /\ Arrived \in Seq(1..Size) /\ position \in Nat /\ position' \in Nat
      /\ position <= position'
  BY DEF Arrived, StreamTypeOK
<1>3. ASSUME Offset = NoOffset, NEW i \in 1..Len(Arrived)
      PROVE  Arrived[i] <= position'
  <2>1. Arrived[i] \in 1..Size /\ Arrived[i] <= position
    BY <1>2, <1>3
  <2> QED
    BY <1>2, <2>1
<1> QED
  BY <1>1, <1>2, <1>3

LEMMA StreamInvBegins == StreamInit => StreamInv
<1> SUFFICES ASSUME StreamInit
             PROVE  StreamInv
  OBVIOUS
<1> USE DEF StreamInit
<1>1. StreamTypeOK
  <2>1. 0 \in 0..Size /\ << >> \in Seq(1..Size)
    OBVIOUS
  <2> QED
    BY <2>1 DEF StreamTypeOK
<1>2. Arrived = << >> /\ Len(Arrived) = 0
  BY DEF Arrived
<1>3. Piece(0, 0) = << >>
  BY DEF Piece
<1> QED
  BY <1>1, <1>2, <1>3 DEF StreamInv, Increasing

LEMMA StreamInvStep == StreamInv /\ [StreamNext]_streamVars => StreamInv'
<1> SUFFICES ASSUME StreamInv, [StreamNext]_streamVars
             PROVE  StreamInv'
  OBVIOUS
<1>1. CASE UNCHANGED streamVars
  BY <1>1 DEF streamVars, StreamInv, StreamTypeOK, Arrived
<1> QED
  BY <1>1, ReadKeeps, IOReadFailsKeeps DEF StreamNext

(* A stream of any size is read whole and in order, whatever the pieces     *)
(* and the caller's slices (utils.go:143-176).                              *)
THEOREM StreamIsComplete == StreamSpec => []StreamComplete
<1>1. StreamInv => StreamComplete
  <2> SUFFICES ASSUME StreamInv, Offset = NoOffset
               PROVE  /\ reading = "eof" /\ ~odd => got = Piece(0, Size)
                      /\ \A i \in 1..(Len(got) - 1) : got[i] < got[i + 1]
    BY DEF StreamInv, StreamComplete, Arrived
  <2>1. got \in Seq(1..Size) /\ buf \in Seq(1..Size)
    BY DEF StreamInv, StreamTypeOK
  <2>2. reading = "eof" /\ ~odd => got = Piece(0, Size)
    BY <2>1, ConcatEmptySeq DEF StreamInv, Arrived
  <2>3. ASSUME NEW i \in 1..(Len(got) - 1)
        PROVE  got[i] < got[i + 1]
    <3>1. /\ i \in 1..(Len(Arrived) - 1)
          /\ Arrived[i] = got[i] /\ Arrived[i + 1] = got[i + 1]
      BY <2>1, ConcatProperties DEF Arrived
    <3> QED
      BY <3>1 DEF StreamInv, Increasing
  <2> QED
    BY <2>2, <2>3
<1> QED
  BY <1>1, StreamInvBegins, StreamInvStep, PTL DEF StreamSpec

HIDE StreamAssumption

-----------------------------------------------------------------------------
(* RequestIdle *)

(* While the timer runs, the requests have been quiet for the rest of the   *)
(* duration.                                                                *)
Timed == timer # Off => quiet + timer = Duration

Running == {r \in Requests \ (early \cup excluded) : net[r] \in {"running", "redirected"}}

(* A request that is waited for is in the list or about to be, and leaves   *)
(* it only when it has ended.                                               *)
Noticed ==
    /\ looping => \A r \in Running :
         r \in waitList \/ \E i \in 1..Len(wire) : wire[i] = <<"sent", r>>
    /\ \A i \in 1..Len(wire) : wire[i][1] = "over" => net[wire[i][2]] = "ended"

(* The inductive invariant of the wait for quiet. *)
IdleInv == IdleTypeOK /\ Counted /\ Timed /\ Noticed

(* Cardinalities of the list, and of what the loop makes of it. *)
LEMMA ListCount ==
    ASSUME IdleTypeOK
    PROVE  /\ Cardinality(waitList) \in Nat /\ (Cardinality(waitList) = 0 <=> waitList = {})
           /\ \A r \in waitList : Cardinality(waitList \ {r}) = Cardinality(waitList) - 1
           /\ \A r \in Requests \ waitList : Cardinality(waitList \cup {r}) = Cardinality(waitList) + 1
<1>1. IsFiniteSet(waitList)
  <2>1. waitList \in SUBSET Requests
    BY DEF IdleTypeOK
  <2> QED
    BY <2>1, FS_Subset, IdleAssumption
<1> QED
  BY <1>1, FS_CardinalityType, FS_AddElement, FS_RemoveElement, FS_EmptySet

(* The browser's events leave the loop's counter alone. *)
LEMMA EmitKeeps ==
    ASSUME IdleInv, NEW r \in Requests, NEW before, NEW after, NEW event \in {"sent", "over"},
           Emit(r, before, after, event),
           \/ event = "sent" /\ before # "ended" /\ after \in {"running", "redirected"}
           \/ event = "over" /\ after = "ended"
    PROVE  IdleInv'
<1> USE IdleAssumption DEF IdleInv, Emit, counter
<1>1. IdleTypeOK'
  BY DEF IdleTypeOK
<1>2. Counted' /\ Timed'
  BY DEF Counted, Timed
<1>3. /\ wire \in Seq({"sent", "over"} \X Requests) /\ wire' = Append(wire, <<event, r>>)
      /\ Len(wire') = Len(wire) + 1 /\ wire'[Len(wire) + 1] = <<event, r>>
      /\ \A i \in 1..Len(wire) : wire'[i] = wire[i]
      /\ net' = [net EXCEPT ![r] = after] /\ net[r] = before
      /\ net \in [Requests -> {"idle", "running", "redirected", "ended"}]
  BY DEF IdleTypeOK
<1>4. Noticed'
  <2>1. ASSUME looping', NEW q \in Running'
        PROVE  q \in waitList' \/ \E i \in 1..Len(wire') : wire'[i] = <<"sent", q>>
    <3>1. CASE q = r
      BY <1>3, <2>1, <3>1 DEF Running
    <3>2. CASE q # r
      <4>1. q \in Running /\ looping /\ waitList' = waitList
        BY <1>3, <2>1, <3>2 DEF Running
      <4>2. q \in waitList \/ \E i \in 1..Len(wire) : wire[i] = <<"sent", q>>
        BY <4>1 DEF Noticed
      <4>3. Len(wire) \in Nat
        BY <1>3
      <4> QED
        BY <1>3, <4>1, <4>2, <4>3
    <3> QED
      BY <3>1, <3>2
  <2>2. ASSUME NEW i \in 1..Len(wire'), wire'[i][1] = "over"
        PROVE  net'[wire'[i][2]] = "ended"
    <3>1. CASE i = Len(wire) + 1
      BY <1>3, <2>2, <3>1
    <3>2. CASE i \in 1..Len(wire)
      <4>1. net[wire[i][2]] = "ended" /\ wire[i][2] \in Requests
        BY <1>3, <2>2, <3>2 DEF Noticed
      <4> QED
        BY <1>3, <3>2, <4>1
    <3> QED
      BY <1>3, <3>1, <3>2
  <2> QED
    BY <2>1, <2>2 DEF Noticed
<1> QED
  BY <1>1, <1>2, <1>4

(* The event that the loop takes is the first one. *)
LEMMA Heard ==
    ASSUME IdleTypeOK, wire # << >>, wire' = Tail(wire)
    PROVE  /\ wire' \in Seq({"sent", "over"} \X Requests) /\ Len(wire') = Len(wire) - 1
           /\ Len(wire) \in Nat \ {0}
           /\ Head(wire) = wire[1] /\ wire[1] = <<wire[1][1], wire[1][2]>> /\ wire[1][2] \in Requests
           /\ \A i \in 1..Len(wire') : i + 1 \in 1..Len(wire) /\ wire'[i] = wire[i + 1]
           /\ \A i \in 1..Len(wire) : i # 1 => i - 1 \in 1..Len(wire') /\ wire'[i - 1] = wire[i]
<1>1. wire \in Seq({"sent", "over"} \X Requests) /\ Len(wire) \in Nat \ {0}
  BY DEF IdleTypeOK
<1>2. /\ wire' \in Seq({"sent", "over"} \X Requests) /\ Len(wire') = Len(wire) - 1
      /\ \A i \in 1..Len(wire') : i + 1 \in 1..Len(wire) /\ wire'[i] = wire[i + 1]
  BY <1>1
<1>3. \A i \in 1..Len(wire) : i # 1 => i - 1 \in 1..Len(wire') /\ (i - 1) + 1 = i
  BY <1>1, <1>2
<1> QED
  BY <1>1, <1>2, <1>3

LEMMA HearSentKeeps ==
    ASSUME IdleInv, HearSent
    PROVE  IdleInv'
<1> USE IdleAssumption DEF IdleInv
<1> DEFINE r == wire[1][2]
<1>1. /\ wire # << >> /\ wire' = Tail(wire) /\ wire[1] = <<"sent", r>> /\ r \in Requests
      /\ \/ r \in excluded \cup waitList /\ UNCHANGED counter
         \/ r \notin excluded \cup waitList /\ Add(r)
      /\ UNCHANGED <<page, idler, looping, over, quiet>>
  BY Heard DEF HearSent, Event
<1>2. /\ waitList' \in {waitList, waitList \cup {r}} /\ waitList' \subseteq Requests \ excluded
      /\ r \in waitList' \cup excluded /\ timer' \in {timer, Off}
  BY <1>1 DEF Add, counter, IdleTypeOK
<1>3. IdleTypeOK'
  BY <1>1, <1>2, Heard DEF IdleTypeOK, page
<1>4. Counted'
  BY <1>1, ListCount DEF Counted, Add, counter
<1>5. Timed'
  BY <1>1, <1>2 DEF Timed
<1>6. Noticed'
  <2>1. ASSUME looping, NEW q \in Running
        PROVE  q \in waitList' \/ \E i \in 1..Len(wire') : wire'[i] = <<"sent", q>>
    <3>1. CASE q = r
      BY <1>2, <2>1, <3>1 DEF Running
    <3>2. CASE q # r /\ q \notin waitList
      <4>1. PICK i \in 1..Len(wire) : wire[i] = <<"sent", q>>
        BY <2>1, <3>2 DEF Noticed
      <4>2. i # 1
        BY <1>1, <3>2, <4>1
      <4>3. i - 1 \in 1..Len(wire') /\ wire'[i - 1] = <<"sent", q>>
        BY <1>1, <4>1, <4>2, Heard
      <4> QED
        BY <4>3
    <3> QED
      BY <1>2, <3>1, <3>2
  <2>2. Running' = Running
    BY <1>1 DEF Running, page
  <2>3. \A i \in 1..Len(wire') : wire'[i][1] = "over" => net'[wire'[i][2]] = "ended"
    BY <1>1, Heard DEF Noticed, page
  <2> QED
    BY <1>1, <2>1, <2>2, <2>3 DEF Noticed
<1> QED
  BY <1>3, <1>4, <1>5, <1>6

LEMMA HearOverKeeps ==
    ASSUME IdleInv, HearOver
    PROVE  IdleInv'
<1> USE IdleAssumption DEF IdleInv
<1> DEFINE r == wire[1][2]
<1>1. /\ wire # << >> /\ wire' = Tail(wire) /\ wire[1] = <<"over", r>> /\ r \in Requests
      /\ \/ r \in waitList /\ Done(r) /\ quiet' = 0
         \/ r \notin waitList /\ UNCHANGED <<counter, quiet>>
      /\ UNCHANGED <<page, idler, looping, over>>
  BY Heard DEF HearOver, Event
<1>2. net[r] = "ended"
  BY <1>1, Heard DEF Noticed
<1>3. waitList' \in {waitList, waitList \ {r}} /\ timer' \in {timer, Duration} /\ quiet' \in {0, quiet}
  BY <1>1 DEF Done, counter
<1>4. IdleTypeOK'
  BY <1>1, <1>3, Heard DEF IdleTypeOK, page
<1>5. Counted'
  BY <1>1, ListCount DEF Counted, Done, counter
<1>6. Timed'
  <2>1. CASE r \in waitList /\ Done(r) /\ quiet' = 0
    <3>1. job > 0 /\ timer = Off
      BY <2>1, ListCount DEF Counted
    <3> QED
      BY <2>1, <3>1 DEF Timed, Done, Off
  <2>2. CASE UNCHANGED <<counter, quiet>>
    BY <2>2 DEF Timed, counter
  <2> QED
    BY <1>1, <2>1, <2>2
<1>7. Noticed'
  <2>1. ASSUME looping, NEW q \in Running
        PROVE  q \in waitList' \/ \E i \in 1..Len(wire') : wire'[i] = <<"sent", q>>
    <3>1. q # r
      BY <1>2 DEF Running
    <3>2. CASE q \notin waitList
      <4>1. PICK i \in 1..Len(wire) : wire[i] = <<"sent", q>>
        BY <2>1, <3>2 DEF Noticed
      <4>2. i # 1
        BY <1>1, <4>1
      <4>3. i - 1 \in 1..Len(wire') /\ wire'[i - 1] = <<"sent", q>>
        BY <1>1, <4>1, <4>2, Heard
      <4> QED
        BY <4>3
    <3> QED
      BY <1>3, <3>1, <3>2
  <2>2. Running' = Running
    BY <1>1 DEF Running, page
  <2>3. \A i \in 1..Len(wire') : wire'[i][1] = "over" => net'[wire'[i][2]] = "ended"
    BY <1>1, Heard DEF Noticed, page
  <2> QED
    BY <1>1, <2>1, <2>2, <2>3 DEF Noticed
<1> QED
  BY <1>4, <1>5, <1>6, <1>7

(* The other steps leave the list, the counter and the events alone. *)
LEMMA WaitKeeps ==
    ASSUME IdleInv,
           WaitBegin \/ WaitIdle \/ WaitCancelled \/ LoopEnds \/ Tick \/ EndPage
    PROVE  IdleInv'
<1> USE IdleAssumption DEF IdleInv, Off
<1>1. /\ UNCHANGED <<page, wire, waitList, job>> /\ (looping' => looping)
  BY DEF WaitBegin, WaitIdle, WaitCancelled, LoopEnds, Tick, EndPage, counter
<1>2. job \in Nat /\ (job = 0 <=> waitList = {})
  BY ListCount DEF Counted
<1>3. /\ idler' \in {idler, "select", "idle", "cancelled"}
      /\ \/ timer' = Off /\ quiet' = quiet
         \/ job = 0 /\ timer' = Duration /\ quiet' = 0
         \/ job # 0 /\ timer' = timer /\ quiet' = 0
         \/ UNCHANGED <<timer, quiet>>
         \/ Tick
  BY <1>2 DEF WaitBegin, WaitIdle, WaitCancelled, LoopEnds, Tick, EndPage, counter
<1>4. /\ timer' \in {Off} \cup 0..Duration /\ quiet' \in 0..Duration
      /\ (job > 0 => timer' = Off) /\ Timed'
  <2>1. /\ timer \in {Off} \cup 0..Duration /\ quiet \in 0..Duration
        /\ (job > 0 => timer = Off) /\ (timer # Off => quiet + timer = Duration)
    BY DEF IdleTypeOK, Counted, Timed
  <2>2. CASE Tick
    BY <1>2, <2>1, <2>2 DEF Timed, Tick
  <2>3. CASE ~Tick
    BY <1>2, <1>3, <2>1, <2>3 DEF Timed
  <2> QED
    BY <2>2, <2>3
<1>5. IdleTypeOK' /\ Counted'
  BY <1>1, <1>3, <1>4 DEF IdleTypeOK, Counted, page
<1>6. Noticed'
  BY <1>1 DEF Noticed, Running, page
<1> QED
  BY <1>4, <1>5, <1>6

LEMMA IdleInvBegins == IdleInit => IdleInv
<1> SUFFICES ASSUME IdleInit
             PROVE  IdleInv
  OBVIOUS
<1>1. IdleTypeOK
  BY IdleAssumption DEF IdleInit, IdleTypeOK
<1>2. Counted
  BY FS_EmptySet DEF IdleInit, Counted
<1> QED
  BY <1>1, <1>2 DEF IdleInit, IdleInv, Timed, Noticed, Running

LEMMA IdleInvStep == IdleInv /\ [IdleNext]_idleVars => IdleInv'
<1> SUFFICES ASSUME IdleInv, [IdleNext]_idleVars
             PROVE  IdleInv'
  OBVIOUS
<1>1. ASSUME NEW r \in Requests, Request(r) \/ Redirect(r) \/ Finish(r)
      PROVE  IdleInv'
  BY <1>1, EmitKeeps DEF Request, Redirect, Finish
<1>2. CASE UNCHANGED idleVars
  BY <1>2 DEF idleVars, page, counter, IdleInv, IdleTypeOK, Counted, Timed, Noticed, Running
<1> QED
  BY <1>1, <1>2, HearSentKeeps, HearOverKeeps, WaitKeeps DEF IdleNext

(* The counter counts, and the wait for quiet ends by itself only after     *)
(* the whole duration without a request (page.go:735-798,                   *)
(* lib/utils/utils.go:175-240).                                             *)
THEOREM IdleIsQuiet == IdleInit /\ [][IdleNext]_idleVars => IdleForDuration
<1> DEFINE Quietly ==
      idler' = "idle" /\ idler # "idle" =>
         /\ waitList = {} /\ quiet = Duration
         /\ \A r \in Requests \ (early \cup excluded) :
              net[r] \in {"running", "redirected"} /\ looping
                => \E i \in 1..Len(wire) : wire[i][2] = r
<1>1. ASSUME IdleInv, [IdleNext]_idleVars
      PROVE  [Quietly]_idleVars
  <2>1. idler' = "idle" /\ idler # "idle" => timer = 0
    BY <1>1 DEF IdleNext, Request, Redirect, Finish, Emit, HearSent, HearOver, WaitBegin,
       WaitIdle, WaitCancelled, LoopEnds, Tick, EndPage, idleVars
  <2>2. timer = 0 => waitList = {} /\ quiet = Duration
    BY <1>1, ListCount DEF IdleInv, Counted, Timed, Off, IdleTypeOK
  <2>3. waitList = {} =>
          \A r \in Requests \ (early \cup excluded) :
              net[r] \in {"running", "redirected"} /\ looping
                => \E i \in 1..Len(wire) : wire[i][2] = r
    <3> SUFFICES ASSUME waitList = {}, looping, NEW r \in Running
                 PROVE  \E i \in 1..Len(wire) : wire[i][2] = r
      BY DEF Running
    <3>1. PICK i \in 1..Len(wire) : wire[i] = <<"sent", r>>
      BY <1>1 DEF IdleInv, Noticed
    <3> QED
      BY <3>1
  <2> QED
    BY <2>1, <2>2, <2>3
<1>2. IdleInv => IdleTypeOK /\ Counted
  BY DEF IdleInv
<1> QED
  BY <1>1, <1>2, IdleInvBegins, IdleInvStep, PTL DEF IdleForDuration

-----------------------------------------------------------------------------
(* Keyboard *)

USE KeyboardAssumption DEF Actions

(* After a press of a key there is an action on the key to come. *)
Balances(actions) ==
    \A i \in 1..Len(actions) : actions[i][1] = "press" =>
        \E j \in (i + 1)..Len(actions) : actions[j][2] = actions[i][2]

Agrees == \A k \in Keys \ stuck : k \in held <=> k \in pressed

(* A key that is down has somebody who is about to release it. *)
Awaited ==
    \A k \in (held \cup pressed) \ stuck : \E t \in Typists :
        typist[t] = "typing" /\ \E i \in 1..Len(todo[t]) : todo[t][i][2] = k

(* The inductive invariant of the keyboard. *)
KeyboardInv ==
    /\ KeyboardTypeOK /\ Agrees /\ Awaited
    /\ \A t \in Typists : Balances(todo[t])

(* balance leaves no press without a later action on its key. *)
LEMMA BalancedBalances ==
    ASSUME NEW script \in Scripts, NEW actions \in Balanced(script)
    PROVE  actions \in Seq(Actions) /\ Balances(actions)
<1> DEFINE S == Unreleased(script)
<1>1. script \in Seq(Actions) /\ Len(script) \in Nat
  OBVIOUS
<1>2. IsFiniteSet(S) /\ Cardinality(S) \in Nat
  <2> DEFINE at == [i \in 1..Len(script) |-> script[i][2]]
             named == {script[i][2] : i \in 1..Len(script)}
  <2>1. at \in Surjection(1..Len(script), named)
    BY DEF Surjection
  <2>2. 1 \in Int /\ Len(script) \in Int
    BY <1>1
  <2>3. IsFiniteSet(1..Len(script))
    BY <2>2, FS_Interval, Zenon
  <2>4. IsFiniteSet(named)
    BY <2>1, <2>3, FS_Surjection
  <2>5. S \subseteq named
    BY DEF Unreleased
  <2> QED
    BY <2>4, <2>5, FS_Subset, FS_CardinalityType
<1>3. PICK keys \in SetToSeqs(S) :
        actions = script \o [i \in 1..Len(keys) |-> <<"release", keys[i]>>]
  BY DEF Balanced
<1> DEFINE n == Cardinality(S)
<1>4. /\ keys \in [1..n -> S] /\ \A i, j \in 1..n : i # j => keys[i] # keys[j]
      /\ Len(keys) = n
  BY <1>2 DEF SetToSeqs
<1>5. \A k \in S : \E i \in 1..n : keys[i] = k
  <2>1. keys \in Injection(1..n, S)
    BY <1>4 DEF Injection, IsInjective
  <2>2. 1 \in Int /\ n \in Int
    BY <1>2
  <2>3. IsFiniteSet(1..n) /\ Cardinality(1..n) = IF 1 > n THEN 0 ELSE n - 1 + 1
    BY <2>2, FS_Interval, Zenon
  <2>4. Cardinality(1..n) = n
    BY <1>2, <2>3
  <2>5. keys \in Surjection(1..n, S)
    BY <1>2, <2>1, <2>4, FS_Injection
  <2> QED
    BY <2>5 DEF Surjection
<1>6. S \subseteq Keys
  BY DEF Unreleased
<1>7. /\ actions \in Seq(Actions)
      /\ Len(actions) = Len(script) + n
      /\ \A i \in 1..Len(script) : actions[i] = script[i]
      /\ \A i \in 1..n : actions[Len(script) + i] = <<"release", keys[i]>>
  <2> DEFINE releases == [i \in 1..Len(keys) |-> <<"release", keys[i]>>]
  <2>1. n \in Nat /\ Len(keys) = n /\ keys \in [1..n -> Keys]
    BY <1>2, <1>4, <1>6
  <2>2. actions = script \o releases
    BY <1>3
  <2> HIDE DEF n
  <2>3. releases \in [1..n -> Actions] /\ \A i \in 1..n : releases[i] = <<"release", keys[i]>>
    BY <2>1
  <2> HIDE DEF releases
  <2>4. releases \in Seq(Actions) /\ Len(releases) = n
    BY <2>1, <2>3
  <2>5. /\ actions \in Seq(Actions) /\ Len(actions) = Len(script) + Len(releases)
        /\ \A i \in 1..(Len(script) + Len(releases)) :
             actions[i] = IF i <= Len(script) THEN script[i] ELSE releases[i - Len(script)]
    BY <1>1, <2>2, <2>4, ConcatProperties
  <2>6. \A i \in 1..n : actions[Len(script) + i] = releases[i]
    <3> SUFFICES ASSUME NEW i \in 1..n
                 PROVE  actions[Len(script) + i] = releases[i]
      OBVIOUS
    <3>1. /\ Len(script) + i \in 1..(Len(script) + Len(releases))
          /\ ~(Len(script) + i <= Len(script)) /\ (Len(script) + i) - Len(script) = i
      BY <1>1, <2>1, <2>4
    <3> QED
      BY <2>5, <3>1
  <2>7. \A i \in 1..Len(script) : actions[i] = script[i]
    BY <1>1, <2>1, <2>4, <2>5
  <2> QED
    BY <2>3, <2>4, <2>5, <2>6, <2>7
<1>8. Balances(actions)
  <2> SUFFICES ASSUME NEW i \in 1..Len(actions), actions[i][1] = "press"
               PROVE  \E j \in (i + 1)..Len(actions) : actions[j][2] = actions[i][2]
    BY DEF Balances
  <2>1. i \in 1..Len(script)
    <3> SUFFICES ASSUME i \notin 1..Len(script)
                 PROVE  FALSE
      OBVIOUS
    <3>1. i - Len(script) \in 1..n /\ i = Len(script) + (i - Len(script))
      BY <1>1, <1>2, <1>7
    <3>2. actions[i] = <<"release", keys[i - Len(script)]>>
      BY <1>7, <3>1
    <3> QED
      BY <3>2
  <2>2. script[i] = <<"press", script[i][2]>> /\ script[i][2] \in Keys
    BY <1>1, <1>7, <2>1
  <2>3. CASE \E j \in (i + 1)..Len(script) : script[j][2] = script[i][2]
    BY <1>1, <1>2, <1>7, <2>1, <2>3
  <2>4. CASE \A j \in (i + 1)..Len(script) : script[j][2] # script[i][2]
    <3>1. script[i][2] \in S
      BY <2>1, <2>2, <2>4 DEF Unreleased
    <3>2. PICK j \in 1..n : keys[j] = script[i][2]
      BY <1>5, <3>1
    <3>3. actions[Len(script) + j][2] = script[i][2] /\ Len(script) + j \in (i + 1)..Len(actions)
      BY <1>1, <1>2, <1>7, <2>1, <3>2
    <3> QED
      BY <1>7, <2>1, <3>3
  <2> QED
    BY <2>3, <2>4
<1> QED
  BY <1>7, <1>8

(* What is left of a balanced list is balanced, and names every key but     *)
(* that of a release it began with.                                         *)
LEMMA RestBalances ==
    ASSUME KeyboardTypeOK, NEW t \in Typists, todo[t] # << >>, Balances(todo[t])
    PROVE  /\ Remaining(t) \in Seq(Actions) /\ Balances(Remaining(t))
           /\ Key(t) \in Keys /\ todo[t][1][2] = Key(t)
           /\ \A k \in Keys :
                (\E i \in 1..Len(todo[t]) : todo[t][i][2] = k) =>
                  \/ \E i \in 1..Len(Remaining(t)) : Remaining(t)[i][2] = k
                  \/ k = Key(t) /\ todo[t][1][1] = "release"
<1> DEFINE s == todo[t]
<1>1. /\ s \in Seq(Actions) /\ Len(s) \in Nat \ {0} /\ Head(s) = s[1] /\ s[1] \in Actions
      /\ s[1] = <<s[1][1], Key(t)>> /\ Key(t) \in Keys
  BY DEF KeyboardTypeOK, Key
<1>2. CASE s[1][1] = "type"
  <2>1. Remaining(t) = [s EXCEPT ![1] = <<"release", Key(t)>>]
    BY <1>1, <1>2 DEF Remaining
  <2>2. /\ Remaining(t) \in Seq(Actions) /\ Len(Remaining(t)) = Len(s)
        /\ Remaining(t)[1] = <<"release", Key(t)>>
        /\ \A i \in 2..Len(s) : Remaining(t)[i] = s[i]
    BY <1>1, <2>1
  <2>3. \A i \in 1..Len(s) : Remaining(t)[i][2] = s[i][2]
    BY <1>1, <2>2
  <2>4. Balances(Remaining(t))
    BY <1>1, <2>2, <2>3 DEF Balances
  <2>5. \A k \in Keys : (\E i \in 1..Len(s) : s[i][2] = k) => \E i \in 1..Len(Remaining(t)) : Remaining(t)[i][2] = k
    BY <2>2, <2>3
  <2>6. Key(t) \in Keys /\ s[1][2] = Key(t)
    BY <1>1
  <2> QED
    BY <2>2, <2>4, <2>5, <2>6
<1>3. CASE s[1][1] # "type"
  <2>1. Remaining(t) = Tail(s)
    BY <1>1, <1>3 DEF Remaining
  <2>2. /\ Remaining(t) \in Seq(Actions) /\ Len(Remaining(t)) = Len(s) - 1
        /\ \A i \in 1..(Len(s) - 1) : Remaining(t)[i] = s[i + 1]
    BY <1>1, <2>1
  <2>3. ASSUME NEW i \in 2..Len(s)
        PROVE  i - 1 \in 1..Len(Remaining(t)) /\ Remaining(t)[i - 1] = s[i]
    BY <1>1, <2>2
  <2>4. Balances(Remaining(t))
    <3> SUFFICES ASSUME NEW i \in 1..Len(Remaining(t)), Remaining(t)[i][1] = "press"
                 PROVE  \E j \in (i + 1)..Len(Remaining(t)) : Remaining(t)[j][2] = Remaining(t)[i][2]
      BY DEF Balances
    <3>1. i + 1 \in 1..Len(s) /\ s[i + 1] = Remaining(t)[i]
      BY <1>1, <2>2
    <3>2. PICK j \in (i + 2)..Len(s) : s[j][2] = s[i + 1][2]
      BY <3>1 DEF Balances
    <3>3. j - 1 \in (i + 1)..Len(Remaining(t)) /\ Remaining(t)[j - 1] = s[j]
      BY <1>1, <2>2, <3>2
    <3> QED
      BY <3>1, <3>2, <3>3
  <2>5. ASSUME NEW k \in Keys, NEW i \in 1..Len(s), s[i][2] = k
        PROVE  \/ \E j \in 1..Len(Remaining(t)) : Remaining(t)[j][2] = k
               \/ k = Key(t) /\ s[1][1] = "release"
    <3>1. CASE i \in 2..Len(s)
      BY <2>3, <2>5, <3>1
    <3>2. CASE i = 1 /\ s[1][1] = "release"
      BY <1>1, <2>5, <3>2
    <3>3. CASE i = 1 /\ s[1][1] = "press"
      <4>1. PICK j \in 2..Len(s) : s[j][2] = k
        BY <1>1, <2>5, <3>3 DEF Balances
      <4> QED
        BY <2>3, <4>1
    <3> QED
      BY <1>1, <1>3, <3>1, <3>2, <3>3
  <2>6. \A k \in Keys : (\E i \in 1..Len(s) : s[i][2] = k) =>
          \/ \E j \in 1..Len(Remaining(t)) : Remaining(t)[j][2] = k
          \/ k = Key(t) /\ s[1][1] = "release"
    BY <2>5
  <2>7. Key(t) \in Keys /\ s[1][2] = Key(t)
    BY <1>1
  <2> QED
    BY <2>2, <2>4, <2>6, <2>7
<1> QED
  BY <1>2, <1>3

LEMMA DoKeeps ==
    ASSUME KeyboardInv, NEW t \in Typists, Do(t)
    PROVE  KeyboardInv'
<1> USE DEF KeyboardInv, KeyboardTypeOK
<1>1. PICK script \in Scripts :
        \E actions \in Balanced(script) : todo' = [todo EXCEPT ![t] = actions]
  BY DEF Do
<1> PICK actions \in Balanced(script) : todo' = [todo EXCEPT ![t] = actions]
  BY <1>1
<1>2. actions \in Seq(Actions) /\ Balances(actions)
  BY BalancedBalances
<1>3. KeyboardTypeOK'
  BY <1>2 DEF Do
<1>4. Agrees' /\ Awaited'
  BY DEF Do, Agrees, Awaited
<1>5. \A u \in Typists : Balances(todo[u])'
  BY <1>2 DEF Balances
<1> QED
  BY <1>3, <1>4, <1>5

(* A request that fails leaves its key, and all that were to come, stuck.   *)
LEMMA RefusedKeeps ==
    ASSUME KeyboardInv, NEW t \in Typists, todo[t] # << >>, Refused(t),
           held' \subseteq Keys, pressed' \subseteq Keys,
           \A k \in Keys : k # Key(t) => (k \in held' <=> k \in held) /\ (k \in pressed' <=> k \in pressed)
    PROVE  KeyboardInv'
<1> USE DEF KeyboardInv, KeyboardTypeOK, Refused
<1>1. Key(t) \in Keys /\ todo[t][1][2] = Key(t) /\ todo[t] \in Seq(Actions)
  BY RestBalances
<1>2. /\ stuck' \subseteq Keys /\ stuck \subseteq stuck'
      /\ \A i \in 1..Len(todo[t]) : todo[t][i][2] \in stuck'
  BY <1>1 DEF ToSet
<1>3. Key(t) \in stuck'
  BY SMTT(30), <1>1, <1>2
<1>4. KeyboardTypeOK'
  BY <1>2
<1>5. Agrees'
  BY <1>2, <1>3 DEF Agrees
<1>6. Awaited'
  <2> SUFFICES ASSUME NEW k \in (held' \cup pressed') \ stuck'
               PROVE  \E u \in Typists :
                        typist'[u] = "typing" /\ \E i \in 1..Len(todo'[u]) : todo'[u][i][2] = k
    BY DEF Awaited
  <2>1. k \in (held \cup pressed) \ stuck
    BY <1>2, <1>3
  <2>2. PICK u \in Typists :
          typist[u] = "typing" /\ \E i \in 1..Len(todo[u]) : todo[u][i][2] = k
    BY <2>1 DEF Awaited
  <2>3. u # t
    BY <1>2, <2>2
  <2> QED
    BY <2>2, <2>3
<1>7. \A u \in Typists : Balances(todo[u])'
  BY DEF Balances
<1> QED
  BY <1>4, <1>5, <1>6, <1>7

LEMMA AnsweredKeeps ==
    ASSUME KeyboardInv, NEW t \in Typists, typist[t] = "typing", todo[t] # << >>, Answered(t),
           held' \subseteq Keys, pressed' \subseteq Keys,
           \A k \in Keys : k # Key(t) => (k \in held' <=> k \in held) /\ (k \in pressed' <=> k \in pressed),
           Key(t) \notin stuck => (Key(t) \in held' <=> Key(t) \in pressed'),
           todo[t][1][1] = "release" => Key(t) \notin pressed'
    PROVE  KeyboardInv'
<1> USE DEF KeyboardInv, KeyboardTypeOK, Answered
<1>1. /\ Remaining(t) \in Seq(Actions) /\ Balances(Remaining(t))
      /\ Key(t) \in Keys /\ todo[t][1][2] = Key(t) /\ todo[t] \in Seq(Actions)
      /\ \A k \in Keys :
           (\E i \in 1..Len(todo[t]) : todo[t][i][2] = k) =>
             \/ \E i \in 1..Len(Remaining(t)) : Remaining(t)[i][2] = k
             \/ k = Key(t) /\ todo[t][1][1] = "release"
  BY RestBalances
<1>2. KeyboardTypeOK'
  BY <1>1
<1>3. Agrees'
  BY <1>1 DEF Agrees
<1>4. Awaited'
  <2> SUFFICES ASSUME NEW k \in (held' \cup pressed') \ stuck'
               PROVE  \E u \in Typists :
                        typist'[u] = "typing" /\ \E i \in 1..Len(todo'[u]) : todo'[u][i][2] = k
    BY DEF Awaited
  <2>0. k \in Keys /\ k \in pressed'
    BY <1>3 DEF Agrees
  <2>1. CASE k = Key(t)
    <3>1. 1 \in 1..Len(todo[t])
      BY <1>1
    <3>2. \E i \in 1..Len(Remaining(t)) : Remaining(t)[i][2] = k
      BY <1>1, <2>0, <2>1, <3>1
    <3> QED
      BY <3>2
  <2>2. CASE k # Key(t)
    <3>1. PICK u \in Typists :
            typist[u] = "typing" /\ \E i \in 1..Len(todo[u]) : todo[u][i][2] = k
      BY <2>0, <2>2 DEF Awaited
    <3>2. CASE u = t
      <4>1. \E i \in 1..Len(Remaining(t)) : Remaining(t)[i][2] = k
        BY <1>1, <2>0, <2>2, <3>1, <3>2
      <4> QED
        BY <4>1
    <3> QED
      BY <3>1, <3>2
  <2> QED
    BY <2>1, <2>2
<1>5. \A u \in Typists : Balances(todo[u])'
  BY <1>1 DEF Balances
<1> QED
  BY <1>2, <1>3, <1>4, <1>5

LEMMA PressKeeps ==
    ASSUME KeyboardInv, NEW t \in Typists, Press(t)
    PROVE  KeyboardInv'
<1>1. /\ typist[t] = "typing" /\ todo[t] # << >> /\ todo[t][1][1] # "release"
      /\ pressed' = pressed \cup {Key(t)}
  BY DEF Press, Doing, KeyboardInv, KeyboardTypeOK
<1>2. Key(t) \in Keys
  BY <1>1, RestBalances DEF KeyboardInv
<1>3. held \subseteq Keys /\ pressed \subseteq Keys
  BY DEF KeyboardInv, KeyboardTypeOK
<1>4. CASE held' = held \cup {Key(t)} /\ Answered(t)
  BY <1>1, <1>2, <1>3, <1>4, AnsweredKeeps
<1>5. CASE held' \in {held, held \cup {Key(t)}} /\ Refused(t)
  BY <1>1, <1>2, <1>3, <1>5, RefusedKeeps
<1> QED
  BY <1>4, <1>5 DEF Press

LEMMA ReleaseKeeps ==
    ASSUME KeyboardInv, NEW t \in Typists, Release(t)
    PROVE  KeyboardInv'
<1>1. /\ typist[t] = "typing" /\ todo[t] # << >>
      /\ pressed' = pressed \ {Key(t)}
  BY DEF Release, Doing
<1>2. Key(t) \in Keys
  BY <1>1, RestBalances DEF KeyboardInv
<1>3. held \subseteq Keys /\ pressed \subseteq Keys
  BY DEF KeyboardInv, KeyboardTypeOK
<1>4. CASE held' = held \ {Key(t)} /\ Answered(t)
  BY <1>1, <1>2, <1>3, <1>4, AnsweredKeeps
<1>5. CASE held' \in {held, held \ {Key(t)}} /\ Refused(t)
  BY <1>1, <1>2, <1>3, <1>5, RefusedKeeps
<1> QED
  BY <1>4, <1>5 DEF Release

LEMMA ReleaseNothingKeeps ==
    ASSUME KeyboardInv, NEW t \in Typists, ReleaseNothing(t)
    PROVE  KeyboardInv'
<1>1. /\ typist[t] = "typing" /\ todo[t] # << >>
      /\ Key(t) \notin pressed /\ Answered(t) /\ UNCHANGED <<pressed, held>>
  BY DEF ReleaseNothing, Doing
<1>2. Key(t) \in Keys
  BY <1>1, RestBalances DEF KeyboardInv
<1>3. held \subseteq Keys /\ pressed \subseteq Keys /\ (Key(t) \notin stuck => (Key(t) \in held <=> Key(t) \in pressed))
  BY <1>2 DEF KeyboardInv, KeyboardTypeOK, Agrees
<1> QED
  BY <1>1, <1>2, <1>3, AnsweredKeeps

LEMMA DoReturnsKeeps ==
    ASSUME KeyboardInv, NEW t \in Typists, DoReturns(t)
    PROVE  KeyboardInv'
<1> USE DEF KeyboardInv, DoReturns
<1>1. KeyboardTypeOK'
  BY DEF KeyboardTypeOK
<1>2. Agrees'
  BY DEF Agrees
<1>3. Awaited'
  <2> SUFFICES ASSUME NEW k \in (held \cup pressed) \ stuck
               PROVE  \E u \in Typists :
                        typist'[u] = "typing" /\ \E i \in 1..Len(todo[u]) : todo[u][i][2] = k
    BY DEF Awaited
  <2>1. PICK u \in Typists :
          typist[u] = "typing" /\ \E i \in 1..Len(todo[u]) : todo[u][i][2] = k
    BY DEF Awaited
  <2>2. u # t
    BY <2>1
  <2> QED
    BY <2>1, <2>2 DEF KeyboardTypeOK
<1>4. \A u \in Typists : Balances(todo[u])'
  BY DEF Balances
<1> QED
  BY <1>1, <1>2, <1>3, <1>4

LEMMA KeyboardInvBegins == KeyboardInit => KeyboardInv
<1> SUFFICES ASSUME KeyboardInit
             PROVE  KeyboardInv
  OBVIOUS
<1> QED
  BY DEF KeyboardInit, KeyboardInv, KeyboardTypeOK, Agrees, Awaited, Balances

LEMMA KeyboardInvStep == KeyboardInv /\ [KeyboardNext]_keyboardVars => KeyboardInv'
<1> SUFFICES ASSUME KeyboardInv, [KeyboardNext]_keyboardVars
             PROVE  KeyboardInv'
  OBVIOUS
<1>1. CASE UNCHANGED keyboardVars
  BY <1>1 DEF keyboardVars, KeyboardInv, KeyboardTypeOK, Agrees, Awaited, Balances
<1> QED
  BY <1>1, DoKeeps, PressKeeps, ReleaseKeeps, ReleaseNothingKeeps, DoReturnsKeeps
  DEF KeyboardNext

(* However many goroutines type whatever scripts, keys stay down only for   *)
(* a request that failed (input.go:42-86, :141-182).                        *)
THEOREM KeysAreReleased == KeyboardInit /\ [][KeyboardNext]_keyboardVars => []KeysReleased
<1>1. KeyboardInv => KeysReleased
  <2> SUFFICES ASSUME KeyboardInv, \A t \in Typists : typist[t] # "typing"
               PROVE  held \cup pressed \subseteq stuck
    BY DEF KeyboardInv, Agrees, KeysReleased
  <2> QED
    BY DEF KeyboardInv, Awaited
<1> QED
  BY <1>1, KeyboardInvBegins, KeyboardInvStep, PTL

HIDE KeyboardAssumption DEF Actions

-----------------------------------------------------------------------------
(* Mouse *)

(* ButtonsAgree is inductive as it stands. *)
LEMMA ButtonsAgreeStep == ButtonsAgree /\ [MouseNext]_mouseVars => ButtonsAgree'
<1> SUFFICES ASSUME ButtonsAgree, [MouseNext]_mouseVars
             PROVE  ButtonsAgree'
  OBVIOUS
<1> USE MouseAssumption DEF ButtonsAgree, MouseTypeOK, Clicking, Unanswered, Raised, record
<1>1. ASSUME NEW p \in Points, MoveTo(p)
      PROVE  ButtonsAgree'
  BY <1>1 DEF MoveTo
<1>2. ASSUME NEW b \in Buttons, Down(b)
      PROVE  ButtonsAgree'
  BY <1>2 DEF Down
<1>3. ASSUME NEW b \in Buttons, Up(b)
      PROVE  ButtonsAgree'
  BY <1>3 DEF Up
<1>4. ASSUME NEW e \in Elements, Hover(e)
      PROVE  ButtonsAgree'
  BY <1>4 DEF Hover
<1>5. ASSUME NEW e \in Elements, ClickFails(e)
      PROVE  ButtonsAgree'
  BY <1>5 DEF ClickFails
<1>6. ASSUME NEW e \in Elements, NEW b \in Buttons, ClickDown(e, b)
      PROVE  ButtonsAgree'
  BY <1>6 DEF ClickDown
<1>7. ASSUME NEW e \in Elements, NEW b \in Buttons, ClickUp(e, b)
      PROVE  ButtonsAgree'
  BY <1>7 DEF ClickUp
<1>8. CASE UNCHANGED mouseVars
  BY <1>8 DEF mouseVars
<1> QED
  BY <1>1, <1>2, <1>3, <1>4, <1>5, <1>6, <1>7, <1>8 DEF MouseNext

(* The page's Mouse and the clicks under way know what is down, however     *)
(* many elements are clicked at once (input.go:325-390, element.go:104).    *)
THEOREM ButtonsAreKnown == MouseSpec => []ButtonsAgree
<1>1. MouseInit => ButtonsAgree
  BY MouseAssumption DEF MouseInit, ButtonsAgree, MouseTypeOK, Clicking
<1> QED
  BY <1>1, ButtonsAgreeStep, PTL DEF MouseSpec

-----------------------------------------------------------------------------
(* WebSocket: frames and what they say *)

(* A byte, and the weights of its bits. *)
Octet == 0..255

BitWeights == {1, 2, 4, 8, 16, 32, 64, 128}

(* A byte is the sum of its bits, and those of a sum of bits are the bits. *)
LEMMA ByteIsBits ==
    ASSUME NEW a \in Octet
    PROVE  a = Bit(a, 1) + 2 * Bit(a, 2) + 4 * Bit(a, 4) + 8 * Bit(a, 8) + 16 * Bit(a, 16)
                 + 32 * Bit(a, 32) + 64 * Bit(a, 64) + 128 * Bit(a, 128)
BY SMTT(60) DEF Bit, Octet

LEMMA BitsOfSum ==
    ASSUME NEW a \in {0, 1}, NEW b \in {0, 2}, NEW c \in {0, 4}, NEW d \in {0, 8},
           NEW e \in {0, 16}, NEW f \in {0, 32}, NEW g \in {0, 64}, NEW h \in {0, 128},
           NEW s, s = a + b + c + d + e + f + g + h
    PROVE  /\ s \in Octet
           /\ Bit(s, 1) = a /\ 2 * Bit(s, 2) = b /\ 4 * Bit(s, 4) = c /\ 8 * Bit(s, 8) = d
           /\ 16 * Bit(s, 16) = e /\ 32 * Bit(s, 32) = f /\ 64 * Bit(s, 64) = g
           /\ 128 * Bit(s, 128) = h
BY SMTT(60) DEF Bit, Octet

LEMMA Differs ==
    ASSUME NEW a \in Octet, NEW b \in Octet, NEW k \in BitWeights
    PROVE  /\ Bit(a, k) \in {0, 1}
           /\ Differ(a, b, k) \in {0, k}
           /\ Differ(a, b, k) = k <=> Bit(a, k) # Bit(b, k)
BY SMTT(60) DEF Differ, Bit, BitWeights, Octet

LEMMA Weights ==
    /\ 1 \in BitWeights /\ 2 \in BitWeights /\ 4 \in BitWeights /\ 8 \in BitWeights
    /\ 16 \in BitWeights /\ 32 \in BitWeights /\ 64 \in BitWeights /\ 128 \in BitWeights
    /\ BitWeights \subseteq Nat \ {0}
BY SMT DEF BitWeights

LEMMA XorBits ==
    ASSUME NEW a \in Octet, NEW b \in Octet
    PROVE  /\ Xor(a, b) \in Octet
           /\ \A k \in BitWeights : k * Bit(Xor(a, b), k) = Differ(a, b, k)
<1>1. /\ Differ(a, b, 1) \in {0, 1} /\ Differ(a, b, 2) \in {0, 2}
      /\ Differ(a, b, 4) \in {0, 4} /\ Differ(a, b, 8) \in {0, 8}
      /\ Differ(a, b, 16) \in {0, 16} /\ Differ(a, b, 32) \in {0, 32}
      /\ Differ(a, b, 64) \in {0, 64} /\ Differ(a, b, 128) \in {0, 128}
  BY Differs, Weights
<1>2. /\ Xor(a, b) \in Octet
      /\ Bit(Xor(a, b), 1) = Differ(a, b, 1) /\ 2 * Bit(Xor(a, b), 2) = Differ(a, b, 2)
      /\ 4 * Bit(Xor(a, b), 4) = Differ(a, b, 4) /\ 8 * Bit(Xor(a, b), 8) = Differ(a, b, 8)
      /\ 16 * Bit(Xor(a, b), 16) = Differ(a, b, 16) /\ 32 * Bit(Xor(a, b), 32) = Differ(a, b, 32)
      /\ 64 * Bit(Xor(a, b), 64) = Differ(a, b, 64) /\ 128 * Bit(Xor(a, b), 128) = Differ(a, b, 128)
  BY <1>1, BitsOfSum, SMTT(30) DEF Xor
<1>3. Bit(Xor(a, b), 1) \in {0, 1}
  BY <1>2, Differs, Weights
<1>4. 1 * Bit(Xor(a, b), 1) = Differ(a, b, 1)
  BY <1>2, <1>3, SMT
<1> QED
  BY <1>2, <1>4, SMT DEF BitWeights

(* A byte is determined by its bits. *)
LEMMA SameBits ==
    ASSUME NEW a \in Octet, NEW b \in Octet, \A k \in BitWeights : Bit(a, k) = Bit(b, k)
    PROVE  a = b
<1>1. /\ Bit(a, 1) = Bit(b, 1) /\ Bit(a, 2) = Bit(b, 2) /\ Bit(a, 4) = Bit(b, 4)
      /\ Bit(a, 8) = Bit(b, 8) /\ Bit(a, 16) = Bit(b, 16) /\ Bit(a, 32) = Bit(b, 32)
      /\ Bit(a, 64) = Bit(b, 64) /\ Bit(a, 128) = Bit(b, 128)
  BY Weights
<1> DEFINE Sum(x) == Bit(x, 1) + 2 * Bit(x, 2) + 4 * Bit(x, 4) + 8 * Bit(x, 8) + 16 * Bit(x, 16)
                       + 32 * Bit(x, 32) + 64 * Bit(x, 64) + 128 * Bit(x, 128)
<1>2. Sum(a) = Sum(b)
  BY <1>1, Zenon
<1>3. a = Sum(a) /\ b = Sum(b)
  BY ByteIsBits
<1> QED
  BY <1>2, <1>3, Zenon

(* What has been combined with a byte twice is what it was. *)
LEMMA XorTwice ==
    ASSUME NEW a \in Octet, NEW b \in Octet
    PROVE  Xor(Xor(a, b), b) = a
<1>1. PICK s \in Octet : /\ s = Xor(a, b)
                          /\ \A k \in BitWeights : k * Bit(s, k) = Differ(a, b, k)
  BY XorBits
<1>2. PICK t \in Octet : /\ t = Xor(s, b)
                          /\ \A k \in BitWeights : k * Bit(t, k) = Differ(s, b, k)
  BY XorBits
<1>3. ASSUME NEW k \in BitWeights
      PROVE  Bit(t, k) = Bit(a, k)
  <2>1. /\ Bit(a, k) \in {0, 1} /\ Bit(b, k) \in {0, 1} /\ Bit(s, k) \in {0, 1}
        /\ Bit(t, k) \in {0, 1}
    BY Differs
  <2>2. /\ Differ(a, b, k) = k <=> Bit(a, k) # Bit(b, k)
        /\ Differ(s, b, k) = k <=> Bit(s, k) # Bit(b, k)
        /\ Differ(a, b, k) \in {0, k} /\ Differ(s, b, k) \in {0, k}
    BY Differs
  <2>3. k \in Nat \ {0}
    BY Weights
  <2>4. k * 0 = 0 /\ k * 1 = k
    BY <2>3, SMT
  <2> QED
    BY <1>1, <1>2, <2>1, <2>2, <2>3, <2>4
<1> QED
  BY <1>1, <1>2, <1>3, SameBits

LEMMA Shifts ==
    ASSUME NEW z \in Nat
    PROVE  /\ ShiftedRight(z, 0) = z /\ ShiftedRight(z, 8) = z \div 256
           /\ ShiftedRight(z, 16) = z \div 65536 /\ ShiftedRight(z, 24) = z \div 16777216
           /\ ShiftedRight(z, 32) = 0 /\ ShiftedRight(z, 40) = 0
           /\ ShiftedRight(z, 48) = 0 /\ ShiftedRight(z, 56) = 0
<1>1. 2^0 = 1 /\ 2^8 = 256 /\ 2^16 = 65536 /\ 2^24 = 16777216
  BY SMT
<1>2. /\ ShiftedRight(z, 0) = z \div 2^0 /\ ShiftedRight(z, 8) = z \div 2^8
      /\ ShiftedRight(z, 16) = z \div 2^16 /\ ShiftedRight(z, 24) = z \div 2^24
  BY SMT DEF ShiftedRight
<1>3. z \div 1 = z
  BY SMT
<1>4. /\ ShiftedRight(z, 32) = 0 /\ ShiftedRight(z, 40) = 0
      /\ ShiftedRight(z, 48) = 0 /\ ShiftedRight(z, 56) = 0
  BY SMT DEF ShiftedRight
<1> QED
  BY <1>1, <1>2, <1>3, <1>4, SMT

LEMMA TupleIsSeq == \A T : \A n \in Nat : \A f \in [1..n -> T] : f \in Seq(T) /\ Len(f) = n
BY SMT

LEMMA ShortField ==
    ASSUME NEW z \in Nat, NEW f, f = Field(z, 2)
    PROVE  f \in Seq(Octet) /\ Len(f) = 2 /\ (z < 65536 => Number(f) = z)
<1>1. f = [i \in 1..2 |-> ShiftedRight(z, (2 - i) * 8) % 256]
  BY DEF Field
<1>2. f[1] = ShiftedRight(z, 8) % 256 /\ f[2] = ShiftedRight(z, 0) % 256
  BY <1>1, SMT
<1>3. f[1] = (z \div 256) % 256 /\ f[2] = z % 256
  BY <1>2, Shifts, SMT
<1>4. f[1] \in Octet /\ f[2] \in Octet
  BY <1>3, SMT DEF Octet
<1>5. f \in Seq(Octet) /\ Len(f) = 2
  <2>1. \A i \in 1..2 : f[i] \in Octet
    BY <1>4, SMT
  <2>2. f = [i \in 1..2 |-> f[i]]
    BY <1>1
  <2>3. f \in [1..2 -> Octet] /\ 2 \in Nat
    BY <2>1, <2>2, Zenon
  <2> QED
    BY <2>3, TupleIsSeq, Zenon
<1>6. Number(f) = f[1] * 256 + f[2]
  BY <1>5 DEF Number, Pair
<1>7. z < 65536 => ((z \div 256) % 256) * 256 + (z % 256) = z
  BY SMT
<1> QED
  BY <1>3, <1>5, <1>6, <1>7

LEMMA LongField ==
    ASSUME NEW z \in Nat, z <= MaxSize, NEW f, f = Field(z, 8)
    PROVE  f \in Seq(Octet) /\ Len(f) = 8 /\ Number(f) = z
<1>1. f = [i \in 1..8 |-> ShiftedRight(z, (8 - i) * 8) % 256]
  BY DEF Field
<1>2. z \in Nat /\ z <= 2147483647
  BY SMT DEF MaxSize
<1>3. /\ f[1] = ShiftedRight(z, 56) % 256 /\ f[2] = ShiftedRight(z, 48) % 256
      /\ f[3] = ShiftedRight(z, 40) % 256 /\ f[4] = ShiftedRight(z, 32) % 256
      /\ f[5] = ShiftedRight(z, 24) % 256 /\ f[6] = ShiftedRight(z, 16) % 256
      /\ f[7] = ShiftedRight(z, 8) % 256 /\ f[8] = ShiftedRight(z, 0) % 256
  BY <1>1, SMT
<1>4. /\ f[1] = 0 /\ f[2] = 0 /\ f[3] = 0 /\ f[4] = 0
      /\ f[5] = (z \div 16777216) % 256 /\ f[6] = (z \div 65536) % 256
      /\ f[7] = (z \div 256) % 256 /\ f[8] = z % 256
  BY <1>2, <1>3, Shifts, SMT
<1>5. /\ f[1] \in Octet /\ f[2] \in Octet /\ f[3] \in Octet /\ f[4] \in Octet
      /\ f[5] \in Octet /\ f[6] \in Octet /\ f[7] \in Octet /\ f[8] \in Octet
  BY <1>2, <1>4, SMT DEF Octet
<1>6. f \in Seq(Octet) /\ Len(f) = 8
  <2>1. \A i \in 1..8 : f[i] \in Octet
    BY <1>5, SMT
  <2>2. f = [i \in 1..8 |-> f[i]]
    BY <1>1
  <2>3. f \in [1..8 -> Octet] /\ 8 \in Nat
    BY <2>1, <2>2, Zenon
  <2> QED
    BY <2>3, TupleIsSeq, Zenon
<1>7. Number(f) = ((Pair(f, 1) * 65536 + Pair(f, 3)) * 65536 + Pair(f, 5)) * 65536 + Pair(f, 7)
  <2>1. Len(f) = 8 /\ 8 # 2
    BY <1>6
  <2> QED
    BY <2>1, SMT DEF Number
<1>12. /\ Pair(f, 1) = f[1] * 256 + f[2] /\ Pair(f, 3) = f[3] * 256 + f[4]
      /\ Pair(f, 5) = f[5] * 256 + f[6] /\ Pair(f, 7) = f[7] * 256 + f[8]
  BY DEF Pair
<1>8. ((((z \div 16777216) % 256) * 256 + ((z \div 65536) % 256)) * 65536)
        + (((z \div 256) % 256) * 256 + (z % 256)) = z
  BY <1>2, SMT
<1>9. Pair(f, 1) = 0 /\ Pair(f, 3) = 0
  BY <1>4, <1>12, SMT
<1>10. Number(f) = Pair(f, 5) * 65536 + Pair(f, 7)
  <2>1. (((0 * 65536) + 0) * 65536) = 0
    BY SMT
  <2>2. Pair(f, 5) \in Nat
    <3>1. PICK a \in Octet, b \in Octet : a = f[5] /\ b = f[6]
      BY <1>5
    <3>2. a * 256 + b \in Nat
      BY SMT DEF Octet
    <3> QED
      BY <3>1, <3>2, <1>12, Zenon
  <2> QED
    BY <1>7, <1>9, <2>1, <2>2, SMT
<1>11. Number(f) = z
  <2>1. /\ Pair(f, 5) = ((z \div 16777216) % 256) * 256 + ((z \div 65536) % 256)
        /\ Pair(f, 7) = ((z \div 256) % 256) * 256 + (z % 256)
    BY <1>4, <1>12, SMT
  <2> QED
    BY <1>8, <1>10, <2>1, SMT
<1> QED
  BY <1>6, <1>11, SMT

(* A size, and the field of its frames. *)
LEMMA SizeOfFrame ==
    ASSUME SocketAssumption, NEW z \in Sizes,
           NEW e, e = FieldLen(Length(z))
    PROVE  /\ z \in Nat /\ z <= MaxSize /\ Length(z) \in 0..127
           /\ e \in {0, 2, 8}
           /\ Field(z, e) \in Seq(Octet) /\ Len(Field(z, e)) = e
           /\ e = 0 => Length(z) = z
           /\ e # 0 => Number(Field(z, e)) = z
           /\ e = Needed(z)
           /\ Length(z) = IF e = 0 THEN z ELSE IF e = 2 THEN 126 ELSE 127
<1>1. z \in Nat /\ z <= MaxSize
  BY DEF SocketAssumption
<1>2. CASE z <= 125
  <2>1. Length(z) = z /\ e = 0 /\ Needed(z) = e
    BY <1>1, <1>2, SMT DEF Length, FieldLen, Needed
  <2>2. Field(z, 0) \in Seq(Octet) /\ Len(Field(z, 0)) = 0
    BY SMT DEF Field
  <2> QED
    BY <1>1, <1>2, <2>1, <2>2, SMT
<1>3. CASE z > 125 /\ z < 65536
  <2>1. Length(z) = 126 /\ e = 2 /\ Needed(z) = e
    BY <1>1, <1>3, SMT DEF Length, FieldLen, Needed
  <2>2. Field(z, 2) \in Seq(Octet) /\ Len(Field(z, 2)) = 2 /\ Number(Field(z, 2)) = z
    BY <1>1, <1>3, ShortField, SMT
  <2>3. Field(z, e) \in Seq(Octet) /\ Len(Field(z, e)) = e /\ Number(Field(z, e)) = z
    BY <2>1, <2>2
  <2> QED
    BY <1>1, <1>3, <2>1, <2>3, SMT
<1>4. CASE z >= 65536
  <2>1. Length(z) = 127 /\ e = 8 /\ Needed(z) = e
    BY <1>1, <1>4, SMT DEF Length, FieldLen, Needed
  <2>2. Field(z, 8) \in Seq(Octet) /\ Len(Field(z, 8)) = 8 /\ Number(Field(z, 8)) = z
    BY <1>1, LongField, SMT
  <2>3. Field(z, e) \in Seq(Octet) /\ Len(Field(z, e)) = e /\ Number(Field(z, e)) = z
    BY <2>1, <2>2
  <2> QED
    BY <1>1, <1>4, <2>1, <2>3, SMT
<1> QED
  BY <1>1, <1>2, <1>3, <1>4, SMT

(* What the header of a frame is made of. *)
HeaderOf(h, len, f) ==
    /\ h \in Seq(Octet) /\ Len(h) = Len(f) + 6
    /\ h[1] = 129 /\ h[2] = len
    /\ SubSeq(h, 3, Len(f) + 2) = f
    /\ SubSeq(h, Len(f) + 3, Len(h)) = Mask
    /\ h[Len(h) - 3] = Mask[1]

LEMMA HeaderShape ==
    \A len \in Octet : \A f \in Seq(Octet) : \A h :
        h = <<129, len>> \o f \o Mask => HeaderOf(h, len, f)
<1> SUFFICES ASSUME NEW len \in Octet, NEW f \in Seq(Octet), NEW h, h = <<129, len>> \o f \o Mask
             PROVE  /\ h \in Seq(Octet) /\ Len(h) = Len(f) + 6
                    /\ h[1] = 129 /\ h[2] = len
                    /\ SubSeq(h, 3, Len(f) + 2) = f
                    /\ SubSeq(h, Len(f) + 3, Len(h)) = Mask
                    /\ h[Len(h) - 3] = Mask[1]
  BY Zenon DEF HeaderOf
<1>1. Mask \in Seq(Octet) /\ Len(Mask) = 4
  BY SMT DEF Mask, Octet
<1>2. <<129, len>> \in Seq(Octet) /\ Len(<<129, len>>) = 2 /\ <<129, len>>[1] = 129 /\ <<129, len>>[2] = len
  BY SMT DEF Octet
<1> DEFINE g == <<129, len>> \o f
<1>3. /\ g \in Seq(Octet) /\ Len(g) = Len(f) + 2 /\ g[1] = 129 /\ g[2] = len
      /\ \A i \in 1..Len(f) : g[i + 2] = f[i]
  BY <1>2, SMT
<1> HIDE DEF g
<1>4. h = g \o Mask
  BY DEF g
<1>5. /\ h \in Seq(Octet) /\ Len(h) = Len(f) + 6 /\ h[1] = 129 /\ h[2] = len
      /\ \A i \in 1..Len(f) : h[i + 2] = f[i]
      /\ \A i \in 1..4 : h[Len(f) + 2 + i] = Mask[i]
  <2> HIDE DEF Octet
  <2>0. g \in Seq(Octet) /\ Mask \in Seq(Octet)
    BY <1>1, <1>3
  <2>1. /\ h \in Seq(Octet) /\ Len(h) = Len(g) + Len(Mask)
        /\ \A i \in 1..(Len(g) + Len(Mask)) : h[i] = IF i <= Len(g) THEN g[i] ELSE Mask[i - Len(g)]
    BY <2>0, <1>4, ConcatProperties, ZenonT(40)
  <2>2. \A i \in 1..Len(g) : h[i] = g[i]
    BY <1>1, <1>3, <2>1, SMT
  <2>3. \A i \in 1..4 : h[Len(g) + i] = Mask[i]
    BY <1>1, <1>3, <2>1, SMT
  <2>4. Len(f) \in Nat
    BY SMT
  <2> QED
    BY <1>1, <1>3, <2>1, <2>2, <2>3, <2>4, SMT
<1>6. SubSeq(h, 3, Len(f) + 2) = f
  <2>1. /\ SubSeq(h, 3, Len(f) + 2) \in Seq(Octet) /\ Len(SubSeq(h, 3, Len(f) + 2)) = Len(f)
        /\ \A i \in 1..Len(f) : SubSeq(h, 3, Len(f) + 2)[i] = h[i + 2]
    BY <1>5, SMT
  <2> QED
    BY <1>5, <2>1, SeqEqual
<1>7. SubSeq(h, Len(f) + 3, Len(h)) = Mask
  <2>1. /\ SubSeq(h, Len(f) + 3, Len(h)) \in Seq(Octet) /\ Len(SubSeq(h, Len(f) + 3, Len(h))) = 4
        /\ \A i \in 1..4 : SubSeq(h, Len(f) + 3, Len(h))[i] = h[Len(f) + 2 + i]
    BY <1>5, SMT
  <2> QED
    BY <1>1, <1>5, <2>1, SeqEqual
<1>8. h[Len(h) - 3] = Mask[1]
  <2>1. Len(f) \in Nat
    BY SMT
  <2> QED
    BY <1>5, <2>1, SMT
<1> QED
  BY <1>5, <1>6, <1>7, <1>8

(* A server takes a frame of Send for the message that Send was given. *)
LEMMA ServerUnderstands ==
    ASSUME SocketAssumption, NEW z \in Sizes
    PROVE  /\ Carries(Frame(Message(z)), Message(z))
           /\ Decoded(Frame(Message(z))) = Message(z)
<1>1. PICK len, e, f, frame, h :
        /\ len = Length(z) /\ e = FieldLen(len) /\ f = Field(z, e)
        /\ frame = Frame(Message(z)) /\ h = frame.header
  BY Zenon
<1>2. /\ z \in Nat /\ len \in 0..127 /\ e \in {0, 2, 8}
      /\ f \in Seq(Octet) /\ Len(f) = e
      /\ e = 0 => len = z
      /\ e # 0 => Number(f) = z
      /\ e = Needed(z)
  BY <1>1, SizeOfFrame, SMT
<1>3. /\ Message(z) = [n |-> z, byte |-> Byte] /\ Byte \in Octet
      /\ Message(z).n = z /\ Message(z).byte = Byte
  BY DEF Message, SocketAssumption, Octet
<1>4. /\ h = <<129, 128 + len>> \o f \o Mask
      /\ frame.n = z
      /\ frame.body = [i \in 0..3 |-> Xor(Byte, Mask[i + 1])]
  <2>1. Frame(Message(z)) =
          [header |-> <<129, 128 + Length(z)>> \o Field(z, FieldLen(Length(z))) \o Mask,
           n |-> z,
           body |-> [i \in 0..3 |-> Xor(Byte, Mask[i + 1])]]
    BY <1>3, Zenon DEF Frame
  <2>2. frame = [header |-> <<129, 128 + len>> \o f \o Mask,
                 n |-> z,
                 body |-> [i \in 0..3 |-> Xor(Byte, Mask[i + 1])]]
    BY <1>1, <2>1, Zenon
  <2>3. h = frame.header
    BY <1>1
  <2> DEFINE hh == <<129, 128 + len>> \o f \o Mask
             bb == [i \in 0..3 |-> Xor(Byte, Mask[i + 1])]
  <2>4. frame = [header |-> hh, n |-> z, body |-> bb]
    BY <2>2
  <2> HIDE DEF hh, bb
  <2>5. frame.header = hh /\ frame.n = z /\ frame.body = bb
    BY <2>4
  <2> QED
    BY <2>3, <2>5, Zenon DEF hh, bb
<1>5. /\ h[1] = 129 /\ h[2] = 128 + len /\ Len(h) = e + 6
      /\ SubSeq(h, 3, e + 2) = f /\ SubSeq(h, e + 3, Len(h)) = Mask
      /\ h[Len(h) - 3] = Mask[1]
  <2>1. PICK b \in Octet : b = 128 + len
    <3>1. 128 + len \in Octet
      BY <1>2, SMT DEF Octet
    <3> QED
      BY <3>1
  <2>2. /\ h \in Seq(Octet) /\ Len(h) = Len(f) + 6 /\ h[1] = 129 /\ h[2] = 128 + len
        /\ SubSeq(h, 3, Len(f) + 2) = f
        /\ SubSeq(h, Len(f) + 3, Len(h)) = Mask
        /\ h[Len(h) - 3] = Mask[1]
    <3>1. h = <<129, b>> \o f \o Mask
      BY <1>4, <2>1, Zenon
    <3>2. HeaderOf(h, b, f)
      <4>1. f \in Seq(Octet)
        BY <1>2
      <4> HIDE DEF Octet
      <4> QED
        BY <4>1, <3>1, HeaderShape, Zenon
    <3> QED
      BY <2>1, <3>2, Zenon DEF HeaderOf
  <2> QED
    BY <1>2, <2>2, Zenon
<1>6. h[2] - 128 = len /\ h[2] >= 128
  BY <1>2, <1>5, SMT
<1>7. \A i \in 0..3 : Xor(frame.body[i], Mask[i + 1]) = Byte
  <2>1. \A i \in 0..3 : Mask[i + 1] \in Octet
    BY SMT DEF Mask, Octet
  <2> QED
    BY <1>3, <1>4, <2>1, XorTwice
<1>8. FieldLen(h[2] - 128) = e /\ SubSeq(h, 3, e + 2) = f /\ SubSeq(h, e + 3, Len(h)) = Mask
  BY <1>1, <1>5, <1>6, Zenon
<1>9. Claimed(h) = z
  <2>1. Claimed(h) = IF e = 0 THEN h[2] - 128 ELSE Number(SubSeq(h, 3, e + 2))
    BY <1>8, Zenon DEF Claimed
  <2>2. Claimed(h) = IF e = 0 THEN len ELSE Number(f)
    BY <1>6, <1>8, <2>1, Zenon
  <2> QED
    BY <1>2, <2>2
<1>10. Carries(frame, Message(z))
  <2>1. /\ Message(z).n = Claimed(h) /\ Message(z).n = frame.n
        /\ e = Needed(Message(z).n)
        /\ Len(h) = e + 6
    BY <1>2, <1>3, <1>4, <1>5, <1>9, SMT
  <2>2. \A i \in 0..3 : Message(z).byte = Xor(frame.body[i], SubSeq(h, e + 3, Len(h))[i + 1])
    BY <1>3, <1>7, <1>8
  <2> QED
    <3>1. /\ h[1] = 129 /\ h[2] >= 128 /\ Len(h) = FieldLen(h[2] - 128) + 6
          /\ Message(z).n = Claimed(h) /\ Message(z).n = frame.n /\ FieldLen(h[2] - 128) = Needed(Message(z).n)
          /\ \A i \in 0..3 :
               Message(z).byte = Xor(frame.body[i], SubSeq(h, FieldLen(h[2] - 128) + 3, Len(h))[i + 1])
      BY <1>5, <1>6, <1>8, <2>1, <2>2, Zenon
    <3>2. frame.header = h
      BY <1>1
    <3> QED
      BY <3>1, <3>2, Zenon DEF Carries
<1>11. Decoded(frame) = Message(z)
  <2>1. Xor(frame.body[0], Mask[1]) = Byte
    <3>1. 0 \in 0..3 /\ 0 + 1 = 1
      BY SMT
    <3> QED
      BY <1>7, <3>1
  <2> QED
    BY <1>1, <1>3, <1>5, <1>9, <2>1 DEF Decoded
<1> QED
  BY <1>1, <1>10, <1>11

-----------------------------------------------------------------------------
(* The inductive invariant of the connection *)

Messages == {Message(z) : z \in Sizes}

Frames == {Frame(m) : m \in Messages}

RunKind == [n : Nat, byte : Octet]

SocketTypes ==
    /\ sent \in Seq(Messages) /\ served \in Seq(Messages)
    /\ pushed \in Seq(Messages) /\ received \in Seq(Messages)
    /\ outbound \in Seq(Frames) /\ inbound \in Seq(RunKind)

(* What the server has and what is on its way to it is what was sent.       *)
OutWay ==
    /\ Len(served) + Len(outbound) <= Len(sent)
    /\ conn = "open" => Len(served) + Len(outbound) = Len(sent)
    /\ \A i \in 1..Len(served) : served[i] = sent[i]
    /\ \A i \in 1..Len(outbound) : outbound[i] = Frame(sent[Len(served) + i])

(* A run of bytes as it was written, or, when the connection broke in it,   *)
(* the last one that arrived without its last byte.                         *)
IsRun(runs, p, run, whole) ==
    \/ runs[p] = run
    \/ ~whole /\ p = Len(runs) /\ run.n > 1 /\ runs[p].n = run.n - 1

(* The frames of msgs lie in runs one after the other, the j-th from         *)
(* start[j-1] on; runs may end before they do.                               *)
Laid(start, msgs, runs, whole) ==
    /\ start[0] = 0 /\ Len(runs) <= start[Len(msgs)]
    /\ \A i \in 0..Len(msgs) : \A j \in i..Len(msgs) : start[i] <= start[j]
    /\ \A j \in 1..Len(msgs) :
         /\ start[j] = start[j - 1] + Len(Runs(msgs[j].n))
         /\ \A i \in 1..Len(Runs(msgs[j].n)) :
              start[j - 1] + i <= Len(runs) => IsRun(runs, start[j - 1] + i, Runs(msgs[j].n)[i], whole)
    /\ whole => Len(runs) = start[Len(msgs)]

Lies(msgs, runs, whole) == \E start \in [0..Len(msgs) -> Nat] : Laid(start, msgs, runs, whole)

(* The messages whose frames Read has not taken yet. *)
Coming == SubSeq(pushed, Len(received) + 1, Len(pushed))

InWay ==
    /\ Len(received) <= Len(pushed)
    /\ \A i \in 1..Len(received) : received[i] = pushed[i]
    /\ Lies(Coming, inbound, conn = "open")

SocketInv == SocketTypes /\ OutWay /\ InWay

(* The runs of a frame of the server: its first two bytes, those of its     *)
(* field, and the message.                                                  *)
RunsOf(r, z, len, f) ==
    /\ r \in Seq(RunKind)
    /\ Len(r) = 2 + Len(f) + (IF z = 0 THEN 0 ELSE 1)
    /\ r[2] = [n |-> 1, byte |-> len]
    /\ \A i \in 1..(2 + Len(f)) : r[i].n = 1
    /\ \A i \in 1..Len(f) : r[i + 2].byte = f[i]
    /\ z # 0 => r[Len(f) + 3] = [n |-> z, byte |-> Byte]

LEMMA OneRun ==
    ASSUME SocketAssumption, NEW z \in Nat, NEW b \in Octet
    PROVE  /\ Run(z, b) \in Seq(RunKind)
           /\ Len(Run(z, b)) = IF z = 0 THEN 0 ELSE 1
           /\ z # 0 => Run(z, b)[1] = [n |-> z, byte |-> b]
<1> HIDE DEF Octet
<1>1. [n |-> z, byte |-> b] \in RunKind
  BY SMT DEF RunKind
<1> HIDE DEF RunKind
<1>2. CASE z = 0
  BY <1>2, SMT DEF Run
<1>3. CASE z # 0
  BY <1>1, <1>3, SMT DEF Run
<1> QED
  BY <1>2, <1>3

LEMMA RunsShape ==
    ASSUME SocketAssumption, NEW z \in Sizes
    PROVE  \E len \in Octet : \E f \in Seq(Octet) :
             /\ RunsOf(Runs(z), z, len, f)
             /\ len % 128 = len /\ FieldLen(len) = Len(f)
             /\ Len(f) \in Nat /\ f = [i \in 1..Len(f) |-> f[i]]
             /\ Len(f) = 0 => len = z
             /\ Len(f) # 0 => Number(f) = z
<1>1. PICK len, e, f : len = Length(z) /\ e = FieldLen(len) /\ f = Field(z, e)
  BY Zenon
<1>2. /\ z \in Nat /\ len \in 0..127 /\ e \in {0, 2, 8}
      /\ f \in Seq(Octet) /\ Len(f) = e
      /\ e = 0 => len = z
      /\ e # 0 => Number(f) = z
      /\ e = Needed(z)
      /\ len = IF e = 0 THEN z ELSE IF e = 2 THEN 126 ELSE 127
  BY <1>1, SizeOfFrame, SMT
<1>3. len \in Octet /\ len % 128 = len
  BY <1>2, SMT DEF Octet
<1>4. Byte \in Octet
  BY DEF SocketAssumption, Octet
<1> DEFINE head == <<129, len>> \o f
           hrs == [i \in 1..Len(head) |-> [n |-> 1, byte |-> head[i]]]
<1>5. Runs(z) = hrs \o Run(z, Byte)
  BY <1>1, <1>2, ZenonT(40) DEF Runs
<1>6. /\ head \in Seq(Octet) /\ Len(head) = e + 2 /\ head[2] = len
      /\ \A i \in 1..e : head[i + 2] = f[i]
  <2>1. <<129, len>> \in Seq(Octet) /\ Len(<<129, len>>) = 2 /\ <<129, len>>[2] = len
    BY <1>3, SMT DEF Octet
  <2> HIDE DEF Octet
  <2> QED
    BY <1>2, <2>1, SMT
<1> HIDE DEF head
<1>7. /\ hrs \in Seq(RunKind) /\ Len(hrs) = e + 2
      /\ \A i \in 1..(e + 2) : hrs[i] = [n |-> 1, byte |-> head[i]]
  <2>1. \A i \in 1..Len(head) : [n |-> 1, byte |-> head[i]] \in RunKind
    <3> HIDE DEF Octet
    <3> QED
      BY <1>6, SMT DEF RunKind
  <2>2. hrs \in [1..Len(head) -> RunKind] /\ Len(head) \in Nat
    BY <1>6, <2>1
  <2> HIDE DEF RunKind
  <2>3. hrs \in Seq(RunKind) /\ Len(hrs) = Len(head)
    BY <2>2, TupleIsSeq, ZenonT(40)
  <2>4. \A i \in 1..Len(head) : hrs[i] = [n |-> 1, byte |-> head[i]]
    BY Zenon
  <2> QED
    BY <1>6, <2>3, <2>4, Zenon
<1> HIDE DEF hrs
<1>8. /\ Run(z, Byte) \in Seq(RunKind) /\ Len(Run(z, Byte)) = IF z = 0 THEN 0 ELSE 1
      /\ z # 0 => Run(z, Byte)[1] = [n |-> z, byte |-> Byte]
  BY <1>2, <1>4, OneRun
<1>9. RunsOf(Runs(z), z, len, f)
  <2>1. PICK r, t, hd, n : r = Runs(z) /\ t = Run(z, Byte) /\ hd = hrs /\ n = e + 2
    BY Zenon
  <2>2. hd \in Seq(RunKind) /\ t \in Seq(RunKind) /\ r = hd \o t
    BY <1>5, <1>7, <1>8, <2>1, Zenon
  <2>3. /\ r \in Seq(RunKind) /\ Len(r) = Len(hd) + Len(t)
        /\ \A i \in 1..(Len(hd) + Len(t)) : r[i] = IF i <= Len(hd) THEN hd[i] ELSE t[i - Len(hd)]
    BY <2>2, ConcatProperties, Zenon
  <2>4. /\ n = e + 2 /\ n \in Nat /\ Len(hd) = n /\ Len(t) = IF z = 0 THEN 0 ELSE 1
        /\ \A i \in 1..n : hd[i] = [n |-> 1, byte |-> head[i]]
        /\ z # 0 => t[1] = [n |-> z, byte |-> Byte]
    BY <1>2, <1>7, <1>8, <2>1, SMT
  <2>5. Len(r) = n + (IF z = 0 THEN 0 ELSE 1)
    BY <2>3, <2>4, Zenon
  <2>6. \A i \in 1..n : r[i] = hd[i]
    <3>1. \A i \in 1..n : i \in 1..(n + Len(t)) /\ i <= n
      BY <2>4, SMT
    <3> QED
      BY <2>3, <2>4, <3>1, Zenon
  <2>7. z # 0 => r[n + 1] = [n |-> z, byte |-> Byte]
    <3>1. z # 0 => n + 1 \in 1..(n + Len(t)) /\ ~(n + 1 <= n) /\ n + 1 - n = 1
      BY <2>4, SMT
    <3>2. \A i, k : i = n + 1 /\ k = 1 /\ z # 0 => r[i] = t[k]
      BY <2>3, <2>4, <3>1, SMT
    <3>3. z # 0 => r[n + 1] = t[1]
      BY <3>2, Zenon
    <3> QED
      BY <2>4, <3>3, Zenon
  <2>8. \A i \in 1..n : r[i].n = 1 /\ r[i].byte = head[i]
    BY <2>4, <2>6
  <2>9. r[2] = [n |-> 1, byte |-> len]
    <3>1. 2 \in 1..n
      BY <1>2, <2>4, SMT
    <3> QED
      BY <1>6, <2>4, <2>6, <3>1
  <2>10. \A i \in 1..e : r[i + 2].byte = f[i]
    <3>1. \A i \in 1..e : i + 2 \in 1..n
      BY <1>2, <2>4, SMT
    <3> QED
      BY <1>6, <2>8, <3>1, Zenon
  <2>11. 2 + Len(f) = n /\ Len(f) + 3 = n + 1 /\ Len(f) = e
    BY <1>2, <2>4, SMT
  <2> QED
    BY <2>1, <2>3, <2>5, <2>7, <2>8, <2>9, <2>10, <2>11, Zenon DEF RunsOf
<1>10. f = [i \in 1..e |-> f[i]]
  BY <1>1, Zenon DEF Field
<1> QED
  <2>1. FieldLen(len) = Len(f) /\ Len(f) \in Nat /\ f = [i \in 1..Len(f) |-> f[i]]
    BY <1>1, <1>2, <1>10, SMT
  <2>2. /\ Len(f) = 0 => len = z
        /\ Len(f) # 0 => Number(f) = z
        /\ f \in Seq(Octet)
    BY <1>2, Zenon
  <2> QED
    BY <1>3, <1>9, <2>1, <2>2, Zenon

(* What Read makes of the first frame, when its runs are on top of inbound. *)
LEMMA FirstFrame ==
    ASSUME SocketAssumption, NEW z \in Sizes, inbound \in Seq(RunKind), NEW whole \in BOOLEAN,
           \A i \in 1..Len(Runs(z)) : i <= Len(inbound) => IsRun(inbound, i, Runs(z)[i], whole)
    PROVE  /\ Runs(z) \in Seq(RunKind) /\ Len(Runs(z)) \in Nat /\ Len(Runs(z)) >= 2
           /\ BodyHere => /\ Len(Runs(z)) <= Len(inbound)
                          /\ HeaderLen = Len(Runs(z)) - (IF z = 0 THEN 0 ELSE 1)
                          /\ BodyLen = z
                          /\ z # 0 => inbound[HeaderLen + 1] = [n |-> z, byte |-> Byte]
           /\ whole /\ Len(Runs(z)) <= Len(inbound) => BodyHere
<1>0. z \in Nat
  BY DEF SocketAssumption
<1>a. PICK len \in Octet, f \in Seq(Octet) :
        /\ RunsOf(Runs(z), z, len, f)
        /\ len % 128 = len /\ FieldLen(len) = Len(f)
        /\ Len(f) \in Nat /\ f = [i \in 1..Len(f) |-> f[i]]
        /\ Len(f) = 0 => len = z
        /\ Len(f) # 0 => Number(f) = z
  BY RunsShape, ZenonT(40)
<1>1. PICK r, e, k :
        /\ r = Runs(z) /\ e = Len(f) /\ k = Len(inbound)
        /\ RunsOf(r, z, len, f)
        /\ len % 128 = len /\ FieldLen(len) = e
        /\ e \in Nat /\ f = [i \in 1..e |-> f[i]]
        /\ e = 0 => len = z
        /\ e # 0 => Number(f) = z
  BY <1>a, Zenon
<1>2. /\ r \in Seq(RunKind)
      /\ Len(r) = 2 + e + (IF z = 0 THEN 0 ELSE 1)
      /\ r[2] = [n |-> 1, byte |-> len]
      /\ \A i \in 1..(2 + e) : r[i].n = 1
      /\ \A i \in 1..e : r[i + 2].byte = f[i]
      /\ z # 0 => r[e + 3] = [n |-> z, byte |-> Byte]
  BY <1>1, Zenon DEF RunsOf
<1> HIDE DEF Octet, RunKind
<1>3. k \in Nat /\ k = Len(inbound)
  BY <1>1
<1>4. \A i \in 1..(2 + e) : i <= k => inbound[i] = r[i]
  <2> SUFFICES ASSUME NEW i \in 1..(2 + e), i <= k
               PROVE  inbound[i] = r[i]
    OBVIOUS
  <2>1. i \in 1..Len(r)
    BY <1>0, <1>1, <1>2, SMT
  <2>2. IsRun(inbound, i, r[i], whole)
    BY <1>1, <2>1, Zenon
  <2>3. ~(r[i].n > 1)
    BY <1>2, SMT
  <2> QED
    BY <2>2, <2>3, Zenon DEF IsRun
<1>5. k >= 2 => HeaderLen = 2 + e /\ inbound[2].byte % 128 = len
  <2>1. k >= 2 => inbound[2] = [n |-> 1, byte |-> len]
    <3>1. 2 \in 1..(2 + e)
      BY <1>1, SMT
    <3> QED
      BY <1>2, <1>4, <1>3, <3>1, SMT
  <2>2. k >= 2 => inbound[2].byte = len
    BY <2>1
  <2>3. k >= 2 => inbound[2].byte % 128 = len
    BY <1>1, <2>2, Zenon
  <2> QED
    BY <1>1, <2>3, Zenon DEF HeaderLen
<1>6. ASSUME k >= 2 + e
      PROVE  HeaderLen = 2 + e /\ BodyLen = z
  <2>1. k >= 2
    BY <1>1, <1>3, <1>6, SMT
  <2>2. HeaderLen = 2 + e /\ inbound[2].byte % 128 = len
    BY <1>5, <2>1
  <2>3. \A i \in 1..e : inbound[i + 2].byte = f[i]
    <3> SUFFICES ASSUME NEW i \in 1..e
                 PROVE  inbound[i + 2].byte = f[i]
      OBVIOUS
    <3>1. i + 2 \in 1..(2 + e) /\ i + 2 <= k
      BY <1>1, <1>3, <1>6, SMT
    <3>2. inbound[i + 2] = r[i + 2]
      BY <1>4, <3>1, Zenon
    <3> QED
      BY <1>2, <3>2, Zenon
  <2>4. [i \in 1..e |-> inbound[i + 2].byte] = f
    BY <1>1, <2>3, Zenon
  <2>5. BodyLen = IF e = 0 THEN len ELSE Number(f)
    BY <1>1, <2>2, <2>4, Zenon DEF BodyLen
  <2> QED
    BY <1>1, <2>2, <2>5, Zenon
<1>7. Len(r) \in Nat /\ Len(r) >= 2
  BY <1>0, <1>1, <1>2, SMT
<1>8. HeaderHere <=> k >= 2 + e
  <2>1. HeaderHere <=> k >= 2 /\ k >= HeaderLen
    BY <1>1, Zenon DEF HeaderHere
  <2> QED
    BY <1>1, <1>3, <1>5, <2>1, SMT
<1>9. z # 0 /\ 3 + e <= k => /\ IsRun(inbound, e + 3, [n |-> z, byte |-> Byte], whole)
                             /\ inbound[e + 3].n \in Nat
  <2>1. z # 0 /\ 3 + e <= k => e + 3 \in 1..Len(r) /\ e + 3 <= Len(inbound) /\ e + 3 \in 1..Len(inbound)
    BY <1>0, <1>1, <1>2, <1>3, SMT
  <2>2. \A i \in 1..Len(inbound) : inbound[i] \in RunKind
    BY ElementOfSeq
  <2>3. z # 0 /\ 3 + e <= k => inbound[e + 3].n \in Nat
    <3>1. z # 0 /\ 3 + e <= k => inbound[e + 3] \in RunKind
      BY <2>1, <2>2, Zenon
    <3> QED
      BY <3>1 DEF RunKind
  <2> QED
    BY <1>1, <1>2, <2>1, <2>3, Zenon
<1>10. ASSUME BodyHere
       PROVE  /\ Len(r) <= k
              /\ HeaderLen = Len(r) - (IF z = 0 THEN 0 ELSE 1)
              /\ BodyLen = z
              /\ z # 0 => inbound[HeaderLen + 1] = [n |-> z, byte |-> Byte]
  <2>1. HeaderHere /\ (BodyLen = 0 \/ (k > HeaderLen /\ inbound[HeaderLen + 1].n >= BodyLen))
    BY <1>1, <1>10, Zenon DEF BodyHere
  <2>2. k >= 2 + e /\ HeaderLen = 2 + e /\ BodyLen = z
    BY <1>6, <1>8, <2>1
  <2>3. z # 0 => 3 + e <= k /\ inbound[e + 3].n >= z
    <3>1. HeaderLen + 1 = e + 3
      BY <1>1, <2>2, SMT
    <3>2. z # 0 => k > HeaderLen /\ inbound[e + 3].n >= z
      BY <2>1, <2>2, <3>1, Zenon
    <3> QED
      BY <1>1, <1>3, <2>2, <3>2, SMT
  <2>4. z # 0 => inbound[e + 3] = [n |-> z, byte |-> Byte]
    <3>1. z # 0 => IsRun(inbound, e + 3, [n |-> z, byte |-> Byte], whole) /\ inbound[e + 3].n \in Nat
      BY <1>9, <2>3, Zenon
    <3>2. z # 0 => ~(inbound[e + 3].n = z - 1)
      BY <1>0, <2>3, <3>1, SMT
    <3>3. [n |-> z, byte |-> Byte].n = z
      BY Zenon
    <3> QED
      BY <3>1, <3>2, <3>3, Zenon DEF IsRun
  <2>5. e + 3 = HeaderLen + 1
    BY <1>1, <2>2, SMT
  <2>6. Len(r) <= k /\ HeaderLen = Len(r) - (IF z = 0 THEN 0 ELSE 1)
    BY <1>1, <1>2, <1>3, <2>2, <2>3, SMT
  <2> QED
    BY <2>2, <2>4, <2>5, <2>6, Zenon
<1>11. ASSUME whole, Len(r) <= k
       PROVE  BodyHere
  <2>1. k >= 2 + e /\ (z # 0 => 3 + e <= k)
    BY <1>1, <1>2, <1>3, <1>11, SMT
  <2>2. HeaderHere /\ HeaderLen = 2 + e /\ BodyLen = z
    BY <1>6, <1>8, <2>1
  <2>3. z # 0 => inbound[e + 3] = [n |-> z, byte |-> Byte]
    BY <1>9, <1>11, <2>1, Zenon DEF IsRun
  <2>4. z # 0 => inbound[e + 3].n = z /\ z >= z
    BY <1>0, <2>3
  <2>5. HeaderLen + 1 = e + 3 /\ (z # 0 => k > HeaderLen)
    BY <1>1, <1>3, <2>1, <2>2, SMT
  <2> QED
    BY <1>1, <2>2, <2>4, <2>5, Zenon DEF BodyHere
<1> QED
  BY <1>1, <1>2, <1>7, <1>10, <1>11, Zenon

LEMMA MessageKind ==
    ASSUME SocketAssumption
    PROVE  /\ \A z \in Sizes : Message(z) \in Messages /\ Message(z).n = z
           /\ \A m \in Messages : m.n \in Sizes /\ m = Message(m.n)
BY DEF Messages, Message

LEMMA RunsTyped ==
    ASSUME SocketAssumption, NEW z \in Sizes
    PROVE  Runs(z) \in Seq(RunKind) /\ Len(Runs(z)) \in Nat /\ Len(Runs(z)) >= 2
<1>1. PICK r : r = Runs(z)
  OBVIOUS
<1>2. PICK len \in Octet, f \in Seq(Octet) : RunsOf(r, z, len, f)
  BY <1>1, RunsShape, Zenon
<1>3. Len(f) \in Nat
  BY DEF Octet
<1>4. r \in Seq(RunKind) /\ Len(r) = 2 + Len(f) + (IF z = 0 THEN 0 ELSE 1)
  BY <1>2, Zenon DEF RunsOf
<1>5. Len(r) \in Nat /\ Len(r) >= 2
  BY <1>3, <1>4, SMT
<1> QED
  BY <1>1, <1>4, <1>5

(* The messages on their way, one by one. *)
LEMMA ComingOnes ==
    ASSUME SocketTypes, Len(received) <= Len(pushed)
    PROVE  /\ Coming \in Seq(Messages) /\ Len(Coming) = Len(pushed) - Len(received)
           /\ Len(Coming) \in Nat
           /\ \A j \in 1..Len(Coming) : Coming[j] = pushed[Len(received) + j]
<1>1. pushed \in Seq(Messages) /\ received \in Seq(Messages)
  BY DEF SocketTypes
<1> HIDE DEF Messages
<1> QED
  BY <1>1, SMT DEF Coming

(* The messages of msgs and then one of size z. *)
Follows(more, msgs, z) ==
    /\ Len(more) = Len(msgs) + 1
    /\ \A j \in 1..Len(msgs) : more[j] = msgs[j]
    /\ more[Len(msgs) + 1].n = z

(* A frame that is written after the last one is laid there. *)
LEMMA LaidAppend ==
    ASSUME SocketAssumption, NEW z \in Sizes, NEW msgs \in Seq(Messages),
           NEW runs \in Seq(RunKind), Lies(msgs, runs, TRUE),
           NEW more, Follows(more, msgs, z)
    PROVE  Lies(more, runs \o Runs(z), TRUE)
<1>0. PICK n, runs2 : n = Len(msgs) /\ runs2 = runs \o Runs(z)
  BY Zenon
<1>a. n \in Nat /\ \A j \in 1..n : msgs[j].n \in Sizes
  <2>1. n \in Nat
    BY <1>0 DEF Messages
  <2> QED
    BY <1>0, <2>1, ElementOfSeq, MessageKind, Zenon
<1>b. Len(more) = n + 1 /\ (\A j \in 1..n : more[j] = msgs[j]) /\ more[n + 1].n = z
  BY <1>0, Zenon DEF Follows
<1>c. PICK start \in [0..n -> Nat] : Laid(start, msgs, runs, TRUE)
  BY <1>0, Zenon DEF Lies
<1>1. PICK r, w, k : r = Runs(z) /\ w = Len(r) /\ k = Len(runs)
  BY Zenon
<1>2. r \in Seq(RunKind) /\ w \in Nat /\ w >= 2 /\ k \in Nat
  BY <1>1, RunsTyped, SMT
<1>3. /\ start[0] = 0 /\ k = start[n]
      /\ \A i \in 0..n : \A j \in i..n : start[i] <= start[j]
      /\ \A j \in 1..n :
           /\ start[j] = start[j - 1] + Len(Runs(msgs[j].n))
           /\ \A i \in 1..Len(Runs(msgs[j].n)) :
                start[j - 1] + i <= k => IsRun(runs, start[j - 1] + i, Runs(msgs[j].n)[i], TRUE)
  BY <1>0, <1>1, <1>c, Zenon DEF Laid
<1> DEFINE start2 == [j \in 0..(n + 1) |-> IF j <= n THEN start[j] ELSE k + w]
<1>4. /\ start2 \in [0..(n + 1) -> Nat]
      /\ \A j \in 0..n : start2[j] = start[j] /\ start2[j] \in Nat
      /\ start2[n + 1] = k + w
  BY <1>a, <1>2, SMT
<1> HIDE DEF start2, RunKind
<1>5. /\ Len(runs2) = k + w
      /\ \A i \in 1..k : runs2[i] = runs[i]
      /\ \A i \in 1..w : runs2[k + i] = r[i]
  <2>1. runs2 = runs \o r /\ runs \in Seq(RunKind) /\ r \in Seq(RunKind)
    BY <1>0, <1>1, <1>2, Zenon
  <2> QED
    BY <1>1, <1>2, <2>1, SMT
<1>6. start2[0] = 0 /\ Len(runs2) = start2[Len(more)]
  BY <1>a, <1>b, <1>3, <1>4, <1>5, SMT
<1>7. \A i \in 0..Len(more) : \A j \in i..Len(more) : start2[i] <= start2[j]
  <2> SUFFICES ASSUME NEW i \in 0..(n + 1), NEW j \in i..(n + 1)
               PROVE  start2[i] <= start2[j]
    BY <1>b, Zenon
  <2>1. CASE j <= n
    <3>1. i \in 0..n /\ j \in 0..n /\ j \in i..n
      BY <1>a, <2>1, SMT
    <3> QED
      BY <1>3, <1>4, <3>1, Zenon
  <2>2. CASE j = n + 1 /\ i <= n
    <3>1. start[i] <= start[n] /\ start[i] \in Nat
      BY <1>a, <1>3, <1>4, <2>2, SMT
    <3>2. start2[i] = start[i] /\ start2[j] = k + w
      BY <1>a, <1>4, <2>2, SMT
    <3> QED
      BY <1>2, <1>3, <3>1, <3>2, SMT
  <2>3. CASE j = n + 1 /\ i = n + 1
    BY <1>a, <1>2, <1>4, <2>3, SMT
  <2> QED
    BY <1>a, <2>1, <2>2, <2>3, SMT
<1>8. ASSUME NEW j \in 1..(n + 1)
      PROVE  /\ start2[j] = start2[j - 1] + Len(Runs(more[j].n))
             /\ \A i \in 1..Len(Runs(more[j].n)) :
                  start2[j - 1] + i <= Len(runs2)
                     => IsRun(runs2, start2[j - 1] + i, Runs(more[j].n)[i], TRUE)
  <2>1. CASE j \in 1..n
    <3>1. more[j].n = msgs[j].n /\ msgs[j].n \in Sizes
      BY <1>a, <1>b, <2>1, Zenon
    <3>2. PICK s, m : s = Runs(msgs[j].n) /\ m = Len(s)
      BY Zenon
    <3>3. m \in Nat
      BY <3>1, <3>2, RunsTyped, Zenon
    <3>4. j - 1 \in 0..n /\ j \in 0..n
      BY <1>a, <2>1, SMT
    <3>5. start2[j - 1] = start[j - 1] /\ start2[j] = start[j] /\ start[j - 1] \in Nat /\ start[j] \in Nat
      BY <1>4, <3>4, Zenon
    <3>6. start[j] = start[j - 1] + m
      BY <1>3, <2>1, <3>2, Zenon
    <3>7. ASSUME NEW i \in 1..m
          PROVE  IsRun(runs2, start2[j - 1] + i, s[i], TRUE)
      <4>1. start[j] <= k
        <5>1. n \in j..n
          BY <1>a, <2>1, SMT
        <5> QED
          BY <1>3, <3>4, <5>1, Zenon
      <4>2. PICK p, a, b : p = start[j - 1] + i /\ a = start[j - 1] /\ b = start[j]
        BY Zenon
      <4>3. p \in 1..k /\ p <= k
        <5>1. p = a + i /\ b = a + m /\ b <= k /\ a \in Nat /\ b \in Nat
          BY <3>5, <3>6, <4>1, <4>2, Zenon
        <5> QED
          BY <1>2, <3>3, <5>1, SMT
      <4>4. IsRun(runs, p, s[i], TRUE)
        BY <1>3, <2>1, <3>2, <4>2, <4>3, Zenon
      <4>5. runs[p] = s[i] /\ runs2[p] = runs[p]
        BY <1>5, <4>3, <4>4, Zenon DEF IsRun
      <4> QED
        BY <3>5, <4>2, <4>5, Zenon DEF IsRun
    <3> QED
      BY <3>1, <3>2, <3>5, <3>6, <3>7, Zenon
  <2>2. CASE j = n + 1
    <3>1. more[j].n = z /\ start2[j] = k + w
      BY <1>b, <1>4, <2>2, Zenon
    <3>2. j - 1 = n /\ n \in 0..n
      <4>1. n \in Nat /\ (n + 1) - 1 = n
        BY <1>a, SMT
      <4> QED
        BY <2>2, <4>1
    <3>3. start2[j - 1] = k
      BY <1>3, <1>4, <3>2, Zenon
    <3>4. \A i \in 1..w : IsRun(runs2, k + i, r[i], TRUE)
      BY <1>5, Zenon DEF IsRun
    <3> QED
      BY <1>1, <3>1, <3>3, <3>4, Zenon
  <2>3. j \in 1..n \/ j = n + 1
    BY <1>a, SMT
  <2> QED
    BY <2>1, <2>2, <2>3, Zenon
<1>9. Laid(start2, more, runs2, TRUE)
  <2>1. Len(runs2) <= start2[Len(more)]
    BY <1>2, <1>5, <1>6, SMT
  <2> QED
    BY <1>b, <1>6, <1>7, <1>8, <2>1, Zenon DEF Laid
<1> QED
  BY <1>0, <1>b, <1>4, <1>9, Zenon DEF Lies

(* What a break leaves of the frames lies where it lay. *)
LEMMA LaidCut ==
    ASSUME SocketAssumption, NEW n \in Nat, NEW start \in [0..n -> Nat],
           NEW msgs, Len(msgs) = n, \A j \in 1..n : msgs[j].n \in Sizes,
           NEW runs \in Seq(RunKind), Laid(start, msgs, runs, TRUE),
           NEW runs2 \in Seq(RunKind), Len(runs2) <= Len(runs),
           \A i \in 1..Len(runs2) :
              \/ runs2[i] = runs[i]
              \/ i = Len(runs2) /\ runs[i].n > 1 /\ runs2[i].n = runs[i].n - 1
    PROVE  Laid(start, msgs, runs2, FALSE)
<1>1. PICK k, k2 : k = Len(runs) /\ k2 = Len(runs2)
  BY Zenon
<1>2. k \in Nat /\ k2 \in Nat /\ k2 <= k
  BY <1>1
<1>3. /\ start[0] = 0 /\ k = start[n]
      /\ \A i \in 0..n : \A j \in i..n : start[i] <= start[j]
      /\ \A j \in 1..n :
           /\ start[j] = start[j - 1] + Len(Runs(msgs[j].n))
           /\ \A i \in 1..Len(Runs(msgs[j].n)) :
                start[j - 1] + i <= k => IsRun(runs, start[j - 1] + i, Runs(msgs[j].n)[i], TRUE)
  BY <1>1, Zenon DEF Laid
<1>4. ASSUME NEW j \in 1..n, NEW i \in 1..Len(Runs(msgs[j].n)), start[j - 1] + i <= k2
      PROVE  IsRun(runs2, start[j - 1] + i, Runs(msgs[j].n)[i], FALSE)
  <2>1. PICK p, r : p = start[j - 1] + i /\ r = Runs(msgs[j].n)
    BY Zenon
  <2>2. Len(r) \in Nat /\ start[j - 1] \in Nat
    <3>1. msgs[j].n \in Sizes /\ j - 1 \in 0..n
      BY SMT
    <3>2. start[j - 1] \in Nat
      BY <3>1, Zenon
    <3> QED
      BY <2>1, <3>1, <3>2, RunsTyped, Zenon
  <2>3. i \in 1..Len(r) /\ p = start[j - 1] + i /\ p <= k2
    BY <1>4, <2>1, Zenon
  <2>4. p \in 1..k2 /\ p <= k
    BY <1>2, <2>2, <2>3, SMT
  <2>5. IsRun(runs, p, r[i], TRUE)
    BY <1>3, <2>1, <2>4, Zenon
  <2>6. runs[p] = r[i]
    BY <2>5, Zenon DEF IsRun
  <2>7. runs2[p] = runs[p] \/ (p = k2 /\ runs[p].n > 1 /\ runs2[p].n = runs[p].n - 1)
    BY <1>1, <2>4, Zenon
  <2> QED
    BY <1>1, <2>1, <2>6, <2>7, Zenon DEF IsRun
<1>5. k2 <= start[n]
  BY <1>2, <1>3
<1> QED
  BY <1>1, <1>3, <1>4, <1>5, Zenon DEF Laid

(* A position that is d further up, among those that there are. *)
FurtherUp(a, d, k, i, p) == p \in 1..(k - d) /\ p + d = a + i /\ a + i <= k

LEMMA MovedUp ==
    \A a, d, k, i, p :
        /\ a \in Nat /\ d \in Nat /\ k \in Nat /\ d <= a /\ i \in Nat \ {0}
        /\ p = a - d + i /\ p <= k - d
        => FurtherUp(a, d, k, i, p)
BY DEF FurtherUp

LEMMA DropProperties ==
    ASSUME NEW T, NEW s \in Seq(T), NEW d \in 0..Len(s)
    PROVE  /\ SubSeq(s, d + 1, Len(s)) \in Seq(T)
           /\ Len(SubSeq(s, d + 1, Len(s))) = Len(s) - d
           /\ \A i \in 1..(Len(s) - d) : SubSeq(s, d + 1, Len(s))[i] = s[i + d]
BY SMT

(* When the first frame is taken, those behind it lie that much further up. *)
Rests(rest, runs, d, whole) ==
    /\ SubSeq(runs, d + 1, Len(runs)) \in Seq(RunKind)
    /\ Lies(rest, SubSeq(runs, d + 1, Len(runs)), whole)

(* The messages of msgs without the first. *)
Behind(rest, msgs) ==
    /\ Len(rest) = Len(msgs) - 1
    /\ \A j \in 1..(Len(msgs) - 1) : rest[j] = msgs[j + 1]

LEMMA LaidDrop ==
    ASSUME SocketAssumption, NEW msgs \in Seq(Messages), Len(msgs) # 0,
           NEW runs \in Seq(RunKind), NEW whole \in BOOLEAN, Lies(msgs, runs, whole),
           NEW d, d = Len(Runs(msgs[1].n)), d <= Len(runs), NEW rest, Behind(rest, msgs)
    PROVE  Rests(rest, runs, d, whole)
<1>a. PICK n : n = Len(msgs)
  BY Zenon
<1>b. n \in Nat \ {0} /\ \A j \in 1..n : msgs[j].n \in Sizes
  <2>1. n \in Nat \ {0}
    BY <1>a DEF Messages
  <2> QED
    BY <1>a, <2>1, ElementOfSeq, MessageKind, Zenon
<1>c. Len(rest) = n - 1 /\ \A j \in 1..(n - 1) : rest[j] = msgs[j + 1]
  BY <1>a, Zenon DEF Behind
<1>d. PICK start \in [0..n -> Nat] : Laid(start, msgs, runs, whole)
  BY <1>a, Zenon DEF Lies
<1>e. d = start[1] /\ d \in Nat
  <2>1. 1 \in 1..n /\ 1 - 1 = 0
    BY <1>b, SMT
  <2>2. start[1] = start[1 - 1] + Len(Runs(msgs[1].n)) /\ start[0] = 0
    BY <1>a, <1>d, <2>1, Zenon DEF Laid
  <2>3. msgs[1].n \in Sizes
    BY <1>b, <2>1, Zenon
  <2>4. d \in Nat
    BY <2>3, RunsTyped, Zenon
  <2>5. start[1] = 0 + d
    BY <2>1, <2>2, Zenon
  <2> QED
    BY <2>4, <2>5, SMT
<1>1. PICK k, runs2 : k = Len(runs) /\ runs2 = SubSeq(runs, d + 1, Len(runs))
  BY Zenon
<1>2. k \in Nat /\ d \in Nat /\ d <= k /\ n - 1 \in Nat
  BY <1>b, <1>e, <1>1, SMT
<1>3. /\ start[0] = 0 /\ k <= start[n]
      /\ \A i \in 0..n : \A j \in i..n : start[i] <= start[j]
      /\ \A j \in 1..n :
           /\ start[j] = start[j - 1] + Len(Runs(msgs[j].n))
           /\ \A i \in 1..Len(Runs(msgs[j].n)) :
                start[j - 1] + i <= k => IsRun(runs, start[j - 1] + i, Runs(msgs[j].n)[i], whole)
      /\ whole => k = start[n]
  BY <1>a, <1>1, <1>d, Zenon DEF Laid
<1> DEFINE start2 == [j \in 0..(n - 1) |-> start[j + 1] - d]
<1>4. \A j \in 1..n : start[j] \in Nat /\ d <= start[j]
  <2> SUFFICES ASSUME NEW j \in 1..n PROVE start[j] \in Nat /\ d <= start[j]
    OBVIOUS
  <2>1. 1 \in 0..n /\ j \in 1..n /\ j \in 0..n
    BY <1>b, SMT
  <2> QED
    BY <1>e, <1>3, <2>1, Zenon
<1>5. /\ start2 \in [0..(n - 1) -> Nat]
      /\ \A j \in 0..(n - 1) : start2[j] = start[j + 1] - d /\ j + 1 \in 1..n
  <2>1. \A j \in 0..(n - 1) : j + 1 \in 1..n /\ start[j + 1] - d \in Nat
    BY <1>b, <1>2, <1>4, SMT
  <2> QED
    BY <2>1, Zenon
<1> HIDE DEF start2, RunKind
<1>6. /\ runs2 \in Seq(RunKind) /\ Len(runs2) = k - d
      /\ \A i \in 1..(k - d) : runs2[i] = runs[i + d]
  <2>1. d \in 0..Len(runs)
    BY <1>1, <1>2
  <2> QED
    BY <1>1, <2>1, DropProperties, Zenon
<1>7. /\ start2[0] = 0 /\ Len(runs2) <= start2[n - 1] /\ (whole => Len(runs2) = start2[n - 1])
  <2>1. 0 \in 0..(n - 1) /\ n - 1 \in 0..(n - 1) /\ n - 1 + 1 = n /\ 0 + 1 = 1 /\ n \in 1..n
    BY <1>b, <1>2, SMT
  <2>2. start2[0] = start[1] - d /\ start2[n - 1] = start[n] - d /\ start[n] \in Nat
    BY <1>4, <1>5, <2>1, Zenon
  <2>3. start[1] - d = 0
    BY <1>e, SMT
  <2>4. PICK c \in Nat : c = start[n]
    BY <2>2
  <2>5. k <= c /\ (whole => k = c)
    BY <1>3, <2>4, Zenon
  <2>6. k - d <= c - d /\ (whole => k - d = c - d)
    BY <1>2, <2>5, SMT
  <2> QED
    BY <1>6, <2>2, <2>3, <2>4, <2>6, Zenon
<1>8. ASSUME NEW i \in 0..(n - 1), NEW j \in i..(n - 1)
      PROVE  start2[i] <= start2[j]
  <2>1. /\ j \in 0..(n - 1) /\ i + 1 \in 0..n /\ j + 1 \in (i + 1)..n
        /\ i + 1 \in 1..n /\ j + 1 \in 1..n
    BY <1>b, <1>2, SMT
  <2>2. PICK a, b : a = start[i + 1] /\ b = start[j + 1]
    BY Zenon
  <2>3. a \in Nat /\ b \in Nat /\ a <= b
    BY <1>3, <1>4, <2>1, <2>2, Zenon
  <2>4. start2[i] = a - d /\ start2[j] = b - d
    BY <1>5, <2>1, <2>2, Zenon
  <2> QED
    BY <1>2, <2>3, <2>4, SMT
<1>9. ASSUME NEW j \in 1..(n - 1)
      PROVE  /\ start2[j] = start2[j - 1] + Len(Runs(rest[j].n))
             /\ \A i \in 1..Len(Runs(rest[j].n)) :
                  start2[j - 1] + i <= Len(runs2)
                     => IsRun(runs2, start2[j - 1] + i, Runs(rest[j].n)[i], whole)
  <2>1. j + 1 \in 1..n /\ j \in 0..(n - 1) /\ j - 1 \in 0..(n - 1) /\ j - 1 + 1 = j /\ j + 1 - 1 = j /\ j \in 1..n
    BY <1>b, <1>2, SMT
  <2>2. PICK a, b, r, w : a = start[j] /\ b = start[j + 1] /\ r = Runs(rest[j].n) /\ w = Len(r)
    BY Zenon
  <2>3. r = Runs(msgs[j + 1].n) /\ msgs[j + 1].n \in Sizes
    BY <1>b, <1>c, <2>1, <2>2, Zenon
  <2>4. w \in Nat /\ a \in Nat /\ b \in Nat /\ d <= a
    BY <1>4, <2>1, <2>2, <2>3, RunsTyped, Zenon
  <2>5. start2[j] = b - d /\ start2[j - 1] = a - d
    BY <1>5, <2>1, <2>2, Zenon
  <2>6. /\ b = a + w
        /\ \A i \in 1..w : a + i <= k => IsRun(runs, a + i, r[i], whole)
    <3>1. PICK q : q = j + 1
      BY Zenon
    <3>2. q \in 1..n /\ q - 1 = j /\ r = Runs(msgs[q].n) /\ b = start[q]
      <4>1. q \in 1..n /\ q - 1 = j
        BY <1>b, <1>2, <3>1, SMT
      <4> QED
        BY <2>2, <2>3, <3>1, <4>1, Zenon
    <3>3. /\ start[q] = start[q - 1] + Len(Runs(msgs[q].n))
          /\ \A i \in 1..Len(Runs(msgs[q].n)) :
               start[q - 1] + i <= k => IsRun(runs, start[q - 1] + i, Runs(msgs[q].n)[i], whole)
      BY <1>3, <3>2, Zenon
    <3> QED
      BY <2>2, <3>2, <3>3, Zenon
  <2>7. start2[j] = start2[j - 1] + w
    BY <1>2, <2>4, <2>5, <2>6, SMT
  <2>8. ASSUME NEW i \in 1..w, start2[j - 1] + i <= Len(runs2)
        PROVE  IsRun(runs2, start2[j - 1] + i, r[i], whole)
    <3>1. PICK p : p = start2[j - 1] + i
      BY Zenon
    <3>2. p = a - d + i /\ p <= k - d
      BY <1>6, <2>5, <2>8, <3>1, Zenon
    <3>3. p \in 1..(k - d) /\ p + d = a + i /\ a + i <= k
      <4>1. i \in Nat \ {0}
        BY <2>4
      <4>2. FurtherUp(a, d, k, i, p)
        BY <1>2, <2>4, <3>2, <4>1, MovedUp, Zenon
      <4> QED
        BY <4>2, Zenon DEF FurtherUp
    <3>4. IsRun(runs, p + d, r[i], whole)
      BY <2>6, <3>3, Zenon
    <3>5. runs2[p] = runs[p + d]
      BY <1>6, <3>3, Zenon
    <3>6. p + d = k => p = k - d
      BY <1>2, <3>3, SMT
    <3> QED
      BY <1>1, <1>6, <3>1, <3>4, <3>5, <3>6, Zenon DEF IsRun
  <2> QED
    BY <2>2, <2>7, <2>8, Zenon
<1>10. Laid(start2, rest, runs2, whole)
  BY <1>c, <1>7, <1>8, <1>9, Zenon DEF Laid
<1> QED
  BY <1>1, <1>c, <1>5, <1>6, <1>10, Zenon DEF Lies, Rests

LEMMA SocketStarts ==
    ASSUME SocketInit
    PROVE  SocketInv
<1>1. SocketTypes /\ OutWay
  BY DEF SocketInit, SocketTypes, OutWay
<1>2. InWay
  <2>1. received = << >> /\ pushed = << >> /\ inbound = << >>
    BY DEF SocketInit
  <2>2. Coming = << >> /\ Len(Coming) = 0 /\ Len(inbound) = 0
    BY <2>1, SMT DEF Coming
  <2> DEFINE start == [j \in 0..0 |-> 0]
  <2>3. start \in [0..Len(Coming) -> Nat] /\ start[0] = 0
    BY <2>2
  <2> HIDE DEF start
  <2>4. Laid(start, Coming, inbound, conn = "open")
    <3>1. \A i \in 0..0 : \A j \in i..0 : start[i] <= start[j]
      BY <2>2, <2>3, SMT
    <3>2. 1..0 = {} /\ 0 <= 0
      BY SMT
    <3> QED
      BY <2>2, <2>3, <3>1, <3>2, Zenon DEF Laid
  <2>5. Len(received) <= Len(pushed) /\ \A i \in 1..Len(received) : received[i] = pushed[i]
    BY <2>1
  <2> QED
    BY <2>3, <2>4, <2>5, Zenon DEF InWay, Lies
<1> QED
  BY <1>1, <1>2 DEF SocketInv

(* One direction does not see the steps of the other. *)
LEMMA OutStays ==
    ASSUME OutWay, UNCHANGED <<sent, served, outbound>>, conn' = "open" => conn = "open"
    PROVE  OutWay'
BY DEF OutWay

LEMMA InStays ==
    ASSUME InWay, UNCHANGED <<pushed, received, inbound>>, conn' = "open" <=> conn = "open"
    PROVE  InWay'
<1>1. Coming' = Coming
  BY DEF Coming
<1>2. (conn' = "open") = (conn = "open")
  OBVIOUS
<1>3. Lies(Coming, inbound, conn = "open")' = Lies(Coming, inbound, conn = "open")
  BY <1>1, <1>2, Zenon
<1> QED
  BY <1>1, <1>3 DEF InWay

LEMMA SendKeeps ==
    ASSUME SocketAssumption, SocketInv, NEW z \in Sizes, Send(z)
    PROVE  SocketInv'
<1>0. SocketTypes /\ OutWay /\ InWay
  BY DEF SocketInv
<1>1. PICK m, fr : m = Message(z) /\ fr = Frame(m)
  BY Zenon
<1>2. m \in Messages /\ fr \in Frames
  BY <1>1, MessageKind, Zenon DEF Frames
<1>3. /\ sent \in Seq(Messages) /\ served \in Seq(Messages) /\ outbound \in Seq(Frames)
      /\ sent' = Append(sent, m) /\ outbound' = Append(outbound, fr)
      /\ UNCHANGED <<served, pushed, inbound, received, conn>> /\ conn = "open"
  BY <1>0, <1>1 DEF SocketTypes, Send
<1> HIDE DEF Messages, Frames, RunKind
<1>4. SocketTypes'
  BY <1>0, <1>2, <1>3 DEF SocketTypes
<1>5. OutWay'
  <2>1. PICK a, b, c : a = Len(served) /\ b = Len(outbound) /\ c = Len(sent)
    BY Zenon
  <2>2. a \in Nat /\ b \in Nat /\ c \in Nat /\ a + b = c
    BY <1>0, <1>3, <2>1 DEF OutWay
  <2>3. /\ Len(sent') = c + 1 /\ Len(outbound') = b + 1
        /\ \A i \in 1..c : sent'[i] = sent[i]
        /\ \A i \in 1..b : outbound'[i] = outbound[i]
        /\ sent'[c + 1] = m /\ outbound'[b + 1] = fr
    BY <1>2, <1>3, <2>1
  <2>4. /\ \A i \in 1..a : served[i] = sent[i]
        /\ \A i \in 1..b : outbound[i] = Frame(sent[a + i])
    BY <1>0, <2>1, Zenon DEF OutWay
  <2>5. \A i \in 1..a : served'[i] = sent'[i]
    BY <1>3, <2>2, <2>3, <2>4, SMT
  <2>6. ASSUME NEW i \in 1..(b + 1)
        PROVE  outbound'[i] = Frame(sent'[a + i])
    <3>1. CASE i \in 1..b
      <4>1. a + i \in 1..c
        BY <2>2, <3>1, SMT
      <4> QED
        BY <2>3, <2>4, <3>1, <4>1, Zenon
    <3>2. CASE i = b + 1
      <4>1. a + i = c + 1
        BY <2>2, <3>2, SMT
      <4> QED
        BY <1>1, <2>3, <3>2, <4>1, Zenon
    <3>3. i \in 1..b \/ i = b + 1
      BY <2>2, SMT
    <3> QED
      BY <3>1, <3>2, <3>3
  <2>7. a + (b + 1) = c + 1 /\ a + (b + 1) <= c + 1 /\ Len(served') = a
    BY <1>3, <2>1, <2>2, SMT
  <2> QED
    BY <2>3, <2>5, <2>6, <2>7, Zenon DEF OutWay
<1>6. InWay'
  BY <1>0, <1>3, InStays
<1> QED
  BY <1>4, <1>5, <1>6 DEF SocketInv

LEMMA ServerReadsKeeps ==
    ASSUME SocketAssumption, SocketInv, ServerReads
    PROVE  SocketInv'
<1>0. SocketTypes /\ OutWay /\ InWay
  BY DEF SocketInv
<1>1. PICK fr, m, a, b, c : /\ fr = Head(outbound) /\ m = Decoded(fr)
                            /\ a = Len(served) /\ b = Len(outbound) /\ c = Len(sent)
  BY Zenon
<1>2. /\ sent \in Seq(Messages) /\ served \in Seq(Messages) /\ outbound \in Seq(Frames)
      /\ outbound # << >>
      /\ served' = Append(served, m) /\ outbound' = Tail(outbound)
      /\ UNCHANGED <<sent, pushed, inbound, received, conn>>
  BY <1>0, <1>1 DEF SocketTypes, ServerReads
<1>3. /\ a + b <= c /\ (conn = "open" => a + b = c)
      /\ \A i \in 1..a : served[i] = sent[i]
      /\ \A i \in 1..b : outbound[i] = Frame(sent[a + i])
  BY <1>0, <1>1, Zenon DEF OutWay
<1> HIDE DEF Messages, Frames, RunKind
<1>4. a \in Nat /\ b \in Nat \ {0} /\ c \in Nat
  BY <1>1, <1>2
<1>5. m = sent[a + 1] /\ m \in Messages
  <2>1. fr = outbound[1] /\ 1 \in 1..b /\ a + 1 \in 1..c
    BY <1>1, <1>2, <1>3, <1>4, SMT
  <2>2. PICK x : x = sent[a + 1]
    BY Zenon
  <2>3. x \in Messages /\ fr = Frame(x)
    BY <1>1, <1>2, <1>3, <2>1, <2>2, ElementOfSeq, Zenon
  <2>4. x.n \in Sizes /\ x = Message(x.n)
    BY <2>3, MessageKind, Zenon
  <2>5. Decoded(fr) = x
    BY <2>3, <2>4, ServerUnderstands, Zenon
  <2> QED
    BY <1>1, <2>2, <2>3, <2>5
<1>6. SocketTypes'
  BY <1>0, <1>2, <1>5 DEF SocketTypes
<1>7. OutWay'
  <2>1. /\ Len(served') = a + 1 /\ Len(outbound') = b - 1 /\ Len(sent') = c
        /\ \A i \in 1..a : served'[i] = served[i]
        /\ served'[a + 1] = m
        /\ \A i \in 1..(b - 1) : outbound'[i] = outbound[i + 1]
    BY <1>1, <1>2, <1>4, <1>5
  <2>2. \A i \in 1..(a + 1) : served'[i] = sent'[i]
    <3>1. \A i \in 1..(a + 1) : i \in 1..a \/ i = a + 1
      BY <1>4, SMT
    <3> QED
      BY <1>2, <1>3, <1>5, <2>1, <3>1, Zenon
  <2>3. ASSUME NEW i \in 1..(b - 1)
        PROVE  outbound'[i] = Frame(sent'[(a + 1) + i])
    <3>1. i + 1 \in 1..b /\ a + (i + 1) = (a + 1) + i
      BY <1>4, SMT
    <3> QED
      BY <1>2, <1>3, <2>1, <3>1, Zenon
  <2>4. (a + 1) + (b - 1) = a + b
    BY <1>4, SMT
  <2> QED
    BY <1>2, <1>3, <2>1, <2>2, <2>3, <2>4, Zenon DEF OutWay
<1>8. InWay'
  BY <1>0, <1>2, InStays
<1> QED
  BY <1>6, <1>7, <1>8 DEF SocketInv

LEMMA ServerSendsKeeps ==
    ASSUME SocketAssumption, SocketInv, NEW z \in Sizes, ServerSends(z)
    PROVE  SocketInv'
<1>0. SocketTypes /\ OutWay /\ InWay
  BY DEF SocketInv
<1>1. PICK m, r, n, d : m = Message(z) /\ r = Runs(z) /\ n = Len(Coming) /\ d = Len(received)
  BY Zenon
<1>2. m \in Messages /\ m.n = z /\ r \in Seq(RunKind)
  BY <1>1, MessageKind, RunsTyped, Zenon
<1>3. /\ pushed \in Seq(Messages) /\ received \in Seq(Messages) /\ inbound \in Seq(RunKind)
      /\ pushed' = Append(pushed, m) /\ inbound' = inbound \o r
      /\ UNCHANGED <<sent, outbound, served, received, conn>> /\ conn = "open"
  BY <1>0, <1>1 DEF SocketTypes, ServerSends
<1> HIDE DEF Messages, Frames, RunKind
<1>4. SocketTypes'
  BY <1>0, <1>2, <1>3 DEF SocketTypes
<1>5. OutWay'
  BY <1>0, <1>3, OutStays
<1>6. /\ d <= Len(pushed) /\ d \in Nat /\ n \in Nat /\ n = Len(pushed) - d
      /\ \A i \in 1..d : received[i] = pushed[i]
      /\ Coming \in Seq(Messages)
      /\ \A j \in 1..n : Coming[j] = pushed[d + j]
  <2>1. d \in Nat /\ d <= Len(pushed) /\ \A i \in 1..d : received[i] = pushed[i]
    BY <1>0, <1>1, <1>3 DEF InWay
  <2>2. /\ Coming \in Seq(Messages) /\ n = Len(pushed) - d /\ n \in Nat
        /\ \A j \in 1..n : Coming[j] = pushed[d + j]
    BY <1>0, <1>1, <2>1, ComingOnes, Zenon
  <2> QED
    BY <2>1, <2>2, Zenon
<1>7. /\ Len(received') <= Len(pushed') /\ Len(pushed') = Len(pushed) + 1
      /\ \A i \in 1..Len(received') : received'[i] = pushed'[i]
  BY <1>1, <1>2, <1>3, <1>6
<1>8. /\ Len(Coming') = n + 1
      /\ \A j \in 1..n : Coming'[j] = Coming[j]
      /\ Coming'[n + 1].n = z
  <2>1. /\ Len(Coming') = Len(pushed') - d
        /\ \A j \in 1..(Len(pushed') - d) : Coming'[j] = pushed'[d + j]
    <3>1. SocketTypes' /\ (Len(received) <= Len(pushed))'
      BY <1>4, <1>7
    <3>2. (/\ Len(Coming) = Len(pushed) - Len(received)
           /\ \A j \in 1..Len(Coming) : Coming[j] = pushed[Len(received) + j])'
      BY <3>1, ComingOnes, PTL
    <3> QED
      BY <1>1, <1>3, <3>2, Zenon
  <2>2. Len(pushed') - d = n + 1 /\ \A j \in 1..n : j \in 1..(n + 1) /\ d + j \in 1..Len(pushed)
    BY <1>3, <1>6, <1>7, SMT
  <2>3. \A i \in 1..Len(pushed) : pushed'[i] = pushed[i]
    BY <1>2, <1>3
  <2>4. pushed'[d + (n + 1)] = m /\ n + 1 \in 1..(n + 1)
    BY <1>2, <1>3, <1>6
  <2> QED
    BY <1>2, <1>6, <2>1, <2>2, <2>3, <2>4, Zenon
<1>9. Lies(Coming', inbound', TRUE)
  <2>1. Lies(Coming, inbound, TRUE) /\ inbound' = inbound \o Runs(z)
    BY <1>0, <1>1, <1>3 DEF InWay
  <2>2. PICK more : more = Coming'
    BY Zenon
  <2>3. Follows(more, Coming, z)
    BY <1>1, <1>8, <2>2, Zenon DEF Follows
  <2>4. Lies(more, inbound \o Runs(z), TRUE)
    BY <1>3, <1>6, <2>1, <2>3, LaidAppend, Zenon
  <2> QED
    BY <2>1, <2>2, <2>4, Zenon
<1>10. InWay'
  BY <1>3, <1>7, <1>8, <1>9 DEF InWay
<1> QED
  BY <1>4, <1>5, <1>10 DEF SocketInv

LEMMA BreakKeeps ==
    ASSUME SocketAssumption, SocketInv, Break
    PROVE  SocketInv'
<1>0. SocketTypes /\ OutWay /\ InWay
  BY DEF SocketInv
<1>1. /\ conn = "open" /\ conn' = "broken" /\ UNCHANGED <<sent, served, pushed, received>>
      /\ sent \in Seq(Messages) /\ served \in Seq(Messages) /\ outbound \in Seq(Frames)
      /\ inbound \in Seq(RunKind)
  BY <1>0 DEF Break, SocketTypes
<1>2. PICK k \in 0..Len(inbound), short \in BOOLEAN :
        /\ short => k > 0 /\ inbound[k].n > 1
        /\ inbound' = [i \in 1..k |-> IF short /\ i = k
                                      THEN [inbound[i] EXCEPT !.n = @ - 1] ELSE inbound[i]]
  BY DEF Break
<1>3. PICK l \in 0..Len(outbound) : outbound' = SubSeq(outbound, 1, l)
  BY DEF Break
<1>4. k \in Nat /\ l \in Nat /\ k <= Len(inbound) /\ l <= Len(outbound)
  BY <1>1
<1>5. /\ inbound' \in Seq(RunKind) /\ Len(inbound') = k
      /\ \A i \in 1..k : \/ inbound'[i] = inbound[i]
                         \/ i = k /\ inbound[i].n > 1 /\ inbound'[i].n = inbound[i].n - 1
  <2>1. ASSUME NEW i \in 1..k
        PROVE  /\ inbound'[i] \in RunKind
               /\ \/ inbound'[i] = inbound[i]
                  \/ i = k /\ inbound[i].n > 1 /\ inbound'[i].n = inbound[i].n - 1
    <3>1. PICK x \in RunKind : x = inbound[i]
      <4>1. i \in 1..Len(inbound)
        BY <1>4, SMT
      <4> QED
        BY <1>1, <4>1, ElementOfSeq, Zenon
    <3>2. CASE short /\ i = k
      <4>1. inbound'[i] = [x EXCEPT !.n = @ - 1] /\ x.n > 1
        BY <1>2, <3>1, <3>2
      <4>2. [x EXCEPT !.n = @ - 1] \in RunKind /\ [x EXCEPT !.n = @ - 1].n = x.n - 1
        BY <4>1, SMT DEF RunKind
      <4> QED
        BY <3>1, <3>2, <4>1, <4>2, Zenon
    <3>3. CASE ~(short /\ i = k)
      BY <1>2, <3>1, <3>3, Zenon
    <3> QED
      BY <3>2, <3>3
  <2>2. inbound' = [i \in 1..k |-> inbound'[i]]
    BY <1>2, Zenon
  <2>3. inbound' \in [1..k -> RunKind]
    BY <2>1, <2>2, Zenon
  <2> QED
    BY <1>4, <2>1, <2>3, TupleIsSeq, Zenon
<1> HIDE DEF Messages, Frames, RunKind
<1>6. /\ outbound' \in Seq(Frames) /\ Len(outbound') = l
      /\ \A i \in 1..l : outbound'[i] = outbound[i]
  BY <1>1, <1>3, <1>4
<1>7. SocketTypes'
  BY <1>0, <1>1, <1>5, <1>6 DEF SocketTypes
<1>8. OutWay'
  <2>1. PICK a, b, c : a = Len(served) /\ b = Len(outbound) /\ c = Len(sent)
    BY Zenon
  <2>2. /\ a + b <= c
        /\ \A i \in 1..a : served[i] = sent[i]
        /\ \A i \in 1..b : outbound[i] = Frame(sent[a + i])
    BY <1>0, <2>1, Zenon DEF OutWay
  <2>3. a \in Nat /\ b \in Nat /\ c \in Nat /\ l <= b
    BY <1>1, <1>4, <2>1
  <2>4. a + l <= c /\ \A i \in 1..l : i \in 1..b
    BY <1>4, <2>2, <2>3, SMT
  <2>5. conn' # "open"
    BY <1>1
  <2> QED
    BY <1>1, <1>6, <2>1, <2>2, <2>4, <2>5, Zenon DEF OutWay
<1>9. InWay'
  <2>1. Coming' = Coming
    BY <1>1 DEF Coming
  <2>2. PICK n : n = Len(Coming)
    BY Zenon
  <2>3. PICK start \in [0..n -> Nat] : Laid(start, Coming, inbound, TRUE)
    BY <1>0, <1>1, <2>2 DEF InWay, Lies
  <2>4. n \in Nat /\ Coming \in Seq(Messages)
    BY <1>0, <2>2, ComingOnes, Zenon DEF InWay
  <2>5. \A j \in 1..n : Coming[j].n \in Sizes
    BY <2>2, <2>4, MessageKind, ElementOfSeq, Zenon
  <2>6. Laid(start, Coming, inbound', FALSE)
    BY <1>1, <1>4, <1>5, <2>2, <2>3, <2>4, <2>5, LaidCut, Zenon
  <2>7. (conn' = "open") = FALSE
    BY <1>1
  <2> QED
    BY <1>0, <1>1, <2>1, <2>2, <2>6, <2>7 DEF InWay, Lies
<1> QED
  BY <1>7, <1>8, <1>9 DEF SocketInv

(* The runs of the first frame are on top, as far as they are there. *)
LEMMA OnTop ==
    ASSUME SocketAssumption, SocketTypes, NEW n \in Nat \ {0}, NEW start \in [0..n -> Nat],
           NEW msgs, Len(msgs) = n, msgs[1].n \in Sizes, NEW whole \in BOOLEAN,
           Laid(start, msgs, inbound, whole)
    PROVE  /\ start[1] = Len(Runs(msgs[1].n))
           /\ \A i \in 1..Len(Runs(msgs[1].n)) :
                 i <= Len(inbound) => IsRun(inbound, i, Runs(msgs[1].n)[i], whole)
<1>1. PICK r : r = Runs(msgs[1].n)
  BY Zenon
<1>2. Len(r) \in Nat
  BY <1>1, RunsTyped, Zenon
<1>3. 1 \in 1..n /\ 1 - 1 = 0 /\ \A i \in 1..Len(r) : 0 + i = i
  BY <1>2, SMT
<1>4. /\ start[0] = 0 /\ start[1] = start[1 - 1] + Len(r)
      /\ \A i \in 1..Len(r) :
           start[1 - 1] + i <= Len(inbound) => IsRun(inbound, start[1 - 1] + i, r[i], whole)
  BY <1>1, <1>3, Zenon DEF Laid
<1>5. start[1] = Len(r)
  BY <1>2, <1>3, <1>4, SMT
<1>6. \A i \in 1..Len(r) : start[1 - 1] + i = i
  BY <1>3, <1>4, Zenon
<1> QED
  BY <1>1, <1>4, <1>5, <1>6, Zenon

(* Read takes the first of the messages that come, and its frame. *)
LEMMA TakesFirst ==
    ASSUME SocketAssumption, SocketInv, ReadFrame
    PROVE  /\ Len(Coming) >= 1
           /\ received' = Append(received, Coming[1])
           /\ Len(Runs(Coming[1].n)) <= Len(inbound)
           /\ inbound' = SubSeq(inbound, Len(Runs(Coming[1].n)) + 1, Len(inbound))
<1>0. SocketTypes /\ InWay /\ BodyHere
  BY DEF SocketInv, ReadFrame
<1>1. PICK whole \in BOOLEAN : whole = (conn = "open")
  OBVIOUS
<1>2. PICK n, k : n = Len(Coming) /\ k = Len(inbound)
  BY Zenon
<1>3. inbound \in Seq(RunKind) /\ k \in Nat
  BY <1>0, <1>2 DEF SocketTypes
<1>4. n \in Nat /\ Coming \in Seq(Messages)
  BY <1>0, <1>2, ComingOnes, Zenon DEF InWay
<1>5. PICK start \in [0..n -> Nat] : Laid(start, Coming, inbound, whole)
  BY <1>0, <1>1, <1>2, Zenon DEF InWay, Lies
<1>6. k >= 2
  BY <1>0, <1>2 DEF BodyHere, HeaderHere
<1>7. n # 0
  <2>1. start[0] = 0 /\ k <= start[n]
    BY <1>2, <1>5, Zenon DEF Laid
  <2>2. ASSUME n = 0 PROVE FALSE
    <3>1. k <= 0
      BY <2>1, <2>2, Zenon
    <3> QED
      BY <1>3, <1>6, <3>1, SMT
  <2> QED
    BY <2>2
<1>8. PICK m, z, r : m = Coming[1] /\ z = m.n /\ r = Runs(z)
  BY Zenon
<1>9. m \in Messages /\ z \in Sizes /\ m = Message(z)
  <2>1. 1 \in 1..n
    BY <1>4, <1>7, SMT
  <2>2. m \in Messages
    BY <1>2, <1>4, <1>8, <2>1, ElementOfSeq, Zenon
  <2> QED
    BY <1>8, <2>2, MessageKind, Zenon
<1>10. \A i \in 1..Len(r) : i <= Len(inbound) => IsRun(inbound, i, r[i], whole)
  BY <1>0, <1>2, <1>4, <1>5, <1>7, <1>8, <1>9, OnTop, ZenonT(40)
<1>11. /\ Len(r) \in Nat /\ Len(r) >= 2 /\ Len(r) <= k
       /\ HeaderLen = Len(r) - (IF z = 0 THEN 0 ELSE 1)
       /\ BodyLen = z
       /\ z # 0 => inbound[HeaderLen + 1] = [n |-> z, byte |-> Byte]
  BY <1>0, <1>2, <1>3, <1>8, <1>9, <1>10, FirstFrame, Zenon
<1>12. PICK rest : rest = SubSeq(inbound, HeaderLen + 1, Len(inbound))
  BY Zenon
<1>13. /\ received' = Append(received, [n |-> z, byte |-> IF z = 0 THEN Byte ELSE Head(rest).byte])
       /\ inbound' = IF z = 0 THEN rest ELSE Run(Head(rest).n - z, Head(rest).byte) \o Tail(rest)
  BY <1>11, <1>12, Zenon DEF ReadFrame
<1>14. m = [n |-> z, byte |-> Byte]
  BY <1>9, Zenon DEF Message
<1>15. z \in Nat /\ Byte \in Octet
  BY <1>9 DEF SocketAssumption, Octet
<1> HIDE DEF RunKind, Octet
<1>16. CASE z = 0
  <2>1. HeaderLen = Len(r)
    BY <1>11, <1>16, SMT
  <2> QED
    <3>1. received' = Append(received, m)
      BY <1>13, <1>14, <1>16, Zenon
    <3>2. inbound' = SubSeq(inbound, Len(r) + 1, Len(inbound))
      BY <1>12, <1>13, <1>16, <2>1, Zenon
    <3>3. n >= 1
      BY <1>4, <1>7, SMT
    <3> QED
      BY <1>2, <1>8, <1>11, <3>1, <3>2, <3>3, Zenon
<1>17. CASE z # 0
  <2>1. PICK h : h = HeaderLen
    BY Zenon
  <2>2. h = Len(r) - 1 /\ inbound[h + 1] = [n |-> z, byte |-> Byte]
    BY <1>11, <1>17, <2>1, Zenon
  <2>3. h \in Nat /\ h + 1 = Len(r) /\ h + 1 <= k
    BY <1>3, <1>11, <2>2, SMT
  <2>4. rest = SubSeq(inbound, h + 1, k)
    BY <1>2, <1>12, <2>1, Zenon
  <2>5. /\ rest # << >> /\ Head(rest) = inbound[h + 1]
        /\ Tail(rest) = SubSeq(inbound, h + 2, k) /\ Tail(rest) \in Seq(RunKind)
    <3>1. /\ rest \in Seq(RunKind) /\ Len(rest) = k - h
          /\ \A i \in 1..(k - h) : rest[i] = inbound[h + i]
      BY <1>2, <1>3, <2>3, <2>4, SMT
    <3>2. rest # << >> /\ Head(rest) = inbound[h + 1]
      BY <1>3, <2>3, <3>1, SMT
    <3>3. /\ Tail(rest) \in Seq(RunKind) /\ Len(Tail(rest)) = k - h - 1
          /\ \A i \in 1..(k - h - 1) : Tail(rest)[i] = inbound[h + 1 + i]
      <4>1. /\ Tail(rest) \in Seq(RunKind) /\ Len(Tail(rest)) = Len(rest) - 1
            /\ \A i \in 1..Len(Tail(rest)) : Tail(rest)[i] = rest[i + 1]
        BY <3>1, <3>2, HeadTailProperties, Zenon
      <4>2. \A i \in 1..(k - h - 1) : i + 1 \in 1..(k - h) /\ h + (i + 1) = h + 1 + i
        BY <1>3, <2>3, SMT
      <4> QED
        BY <3>1, <4>1, <4>2, Zenon
    <3>4. PICK t : t = SubSeq(inbound, h + 2, k)
      BY Zenon
    <3>5. /\ t \in Seq(RunKind) /\ Len(t) = k - h - 1
          /\ \A i \in 1..(k - h - 1) : t[i] = inbound[h + 1 + i]
      BY <1>2, <1>3, <2>3, <3>4, SMT
    <3>6. Tail(rest) = t
      BY <3>3, <3>5, SeqEqual
    <3> QED
      BY <3>2, <3>3, <3>4, <3>6, Zenon
  <2>6. Head(rest).n = z /\ Head(rest).byte = Byte
    BY <2>2, <2>5
  <2>7. received' = Append(received, m)
    BY <1>13, <1>14, <1>17, <2>6, Zenon
  <2>8. inbound' = Run(z - z, Byte) \o Tail(rest)
    BY <1>13, <1>17, <2>6, Zenon
  <2>9. z - z = 0 /\ Run(0, Byte) = << >>
    BY <1>15, SMT DEF Run
  <2>11. inbound' = Tail(rest)
    <3>1. inbound' = << >> \o Tail(rest)
      BY <2>8, <2>9, Zenon
    <3> QED
      BY <2>5, <3>1, ConcatEmptySeq, Zenon
  <2>12. h + 2 = Len(r) + 1
    BY <2>3, <1>11, SMT
  <2>13. n >= 1
    BY <1>4, <1>7, SMT
  <2> QED
    BY <1>2, <1>8, <1>11, <2>5, <2>7, <2>11, <2>12, <2>13, Zenon
<1> QED
  BY <1>16, <1>17

LEMMA ReadFrameKeeps ==
    ASSUME SocketAssumption, SocketInv, ReadFrame
    PROVE  SocketInv'
<1>0. SocketTypes /\ OutWay /\ InWay /\ UNCHANGED <<sent, outbound, served, pushed, conn>>
  BY DEF SocketInv, ReadFrame
<1>1. PICK n, d, m, r, k : /\ n = Len(Coming) /\ d = Len(received) /\ m = Coming[1]
                           /\ r = Runs(m.n) /\ k = Len(inbound)
  BY Zenon
<1>2. /\ received' = Append(received, m) /\ n >= 1
      /\ Len(r) <= k /\ inbound' = SubSeq(inbound, Len(r) + 1, k)
  BY <1>1, TakesFirst, Zenon
<1>3. /\ pushed \in Seq(Messages) /\ received \in Seq(Messages) /\ inbound \in Seq(RunKind)
  BY <1>0 DEF SocketTypes
<1> HIDE DEF Messages, Frames, RunKind
<1>4. /\ d \in Nat /\ d <= Len(pushed) /\ \A i \in 1..d : received[i] = pushed[i]
  BY <1>0, <1>1, <1>3 DEF InWay
<1>5. /\ Coming \in Seq(Messages) /\ n = Len(pushed) - d /\ n \in Nat
      /\ \A j \in 1..n : Coming[j] = pushed[d + j]
  BY <1>0, <1>1, <1>4, ComingOnes, Zenon
<1>6. m \in Messages /\ m.n \in Sizes /\ m = pushed[d + 1]
  <2>1. 1 \in 1..n
    BY <1>2, <1>5, SMT
  <2> QED
    BY <1>1, <1>5, <2>1, ElementOfSeq, MessageKind, Zenon
<1>7. /\ received' \in Seq(Messages) /\ Len(received') = d + 1 /\ d + 1 <= Len(pushed)
      /\ \A i \in 1..(d + 1) : received'[i] = pushed[i]
  <2>1. /\ received' \in Seq(Messages) /\ Len(received') = d + 1 /\ d + 1 <= Len(pushed)
        /\ \A i \in 1..d : received'[i] = received[i]
        /\ received'[d + 1] = m
    BY <1>1, <1>2, <1>3, <1>5, <1>6
  <2>2. \A i \in 1..(d + 1) : i \in 1..d \/ i = d + 1
    BY <1>4, SMT
  <2> QED
    BY <1>4, <1>6, <2>1, <2>2, Zenon
<1>8. PICK whole \in BOOLEAN : whole = (conn = "open")
  OBVIOUS
<1>11. PICK rest, runs : rest = Coming' /\ runs = inbound'
  BY Zenon
<1>12. Len(rest) = n - 1 /\ \A j \in 1..(n - 1) : rest[j] = Coming[j + 1]
  <2>1. Coming' = SubSeq(pushed, d + 2, Len(pushed))
    <3>1. Coming' = SubSeq(pushed', Len(received') + 1, Len(pushed'))
      BY DEF Coming
    <3>2. (d + 1) + 1 = d + 2
      BY <1>4, SMT
    <3> QED
      BY <1>0, <1>7, <3>1, <3>2, Zenon
  <2>2. rest = SubSeq(pushed, d + 2, Len(pushed))
    BY <1>11, <2>1, Zenon
  <2>3. /\ Len(rest) = n - 1
        /\ \A j \in 1..(n - 1) : rest[j] = pushed[d + 1 + j]
    BY <1>3, <1>4, <1>5, <1>2, <2>2, SMT
  <2>4. ASSUME NEW j \in 1..(n - 1)
        PROVE  rest[j] = Coming[j + 1]
    <3>1. j + 1 \in 1..n /\ d + (j + 1) = d + 1 + j
      BY <1>4, <1>5, SMT
    <3> QED
      BY <1>5, <2>3, <3>1, Zenon
  <2> QED
    BY <2>3, <2>4, Zenon
<1>13. runs \in Seq(RunKind) /\ Lies(rest, runs, whole)
  <2>1. Len(Coming) # 0
    BY <1>1, <1>2, <1>5, SMT
  <2>2. PICK e : e = Len(Runs(Coming[1].n))
    BY Zenon
  <2>3. e <= Len(inbound) /\ runs = SubSeq(inbound, e + 1, Len(inbound))
    BY <1>1, <1>2, <1>11, <2>2, Zenon
  <2>4. Behind(rest, Coming) /\ Lies(Coming, inbound, whole)
    BY <1>0, <1>1, <1>8, <1>12, Zenon DEF Behind, InWay
  <2>5. Rests(rest, inbound, e, whole)
    BY <1>3, <1>5, <2>1, <2>2, <2>3, <2>4, LaidDrop, Zenon
  <2> QED
    BY <2>3, <2>5, Zenon DEF Rests
<1>14. SocketTypes'
  BY <1>0, <1>7, <1>11, <1>13 DEF SocketTypes
<1>15. OutWay'
  BY <1>0, OutStays
<1>16. InWay'
  <2>1. whole = (conn' = "open")
    BY <1>0, <1>8
  <2> QED
    BY <1>0, <1>7, <1>11, <1>13, <2>1, Zenon DEF InWay
<1> QED
  BY <1>14, <1>15, <1>16 DEF SocketInv

LEMMA SocketStep ==
    ASSUME SocketAssumption, SocketInv, [SocketNext]_socketVars
    PROVE  SocketInv'
<1>0. SocketTypes /\ OutWay /\ InWay
  BY DEF SocketInv
<1>1. ASSUME NEW z \in Sizes, Send(z) PROVE SocketInv'
  BY <1>1, SendKeeps
<1>2. ASSUME NEW z \in Sizes, ServerSends(z) PROVE SocketInv'
  BY <1>2, ServerSendsKeeps
<1>3. CASE SendFails \/ ReadFrameFails
  <2>1. /\ UNCHANGED <<sent, outbound, served, pushed, inbound, received>>
        /\ conn = "broken" /\ conn' = "closed"
    BY <1>3 DEF SendFails, ReadFrameFails
  <2>2. SocketTypes'
    BY <1>0, <2>1 DEF SocketTypes
  <2>3. OutWay'
    BY <1>0, <2>1, OutStays
  <2>4. InWay'
    BY <1>0, <2>1, InStays
  <2> QED
    BY <2>2, <2>3, <2>4 DEF SocketInv
<1>4. CASE ServerReads
  BY <1>4, ServerReadsKeeps
<1>5. CASE Break
  BY <1>5, BreakKeeps
<1>6. CASE ReadFrame
  BY <1>6, ReadFrameKeeps
<1>7. CASE UNCHANGED socketVars
  <2>1. SocketTypes'
    BY <1>0, <1>7 DEF SocketTypes, socketVars
  <2>2. OutWay'
    BY <1>0, <1>7, OutStays DEF socketVars
  <2>3. InWay'
    BY <1>0, <1>7, InStays DEF socketVars
  <2> QED
    BY <2>1, <2>2, <2>3 DEF SocketInv
<1> QED
  BY <1>1, <1>2, <1>3, <1>4, <1>5, <1>6, <1>7 DEF SocketNext

LEMMA IsPrefixByElement ==
    ASSUME NEW T, NEW s \in Seq(T), NEW t \in Seq(T), Len(s) <= Len(t),
           \A i \in 1..Len(s) : s[i] = t[i]
    PROVE  IsPrefix(s, t)
<1>1. SubSeq(s, 1, Len(s)) = SubSeq(t, 1, Len(s))
  BY SMT
<1> QED
  BY <1>1 DEF IsPrefix

(* What the invariant says of messages on their way and delivered. *)
LEMMA RoundTripFromInv ==
    ASSUME SocketAssumption, SocketInv
    PROVE  FrameRoundTrip
<1>0. SocketTypes /\ OutWay /\ InWay
  BY DEF SocketInv
<1>1. PICK a, b, c, n, k : /\ a = Len(served) /\ b = Len(outbound) /\ c = Len(sent)
                           /\ n = Len(Coming) /\ k = Len(inbound)
  BY Zenon
<1>2. /\ sent \in Seq(Messages) /\ served \in Seq(Messages) /\ outbound \in Seq(Frames)
      /\ pushed \in Seq(Messages) /\ received \in Seq(Messages) /\ inbound \in Seq(RunKind)
  BY <1>0 DEF SocketTypes
<1> HIDE DEF Messages, Frames, RunKind
<1>3. /\ a + b <= c /\ (conn = "open" => a + b = c)
      /\ \A i \in 1..a : served[i] = sent[i]
      /\ \A i \in 1..b : outbound[i] = Frame(sent[a + i])
      /\ a \in Nat /\ b \in Nat /\ c \in Nat
  BY <1>0, <1>1, <1>2 DEF OutWay
<1>4. IsPrefix(served, sent)
  <2>1. a <= c
    BY <1>3, SMT
  <2> QED
    BY <1>1, <1>2, <1>3, <2>1, IsPrefixByElement, Zenon
<1>5. ASSUME NEW i \in 1..b
      PROVE  Carries(outbound[i], sent[a + i])
  <2>1. PICK m : m = sent[a + i]
    BY Zenon
  <2>2. a + i \in 1..c
    BY <1>3, SMT
  <2>3. m \in Messages
    BY <1>1, <1>2, <2>1, <2>2, ElementOfSeq, Zenon
  <2>4. m.n \in Sizes /\ m = Message(m.n)
    BY <2>3, MessageKind, Zenon
  <2>5. outbound[i] = Frame(m)
    BY <1>3, <2>1, Zenon
  <2>6. Carries(Frame(m), m)
    BY <2>4, ServerUnderstands, Zenon
  <2> QED
    BY <2>1, <2>5, <2>6, Zenon
<1>6. IsPrefix(received, pushed)
  BY <1>0, <1>2, IsPrefixByElement DEF InWay
<1>7. /\ n \in Nat /\ Coming \in Seq(Messages) /\ n = Len(pushed) - Len(received)
      /\ \A j \in 1..n : Coming[j] = pushed[Len(received) + j]
  BY <1>0, <1>1, ComingOnes, Zenon DEF InWay
<1>8. ASSUME conn = "open"
      PROVE  /\ inbound = << >> <=> received = pushed
             /\ inbound # << >> => BodyHere
  <2>1. PICK start \in [0..n -> Nat] : Laid(start, Coming, inbound, TRUE)
    BY <1>0, <1>1, <1>8 DEF InWay, Lies
  <2>2. start[0] = 0 /\ k = start[n] /\ \A i \in 0..n : \A j \in i..n : start[i] <= start[j]
    BY <1>1, <2>1, Zenon DEF Laid
  <2>3. CASE n = 0
    <3>1. Len(received) = Len(pushed)
      BY <1>2, <1>7, <2>3
    <3>2. received = pushed
      BY <1>0, <1>2, <3>1, SeqEqual DEF InWay
    <3>3. inbound = << >>
      <4>1. Len(inbound) = 0
        BY <1>1, <2>2, <2>3, Zenon
      <4> QED
        BY <1>2, <4>1, EmptySeq, Zenon
    <3> QED
      BY <3>2, <3>3
  <2>4. CASE n # 0
    <3>1. n \in Nat \ {0} /\ 1 \in 1..n /\ 1 \in 0..n /\ n \in 1..n
      BY <1>7, <2>4, SMT
    <3>2. PICK z, r : z = Coming[1].n /\ r = Runs(z)
      BY Zenon
    <3>3. z \in Sizes
      BY <1>1, <1>7, <3>1, <3>2, ElementOfSeq, MessageKind, Zenon
    <3>4. /\ start[1] = Len(r)
          /\ \A i \in 1..Len(r) : i <= Len(inbound) => IsRun(inbound, i, r[i], TRUE)
      BY <1>0, <1>1, <2>1, <3>1, <3>2, <3>3, OnTop, Zenon
    <3>5. Len(r) <= k
      BY <1>1, <2>2, <3>1, <3>4, Zenon
    <3>6. /\ Len(r) \in Nat /\ Len(r) >= 2
          /\ TRUE /\ Len(r) <= Len(inbound) => BodyHere
      BY <1>2, <3>2, <3>3, <3>4, FirstFrame, Zenon
    <3>7. BodyHere /\ Len(inbound) >= 2
      BY <1>1, <1>2, <3>5, <3>6
    <3>8. inbound # << >>
      BY <3>7
    <3>9. received # pushed
      BY <1>2, <1>7, <2>4
    <3> QED
      BY <3>7, <3>8, <3>9
  <2> QED
    BY <2>3, <2>4
<1> QED
  BY <1>1, <1>3, <1>4, <1>5, <1>6, <1>8, Zenon DEF FrameRoundTrip

(* For any sizes of messages, in both directions: every message arrives as  *)
(* it was sent, whole and in order, whichever the form of its length; what  *)
(* the end of the connection cuts is not delivered in part, and as long as  *)
(* the connection is open nothing is lost.                                  *)
THEOREM FramesRoundTrip == SocketSpec => []FrameRoundTrip
<1>1. SocketInit => SocketInv
  BY SocketStarts
<1>2. SocketInv /\ [SocketNext]_socketVars => SocketInv'
  BY SocketStep, SocketAssumption
<1>3. SocketInv => FrameRoundTrip
  BY RoundTripFromInv, SocketAssumption
<1> QED
  BY <1>1, <1>2, <1>3, PTL DEF SocketSpec
=============================================================================
