--------------------------- MODULE JSContextProofs ---------------------------
(***************************************************************************)
(* Proofs about the cached window and helpers, for any number of           *)
(* goroutines, clones and documents.                                       *)
(***************************************************************************)
EXTENDS JSContext, TLAPS

USE JSContextAssumption DEF Goto, shared, navigation, Names, NoHelpers, HoldsLock, Ended

LEMMA BeginKeeps ==
    ASSUME CacheInv, NEW g \in Evaluators, Begin(g)
    PROVE  CacheInv'
<1> USE DEF CacheInv, Begin, NothingHeld
<1>1. TypeOK'
  BY DEF CacheSound, TypeOK, MadeInWindow
<1>2. CacheSound'
  BY <1>1 DEF CacheSound, TypeOK, MadeInWindow
<1>3. MadeInWindow'
  BY DEF CacheSound, TypeOK, MadeInWindow
<1> QED
  BY <1>2, <1>3 DEF TypeOK

LEMMA WindowKnownKeeps ==
    ASSUME CacheInv, NEW g \in Evaluators, WindowKnown(g)
    PROVE  CacheInv'
<1> USE DEF CacheInv, WindowKnown, AfterWindow
<1>1. TypeOK'
  BY DEF CacheSound, TypeOK, MadeInWindow
<1>2. CacheSound'
  BY <1>1 DEF CacheSound, TypeOK, MadeInWindow
<1>3. MadeInWindow'
  BY DEF CacheSound, TypeOK, MadeInWindow
<1> QED
  BY <1>2, <1>3 DEF TypeOK

LEMMA WindowAskKeeps ==
    ASSUME CacheInv, NEW g \in Evaluators, WindowAsk(g)
    PROVE  CacheInv'
<1> USE DEF CacheInv, WindowAsk, AfterWindow
<1>1. TypeOK'
  BY DEF CacheSound, TypeOK, MadeInWindow
<1>2. CacheSound'
  BY <1>1 DEF CacheSound, TypeOK, MadeInWindow
<1>3. MadeInWindow'
  BY DEF CacheSound, TypeOK, MadeInWindow
<1> QED
  BY <1>2, <1>3 DEF TypeOK

LEMMA WindowAnswerKeeps ==
    ASSUME CacheInv, NEW g \in Evaluators, WindowAnswer(g)
    PROVE  CacheInv'
<1> USE DEF CacheInv, WindowAnswer, AfterWindow
<1>1. TypeOK'
  BY DEF CacheSound, TypeOK, MadeInWindow
<1>2. CacheSound'
  BY <1>1 DEF CacheSound, TypeOK, MadeInWindow
<1>3. MadeInWindow'
  BY DEF CacheSound, TypeOK, MadeInWindow
<1> QED
  BY <1>2, <1>3 DEF TypeOK

(* getHelper adds an empty entry at most. *)
LEMMA LookAddsNothing ==
    ASSUME CacheInv, NEW g \in Evaluators, Look(g), NEW o \in Pages, NEW i \in DOMAIN helpers'[o]
    PROVE  \/ i \in DOMAIN helpers[o] /\ helpers'[o][i] = helpers[o][i]
           \/ i = ctx[g] /\ helpers'[o][i] = {}
<1>1. pageOf[g] \in Pages
  BY DEF CacheInv, CacheSound, TypeOK
<1>2. CASE o # pageOf[g]
  <2>1. helpers'[o] = helpers[o]
    BY <1>2 DEF Look, CacheInv
  <2> QED
    BY <2>1
<1>3. CASE o = pageOf[g]
  <2>1. helpers'[o] = WithEntry(o, ctx[g])
    BY <1>1, <1>3 DEF Look, CacheInv
  <2> QED
    BY <2>1 DEF WithEntry
<1> QED
  BY <1>2, <1>3

LEMMA LookKeeps ==
    ASSUME CacheInv, NEW g \in Evaluators, Look(g)
    PROVE  CacheInv'
<1> USE DEF CacheInv, CacheSound
<1>1. stage[g] \in Names /\ ctx[g] \in 1..Len(windows) /\ pc[g] = "look"
  BY DEF Look, MadeInWindow
<1>2. \A o \in Pages : \A i \in DOMAIN helpers'[o] :
        /\ i \in 1..Len(windows)
        /\ helpers'[o][i] \subseteq Names \X (1..MaxDocument)
        /\ \A entry \in helpers'[o][i] : entry[2] = windows[i]
  <2> SUFFICES ASSUME NEW o \in Pages, NEW i \in DOMAIN helpers'[o]
               PROVE  /\ i \in 1..Len(windows)
                      /\ helpers'[o][i] \subseteq Names \X (1..MaxDocument)
                      /\ \A entry \in helpers'[o][i] : entry[2] = windows[i]
    OBVIOUS
  <2>1. CASE i \in DOMAIN helpers[o] /\ helpers'[o][i] = helpers[o][i]
    BY <2>1 DEF TypeOK
  <2>2. CASE i = ctx[g] /\ helpers'[o][i] = {}
    BY <2>2, <1>1
  <2> QED
    BY <2>1, <2>2, LookAddsNothing
<1>3. /\ UNCHANGED <<pageOf, document, windows, jsCtxID, lock, navigation, ctx, cancelled>>
      /\ DOMAIN helpers' = Pages
  BY DEF Look
<1>4. CASE pc' = [pc EXCEPT ![g] = "call"] /\ UNCHANGED <<held, stage>>
  <2>1. TypeOK'
    BY <1>1, <1>2, <1>3, <1>4 DEF TypeOK
  <2>2. MadeInWindow'
    BY <1>1, <1>3, <1>4 DEF TypeOK, MadeInWindow
  <2> QED
    BY <1>2, <1>3, <2>1, <2>2
<1>5. CASE Advance(g) /\ \E d \in 1..MaxDocument : held' = [held EXCEPT ![g][stage[g]] = d]
  <2>1. held' \in [Evaluators -> [Names -> 0..MaxDocument]]
    BY <1>1, <1>5 DEF TypeOK
  <2>2. TypeOK'
    BY ZenonT(60), <1>1, <1>2, <1>3, <1>5, <2>1 DEF TypeOK, Advance
  <2>3. MadeInWindow'
    BY <1>1, <1>3, <1>5 DEF TypeOK, MadeInWindow, Advance
  <2> QED
    BY <1>2, <1>3, <2>2, <2>3
<1> QED
  BY <1>4, <1>5 DEF Look

LEMMA CallKeeps ==
    ASSUME CacheInv, NEW g \in Evaluators, Call(g)
    PROVE  CacheInv'
<1> USE DEF CacheInv, CacheSound
<1>1. /\ stage[g] \in Names /\ ctx[g] \in 1..Len(windows) /\ pc[g] = "call"
      /\ UNCHANGED <<pageOf, document, windows, shared, navigation, stage, ctx, cancelled>>
  BY DEF Call, MadeInWindow
<1>2. UNCHANGED helpers
  BY <1>1
<1>3. CASE Alive(ctx[g])
  <2>1. /\ held' = [held EXCEPT ![g][stage[g]] = document]
        /\ pc' = [pc EXCEPT ![g] = "store"]
    BY <1>3 DEF Call
  <2>2. held' \in [Evaluators -> [Names -> 0..MaxDocument]]
    BY <1>1, <2>1 DEF TypeOK
  <2>3. TypeOK'
    BY <1>1, <1>2, <2>1, <2>2 DEF TypeOK
  <2>4. held'[g][stage[g]] = windows[ctx[g]]
    BY <1>1, <1>3, <2>1 DEF TypeOK, Alive
  <2>5. \A h \in Evaluators \ {g} : held'[h] = held[h] /\ pc'[h] = pc[h]
    BY <2>1 DEF TypeOK
  <2>6. MadeInWindow'
    BY <1>1, <2>1, <2>4, <2>5 DEF TypeOK, MadeInWindow
  <2> QED
    BY <1>1, <1>2, <2>3, <2>6
<1>4. CASE ~Alive(ctx[g])
  <2>1. pc' = [pc EXCEPT ![g] = "lost"] /\ UNCHANGED held
    BY <1>4 DEF Call
  <2>2. TypeOK'
    BY <1>1, <1>2, <2>1 DEF TypeOK
  <2>3. MadeInWindow'
    BY <1>1, <2>1 DEF TypeOK, MadeInWindow
  <2> QED
    BY <1>1, <1>2, <2>2, <2>3
<1> QED
  BY <1>3, <1>4

(* setHelper adds what was made in the window to that window's entry. *)
LEMMA StoreAddsOne ==
    ASSUME CacheInv, NEW g \in Evaluators, Store(g), NEW o \in Pages, NEW i \in DOMAIN helpers'[o]
    PROVE  /\ i \in DOMAIN helpers[o]
           /\ \/ helpers'[o][i] = helpers[o][i]
              \/ i = ctx[g] /\ helpers'[o][i] = helpers[o][i] \cup {<<stage[g], held[g][stage[g]]>>}
<1>1. pageOf[g] \in Pages
  BY DEF CacheInv, CacheSound, TypeOK
<1>2. CASE o # pageOf[g] \/ UNCHANGED helpers
  <2>1. helpers'[o] = helpers[o]
    BY <1>2 DEF Store, CacheInv
  <2> QED
    BY <2>1
<1>3. CASE o = pageOf[g] /\ ctx[g] \in DOMAIN helpers[o]
  <2>1. helpers'[o] = [helpers[o] EXCEPT ![ctx[g]] = @ \cup {<<stage[g], held[g][stage[g]]>>}]
    BY <1>1, <1>3 DEF Store, CacheInv
  <2> QED
    BY <2>1, <1>3
<1> QED
  BY <1>1, <1>2, <1>3 DEF Store

LEMMA StoreKeeps ==
    ASSUME CacheInv, NEW g \in Evaluators, Store(g)
    PROVE  CacheInv'
<1> USE DEF CacheInv, CacheSound
<1>1. /\ stage[g] \in Names /\ ctx[g] \in 1..Len(windows) /\ pc[g] = "store"
      /\ held[g][stage[g]] = windows[ctx[g]] /\ windows[ctx[g]] \in 1..MaxDocument
  BY DEF Store, MadeInWindow, TypeOK
<1>2. \A o \in Pages : \A i \in DOMAIN helpers'[o] :
        /\ i \in 1..Len(windows)
        /\ helpers'[o][i] \subseteq Names \X (1..MaxDocument)
        /\ \A entry \in helpers'[o][i] : entry[2] = windows[i]
  <2> SUFFICES ASSUME NEW o \in Pages, NEW i \in DOMAIN helpers'[o]
               PROVE  /\ i \in 1..Len(windows)
                      /\ helpers'[o][i] \subseteq Names \X (1..MaxDocument)
                      /\ \A entry \in helpers'[o][i] : entry[2] = windows[i]
    OBVIOUS
  <2>1. /\ i \in DOMAIN helpers[o] /\ i \in 1..Len(windows)
        /\ helpers[o][i] \subseteq Names \X (1..MaxDocument)
        /\ \A entry \in helpers[o][i] : entry[2] = windows[i]
    BY StoreAddsOne DEF TypeOK
  <2>2. CASE helpers'[o][i] = helpers[o][i]
    BY <2>1, <2>2
  <2>3. CASE i = ctx[g] /\ helpers'[o][i] = helpers[o][i] \cup {<<stage[g], held[g][stage[g]]>>}
    BY <1>1, <2>1, <2>3
  <2> QED
    BY <2>1, <2>2, <2>3, StoreAddsOne
<1>3. /\ UNCHANGED <<pageOf, document, windows, jsCtxID, lock, navigation, ctx, held, cancelled>>
      /\ DOMAIN helpers' = Pages
  BY DEF Store
<1>4. CASE pc' = [pc EXCEPT ![g] = "panicked"] /\ UNCHANGED stage
  <2>1. TypeOK'
    BY <1>1, <1>2, <1>3, <1>4 DEF TypeOK
  <2>2. MadeInWindow'
    BY <1>1, <1>3, <1>4 DEF TypeOK, MadeInWindow
  <2> QED
    BY <1>2, <1>3, <2>1, <2>2
<1>5. CASE Advance(g)
  <2>1. TypeOK'
    <3>1. /\ pc' \in [Evaluators -> {"idle", "window?", "window", "answered", "look", "call",
                              "store", "main", "returned", "lost", "refused", "failed", "panicked"}]
          /\ stage' \in [Evaluators -> {"functions", "helper", "main"}]
          /\ \A h \in Evaluators : pc'[h] \in {"window", "answered"} <=> pc[h] \in {"window", "answered"}
      BY ZenonT(30), <1>1, <1>5 DEF TypeOK, Advance
    <3> QED
      BY <1>2, <1>3, <3>1 DEF TypeOK
  <2>2. MadeInWindow'
    <3>1. CASE stage[g] = "functions"
      BY ZenonT(60), <1>1, <1>3, <1>5, <3>1 DEF TypeOK, MadeInWindow, Advance
    <3>2. CASE stage[g] # "functions"
      BY ZenonT(60), <1>1, <1>3, <1>5, <3>2 DEF TypeOK, MadeInWindow, Advance
    <3> QED
      BY <3>1, <3>2
  <2> QED
    BY <1>2, <1>3, <2>1, <2>2
<1> QED
  BY <1>4, <1>5 DEF Store

LEMMA MainKeeps ==
    ASSUME CacheInv, NEW g \in Evaluators, Main(g)
    PROVE  CacheInv'
<1> USE DEF CacheInv, Main
<1>1. TypeOK'
  <2>1. /\ pc[g] = "main"
        /\ \E where \in {"lost", "refused", "returned"} : pc' = [pc EXCEPT ![g] = where]
    OBVIOUS
  <2> QED
    BY <2>1 DEF CacheSound, TypeOK
<1>2. CacheSound'
  BY <1>1 DEF CacheSound, TypeOK, MadeInWindow
<1>3. MadeInWindow'
  BY DEF CacheSound, TypeOK, MadeInWindow
<1> QED
  BY <1>2, <1>3 DEF TypeOK

LEMMA WindowStoreKeeps ==
    ASSUME CacheInv, NEW g \in Evaluators, WindowStore(g)
    PROVE  CacheInv'
<1> USE DEF CacheInv, WindowStore, AfterWindow
<1>1. TypeOK'
  BY DEF CacheSound, TypeOK, MadeInWindow
<1>2. CacheSound'
  BY <1>1 DEF CacheSound, TypeOK, MadeInWindow
<1>3. MadeInWindow'
  BY DEF CacheSound, TypeOK, MadeInWindow
<1> QED
  BY <1>2, <1>3 DEF TypeOK

LEMMA GiveUpKeeps ==
    ASSUME CacheInv, NEW g \in Evaluators, GiveUp(g)
    PROVE  CacheInv'
<1> USE DEF CacheInv, GiveUp
<1>1. TypeOK'
  BY DEF CacheSound, TypeOK, MadeInWindow
<1>2. CacheSound'
  BY <1>1 DEF CacheSound, TypeOK, MadeInWindow
<1>3. MadeInWindow'
  BY DEF CacheSound, TypeOK, MadeInWindow
<1> QED
  BY <1>2, <1>3 DEF TypeOK

LEMMA CancelKeeps ==
    ASSUME CacheInv, NEW g \in Evaluators, Cancel(g)
    PROVE  CacheInv'
<1> USE DEF CacheInv, Cancel
<1>1. TypeOK'
  BY DEF CacheSound, TypeOK, MadeInWindow
<1>2. CacheSound'
  BY <1>1 DEF CacheSound, TypeOK, MadeInWindow
<1>3. MadeInWindow'
  BY DEF CacheSound, TypeOK, MadeInWindow
<1> QED
  BY <1>2, <1>3 DEF TypeOK

LEMMA CommitKeeps ==
    ASSUME CacheInv, Commit
    PROVE  CacheInv'
<1> USE DEF CacheInv, Commit
<1>1. TypeOK'
  BY DEF CacheSound, TypeOK, MadeInWindow
<1>2. CacheSound'
  BY <1>1 DEF CacheSound, TypeOK, MadeInWindow
<1>3. MadeInWindow'
  BY DEF CacheSound, TypeOK, MadeInWindow
<1> QED
  BY <1>2, <1>3 DEF TypeOK

LEMMA NavigateKeeps ==
    ASSUME CacheInv, Navigate
    PROVE  CacheInv'
<1> USE DEF CacheInv, Navigate
<1>1. TypeOK'
  BY DEF CacheSound, TypeOK, MadeInWindow
<1>2. CacheSound'
  BY <1>1 DEF CacheSound, TypeOK, MadeInWindow
<1>3. MadeInWindow'
  BY DEF CacheSound, TypeOK, MadeInWindow
<1> QED
  BY <1>2, <1>3 DEF TypeOK

LEMMA NavigateUnsetKeeps ==
    ASSUME CacheInv, NavigateUnset
    PROVE  CacheInv'
<1> USE DEF CacheInv, NavigateUnset
<1>1. TypeOK'
  BY DEF CacheSound, TypeOK, MadeInWindow
<1>2. CacheSound'
  BY <1>1 DEF CacheSound, TypeOK, MadeInWindow
<1>3. MadeInWindow'
  BY DEF CacheSound, TypeOK, MadeInWindow
<1> QED
  BY <1>2, <1>3 DEF TypeOK

(* No goroutine has a window. *)
LEMMA CacheBegins == Init => CacheInv
  BY DEF Init, NothingHeld, CacheInv, CacheSound, TypeOK, MadeInWindow

(* Every step of every goroutine and of the page. *)
LEMMA CacheStep == CacheInv /\ [Next]_vars => CacheInv'
<1> SUFFICES ASSUME CacheInv, [Next]_vars
             PROVE  CacheInv'
  OBVIOUS
<1>1. ASSUME NEW g \in Evaluators, Begin(g)
      PROVE  CacheInv'
  BY <1>1, BeginKeeps
<1>2. ASSUME NEW g \in Evaluators, WindowKnown(g)
      PROVE  CacheInv'
  BY <1>2, WindowKnownKeeps
<1>3. ASSUME NEW g \in Evaluators, WindowAsk(g)
      PROVE  CacheInv'
  BY <1>3, WindowAskKeeps
<1>4. ASSUME NEW g \in Evaluators, WindowAnswer(g)
      PROVE  CacheInv'
  BY <1>4, WindowAnswerKeeps
<1>5. ASSUME NEW g \in Evaluators, Look(g)
      PROVE  CacheInv'
  BY <1>5, LookKeeps
<1>6. ASSUME NEW g \in Evaluators, Call(g)
      PROVE  CacheInv'
  BY <1>6, CallKeeps
<1>7. ASSUME NEW g \in Evaluators, Store(g)
      PROVE  CacheInv'
  BY <1>7, StoreKeeps
<1>8. ASSUME NEW g \in Evaluators, Main(g)
      PROVE  CacheInv'
  BY <1>8, MainKeeps
<1>9. ASSUME NEW g \in Evaluators, WindowStore(g)
      PROVE  CacheInv'
  BY <1>9, WindowStoreKeeps
<1>10. ASSUME NEW g \in Evaluators, GiveUp(g)
      PROVE  CacheInv'
  BY <1>10, GiveUpKeeps
<1>11. ASSUME NEW g \in Evaluators, Cancel(g)
      PROVE  CacheInv'
  BY <1>11, CancelKeeps
<1>12. CASE Commit
  BY <1>12, CommitKeeps
<1>13. CASE Navigate
  BY <1>13, NavigateKeeps
<1>14. CASE NavigateUnset
  BY <1>14, NavigateUnsetKeeps
<1>15. CASE UNCHANGED vars
  BY <1>15 DEF vars, CacheInv, CacheSound, TypeOK, MadeInWindow
<1> QED
  BY <1>1, <1>2, <1>3, <1>4, <1>5, <1>6, <1>7, <1>8, <1>9, <1>10, <1>11, <1>12, <1>13, <1>14, <1>15
     DEF Next, LocalStep, ResponseStep

(* A helper filed under a window was made in that window, however often    *)
(* the page navigates while any number of goroutines evaluate.             *)
THEOREM CacheIsSound == Spec => []CacheSound
<1>1. CacheInv => CacheSound
  BY DEF CacheInv
<1> QED
  BY <1>1, CacheBegins, CacheStep, PTL DEF Spec

-----------------------------------------------------------------------------
(* Clones *)

Cloned == \A g, h \in Evaluators : g # h => pageOf[g] # pageOf[h]

(* Who is about to store a helper has the entry that getHelper made: only  *)
(* the goroutine itself resets the helpers of its clone.                   *)
HasEntry ==
    \A g \in Evaluators :
        /\ pc[g] # "panicked"
        /\ pc[g] \in {"call", "store"} => ctx[g] \in DOMAIN helpers[pageOf[g]]

(* The inductive invariant of goroutines that use a clone each. *)
ClonesInv == CacheInv /\ (Cloned => HasEntry)

(* A step of one goroutine leaves the helpers of the others alone. *)
LEMMA OwnClone ==
    ASSUME CacheInv, Cloned, HasEntry, NEW g \in Evaluators,
           Begin(g) \/ LocalStep(g) \/ ResponseStep(g) \/ Cancel(g)
    PROVE  /\ UNCHANGED pageOf /\ pageOf[g] \in Pages
           /\ \A o \in Pages : o # pageOf[g] => helpers'[o] = helpers[o]
           /\ \A h \in Evaluators : h # g =>
                /\ pc'[h] = pc[h] /\ ctx'[h] = ctx[h]
                /\ pageOf[h] \in Pages /\ helpers'[pageOf[h]] = helpers[pageOf[h]]
<1> USE DEF CacheInv, CacheSound, TypeOK
<1>1. \A h \in Evaluators : pageOf[h] \in Pages
  OBVIOUS
<1>2. /\ UNCHANGED pageOf
      /\ \A o \in Pages : o # pageOf[g] => helpers'[o] = helpers[o]
  BY DEF Begin, LocalStep, ResponseStep, Cancel, WindowKnown, WindowAsk, Look, Store, WindowStore,
     GiveUp, WindowAnswer, Call, Main
<1>3. \A h \in Evaluators : h # g => pc'[h] = pc[h] /\ ctx'[h] = ctx[h]
  BY DEF Begin, LocalStep, ResponseStep, Cancel, WindowKnown, WindowAsk, Look, Store, WindowStore,
     GiveUp, WindowAnswer, Call, Main, Advance
<1> QED
  BY <1>1, <1>2, <1>3 DEF Cloned

(* The goroutine itself: it has the entry when it asks for the function,   *)
(* and when the response comes.                                            *)
LEMMA OwnEntry ==
    ASSUME CacheInv, Cloned, HasEntry, NEW g \in Evaluators,
           Begin(g) \/ LocalStep(g) \/ ResponseStep(g) \/ Cancel(g)
    PROVE  /\ pc'[g] # "panicked"
           /\ pc'[g] \in {"call", "store"} => ctx'[g] \in DOMAIN helpers'[pageOf[g]]
<1> USE DEF CacheInv, CacheSound, TypeOK
<1>1. pageOf[g] \in Pages
  OBVIOUS
<1>2. CASE Look(g)
  <2>1. helpers'[pageOf[g]] = WithEntry(pageOf[g], ctx[g]) /\ UNCHANGED ctx
    BY <1>1, <1>2 DEF Look
  <2>2. pc'[g] # "panicked"
    BY <1>2 DEF Look, Advance
  <2> QED
    BY <2>1, <2>2 DEF WithEntry
<1>3. CASE Store(g)
  <2>1. ctx[g] \in DOMAIN helpers[pageOf[g]]
    BY <1>3 DEF Store, HasEntry
  <2> QED
    BY <1>3, <2>1 DEF Store, Advance
<1>4. CASE Call(g)
  BY <1>4 DEF Call, HasEntry
<1>5. CASE Cancel(g)
  BY <1>5 DEF Cancel, HasEntry
<1> QED
  BY <1>2, <1>3, <1>4, <1>5
     DEF Begin, LocalStep, ResponseStep, WindowKnown, WindowAsk, WindowStore, GiveUp, WindowAnswer, Main,
         AfterWindow

LEMMA ClonesBegin == Init => ClonesInv
  BY CacheBegins DEF Init, ClonesInv, HasEntry

LEMMA ClonesStep == ClonesInv /\ [Next]_vars => ClonesInv'
<1> SUFFICES ASSUME CacheInv, [Next]_vars, Cloned => HasEntry, Cloned'
             PROVE  HasEntry'
  BY CacheStep DEF ClonesInv
<1>1. ASSUME NEW g \in Evaluators, Begin(g) \/ LocalStep(g) \/ ResponseStep(g) \/ Cancel(g)
      PROVE  HasEntry'
  <2>1. UNCHANGED pageOf
    BY <1>1 DEF Begin, LocalStep, ResponseStep, Cancel, WindowKnown, WindowAsk, Look, Store, WindowStore,
       GiveUp, WindowAnswer, Call, Main
  <2>2. Cloned /\ HasEntry
    BY <2>1 DEF Cloned
  <2> QED
    BY <1>1, <2>1, <2>2, OwnClone, OwnEntry DEF HasEntry
<1>2. CASE Commit \/ Navigate \/ NavigateUnset \/ UNCHANGED vars
  BY <1>2 DEF Commit, Navigate, NavigateUnset, vars, Cloned, HasEntry
<1> QED
  BY <1>1, <1>2 DEF Next

(* Goroutines that use a clone each do not make each other panic, although *)
(* they share the window that the helpers are filed under, and whoever     *)
(* fetches it anew resets helpers (page_eval.go:298-342).                  *)
THEOREM ClonesAreSafe == Spec => []ClonesSafe
<1>1. ClonesInv => ClonesSafe
  BY DEF ClonesInv, ClonesSafe, Cloned, HasEntry, Panicked
<1> QED
  BY <1>1, ClonesBegin, ClonesStep, PTL DEF Spec

-----------------------------------------------------------------------------
(* No window of before a navigation comes back *)

(* What a goroutine is about to store, with the lock still held, is as     *)
(* fresh as what the page has.                                             *)
AnswersFresh ==
    navigator = "idle" => \A g \in Evaluators : pc[g] = "answered" => windows[ctx[g]] >= since

FreshInv == CacheInv /\ WindowFresh /\ AnswersFresh

LEMMA FreshBegins == Init => FreshInv
  BY CacheBegins DEF Init, FreshInv, WindowFresh, AnswersFresh

(* The window that the browser gives is of its document, and so are those  *)
(* it gave before it answered Navigate; they keep their numbers.           *)
LEMMA AnswerIsFresh ==
    ASSUME FreshInv, NEW g \in Evaluators, WindowAnswer(g)
    PROVE  WindowFresh' /\ AnswersFresh'
<1> USE DEF FreshInv, CacheInv, CacheSound, TypeOK
<1>1. /\ windows' \in Seq(1..MaxDocument) /\ Len(windows') = Len(windows) + 1
      /\ windows'[Len(windows')] = document
      /\ \A i \in 1..Len(windows) : windows'[i] = windows[i]
  BY DEF WindowAnswer
<1>2. since \in Nat /\ document \in Nat /\ since <= document /\ Len(windows) \in Nat
  OBVIOUS
<1>3. UNCHANGED <<document, jsCtxID, navigator, since>>
  BY DEF WindowAnswer, shared, navigation
<1>4. WindowFresh'
  BY <1>1, <1>2, <1>3 DEF WindowFresh
<1>5. ASSUME navigator' = "idle", NEW h \in Evaluators, pc'[h] = "answered"
      PROVE  windows'[ctx'[h]] >= since'
  <2>1. CASE h = g
    BY <1>1, <1>2, <1>3, <2>1 DEF WindowAnswer
  <2>2. CASE h # g
    <3>1. pc[h] = "answered" /\ ctx'[h] = ctx[h] /\ ctx[h] \in 1..Len(windows)
      BY <1>5, <2>2 DEF WindowAnswer, MadeInWindow
    <3> QED
      BY <1>1, <1>3, <1>5, <3>1 DEF AnswersFresh
  <2> QED
    BY <2>1, <2>2
<1> QED
  BY <1>4, <1>5 DEF AnswersFresh

(* The other steps of a goroutine make no window, and store only what its  *)
(* answer brought.                                                         *)
LEMMA GoroutineStaysFresh ==
    ASSUME FreshInv, NEW g \in Evaluators, Begin(g) \/ LocalStep(g) \/ Call(g) \/ Main(g) \/ Cancel(g)
    PROVE  WindowFresh' /\ AnswersFresh'
<1> USE DEF FreshInv, CacheInv, CacheSound, TypeOK
<1>1. /\ UNCHANGED <<windows, navigator, since>>
      /\ UNCHANGED jsCtxID \/ (pc[g] = "answered" /\ jsCtxID' = ctx[g])
  BY DEF Begin, LocalStep, Cancel, WindowKnown, WindowAsk, WindowStore, Look, Store, GiveUp, Call, Main
<1>2. \A h \in Evaluators : pc'[h] = "answered" => pc[h] = "answered" /\ ctx'[h] = ctx[h]
  BY DEF Begin, LocalStep, Cancel, WindowKnown, WindowAsk, WindowStore, Look, Store, GiveUp, Call, Main,
     AfterWindow, Advance
<1>3. WindowFresh'
  BY <1>1 DEF WindowFresh, AnswersFresh
<1>4. AnswersFresh'
  BY <1>1, <1>2 DEF AnswersFresh
<1> QED
  BY <1>3, <1>4

(* Navigate forgets the window when nobody has the lock, and so nobody has *)
(* an answer to store.                                                     *)
LEMMA PageStaysFresh ==
    ASSUME FreshInv, Commit \/ Navigate \/ NavigateUnset \/ UNCHANGED vars
    PROVE  WindowFresh' /\ AnswersFresh'
<1> USE DEF FreshInv
<1>1. CASE Commit \/ UNCHANGED vars
  BY <1>1 DEF Commit, vars, navigation, WindowFresh, AnswersFresh
<1>2. CASE Navigate
  BY <1>2 DEF Navigate, WindowFresh, AnswersFresh
<1>3. CASE NavigateUnset
  <2>1. \A h \in Evaluators : pc[h] # "answered"
    BY <1>3 DEF NavigateUnset, CacheInv, CacheSound, TypeOK, HoldsLock
  <2> QED
    BY <1>3, <2>1 DEF NavigateUnset, WindowFresh, AnswersFresh
<1> QED
  BY <1>1, <1>2, <1>3

LEMMA FreshStep == FreshInv /\ [Next]_vars => FreshInv'
<1> SUFFICES ASSUME FreshInv, [Next]_vars
             PROVE  FreshInv'
  OBVIOUS
<1>1. CacheInv'
  BY CacheStep DEF FreshInv
<1>2. WindowFresh' /\ AnswersFresh'
  BY AnswerIsFresh, GoroutineStaysFresh, PageStaysFresh DEF Next, ResponseStep
<1> QED
  BY <1>1, <1>2 DEF FreshInv

(* A window of a document from before the browser's answer to Navigate     *)
(* never comes back once Navigate has returned, because the lock is held   *)
(* over the request for a window (page_eval.go:324-342, 363-368).          *)
THEOREM WindowIsFresh == Spec => []WindowFresh
<1>1. FreshInv => WindowFresh
  BY DEF FreshInv
<1> QED
  BY <1>1, FreshBegins, FreshStep, PTL DEF Spec
=============================================================================
