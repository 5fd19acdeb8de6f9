---------------------------- MODULE HijackProofs -----------------------------
(***************************************************************************)
(* Proofs about the router of hijacked requests, for any requests, any     *)
(* handlers and whatever these may decide.                                 *)
(***************************************************************************)
EXTENDS Hijack, SequenceTheorems, TLAPS

Choice == {"continue", "skip", "fail", "fulfill"}

(* An event is on its way once, of a request that no goroutine serves yet. *)
Events ==
    /\ IsInjective(queue)
    /\ ToSet(queue) \cap missed = {}
    /\ \A r \in ToSet(queue) \cup missed : state[r] \notin {"idle", "passed"}

(* Nothing is added or removed once there are goroutines. *)
Stages ==
    /\ loop # "none" => router \in {"running", "stopping", "stopped"}
    /\ \A r \in Requests : pc[r] # "none" => loop # "none"

(* The browser has the patterns of the router, which are those of the      *)
(* handlers of a careful owner.                                            *)
Wants ==
    /\ active = patterns
    /\ careful =>
         /\ patterns = {Typed[h] : h \in ToSet(handlers)}
         /\ loop # "none" => Needed \subseteq ToSet(handlers)
    /\ OnlyWanted

(* What there is of a request before its goroutine. *)
Unserved(r) ==
    /\ chosen[r] = {} /\ ctx[r] = {} /\ answers[r] = 0
    /\ state[r] \in {"idle", "passed", "paused", "released"}

(* How many handlers the goroutine of r has looked at. *)
Looked(r) == Len(handlers) - Len(todo[r])

Suffix(r) ==
    /\ Len(todo[r]) <= Len(handlers)
    /\ \A i \in 1..Len(todo[r]) : todo[r][i] = handlers[Looked(r) + i]

RanFor(r) ==
    /\ \A d \in chosen[r] :
         /\ r \in Url[d[1]] /\ d[2] \in Verdicts[d[1]]
         /\ \E j \in 1..Looked(r) : d[1] = handlers[j]
    /\ ctx[r] = {d[2] : d \in chosen[r]} \cap Field

(* The handler that ran last is the one the goroutine looked at last. *)
AtHand(r) ==
    /\ Looked(r) > 0
    /\ r \in Url[handlers[Looked(r)]]
    /\ \E choice \in Choice :
         DecidedTo(r, Looked(r), choice)

(* A request that got its answer gets no other. *)
Once(r) ==
    /\ answers[r] <= 1
    /\ pc[r] = "decide" => answers[r] = 0
    /\ pc[r] = "range" =>
         answers[r] = 0 \/ \A i \in 1..Len(todo[r]) : r \notin Url[todo[r][i]]

(* While r is paused all have skipped it, but for the handler at hand. *)
First(r) ==
    /\ state[r] = "paused" /\ pc[r] = "range" => SkippedBefore(r, Looked(r) + 1)
    /\ state[r] = "paused" /\ pc[r] = "decide" => SkippedBefore(r, Looked(r))
    /\ state[r] \in {"continued", "failed", "fulfilled"} =>
         \E i \in 1..Looked(r) : \E choice \in {"continue", "fail", "fulfill"} :
            /\ r \in Url[handlers[i]]
            /\ SkippedBefore(r, i)
            /\ DecidedTo(r, i, choice)
            /\ state[r] = Outcome(choice)

Served(r) ==
    /\ pc[r] = "none" => Unserved(r)
    /\ pc[r] # "none" => Suffix(r) /\ RanFor(r)
    /\ pc[r] = "decide" => AtHand(r)
    /\ RespondersAlone => Once(r)
    /\ SkippersYield => First(r)

(* The inductive invariant of the router. *)
HijackInv == TypeOK /\ Events /\ Stages /\ Wants /\ \A r \in Requests : Served(r)

LEMMA Appended ==
    ASSUME NEW S, NEW s \in Seq(S), NEW e \in S, IsInjective(s), e \notin ToSet(s)
    PROVE  /\ Append(s, e) \in Seq(S) /\ IsInjective(Append(s, e))
           /\ ToSet(Append(s, e)) = ToSet(s) \cup {e}
<1> DEFINE t == Append(s, e)
           n == Len(s)
<1>1. /\ n \in Nat /\ t \in Seq(S) /\ Len(t) = n + 1
      /\ t[n + 1] = e /\ \A i \in 1..n : t[i] = s[i]
      /\ DOMAIN s = 1..n /\ DOMAIN t = 1..(n + 1)
  OBVIOUS
<1>2. \A i \in 1..(n + 1) : i \in 1..n \/ i = n + 1
  BY <1>1
<1>3. \A i \in 1..n : s[i] # e /\ i \in 1..(n + 1)
  BY <1>1 DEF ToSet
<1>4. IsInjective(t)
  BY <1>1, <1>2, <1>3 DEF IsInjective
<1>5. ToSet(t) = ToSet(s) \cup {e}
  <2>1. n + 1 \in 1..(n + 1)
    BY <1>1
  <2> QED
    BY <1>1, <1>2, <1>3, <2>1 DEF ToSet
<1> QED
  BY <1>1, <1>4, <1>5

LEMMA Received ==
    ASSUME NEW S, NEW s \in Seq(S), s # << >>, IsInjective(s)
    PROVE  /\ Head(s) \in S /\ Head(s) \in ToSet(s)
           /\ Tail(s) \in Seq(S) /\ IsInjective(Tail(s))
           /\ ToSet(Tail(s)) \subseteq ToSet(s) \ {Head(s)}
<1> DEFINE t == Tail(s)
           n == Len(s)
<1>1. /\ n \in Nat \ {0} /\ t \in Seq(S) /\ Len(t) = n - 1 /\ Head(s) = s[1]
      /\ DOMAIN s = 1..n /\ DOMAIN t = 1..(n - 1)
  OBVIOUS
<1>2. \A i \in 1..(n - 1) : t[i] = s[i + 1] /\ i + 1 \in 1..n /\ i + 1 # 1
  BY <1>1
<1>3. 1 \in 1..n /\ s[1] \in S
  BY <1>1
<1>4. IsInjective(t)
  <2> SUFFICES ASSUME NEW i \in 1..(n - 1), NEW j \in 1..(n - 1), t[i] = t[j]
               PROVE  i = j
    BY <1>1 DEF IsInjective
  <2>1. i + 1 = j + 1
    BY <1>1, <1>2 DEF IsInjective
  <2> QED
    BY <2>1
<1>5. ToSet(t) \subseteq ToSet(s) \ {Head(s)}
  BY <1>1, <1>2, <1>3 DEF ToSet, IsInjective
<1> QED
  BY <1>1, <1>3, <1>4, <1>5 DEF ToSet

LEMMA Removed ==
    ASSUME NEW S, NEW s \in Seq(S), IsInjective(s), NEW k \in 1..Len(s)
    PROVE  RemoveAt(s, k) \in Seq(S) /\ IsInjective(RemoveAt(s, k))
<1> DEFINE t == RemoveAt(s, k)
           n == Len(s)
<1>1. /\ n \in Nat /\ k \in Nat /\ 1 <= k /\ k <= n
      /\ k - 1 \in 0..n /\ k + 1 \in 1..(n + 1) /\ DOMAIN s = 1..n
  OBVIOUS
<1>2. /\ SubSeq(s, 1, k - 1) \in Seq(S) /\ Len(SubSeq(s, 1, k - 1)) = k - 1
      /\ \A i \in 1..(k - 1) : SubSeq(s, 1, k - 1)[i] = s[i]
  BY <1>1
<1>3. /\ SubSeq(s, k + 1, n) \in Seq(S) /\ Len(SubSeq(s, k + 1, n)) = n - k
      /\ \A i \in 1..(n - k) : SubSeq(s, k + 1, n)[i] = s[k + i]
  <2> DEFINE m == k + 1
  <2>1. m \in Int /\ n \in Int /\ n - k \in Nat
    BY <1>1
  <2>2. \A i \in m..n : s[i] \in S
    BY <1>1
  <2>3. n - m + 1 = n - k
    BY <1>1
  <2>4. (IF m <= n THEN n - m + 1 ELSE 0) = n - k
    <3>1. CASE k = n
      <4>1. ~(m <= n) /\ n - k = 0
        BY <1>1, <3>1
      <4> QED
        BY <4>1
    <3>2. CASE k # n
      <4>0. \A a, b \in Nat : a <= b /\ a # b => a + 1 <= b
        OBVIOUS
      <4>1. m <= n
        BY <1>1, <3>2, <4>0
      <4> QED
        BY <2>3, <4>1
    <3> QED
      BY <3>1, <3>2
  <2>5. \A i \in 1..(n - k) : m + i - 1 = k + i
    BY <1>1
  <2> HIDE DEF m, n
  <2>6. /\ SubSeq(s, m, n) \in Seq(S)
        /\ Len(SubSeq(s, m, n)) = IF m <= n THEN n - m + 1 ELSE 0
        /\ \A i \in 1..(n - m + 1) : SubSeq(s, m, n)[i] = s[m + i - 1]
    BY <2>1, <2>2, SubSeqProperties
  <2> QED
    BY <2>3, <2>4, <2>5, <2>6 DEF m
<1>4. /\ t \in Seq(S) /\ Len(t) = n - 1
      /\ \A i \in 1..(n - 1) : t[i] = IF i < k THEN s[i] ELSE s[i + 1]
  <2> DEFINE a == SubSeq(s, 1, k - 1)
             b == SubSeq(s, k + 1, n)
  <2>1. t = a \o b
    BY DEF RemoveAt
  <2> HIDE DEF a, b, t
  <2>2. a \in Seq(S) /\ b \in Seq(S) /\ Len(a) = k - 1 /\ Len(b) = n - k
    BY <1>2, <1>3 DEF a, b
  <2>3. /\ t \in Seq(S) /\ Len(t) = n - 1
        /\ \A i \in 1..(n - 1) : t[i] = IF i <= k - 1 THEN a[i] ELSE b[i - (k - 1)]
    <3>1. /\ a \o b \in Seq(S) /\ Len(a \o b) = Len(a) + Len(b)
          /\ \A i \in 1..(Len(a) + Len(b)) :
               (a \o b)[i] = IF i <= Len(a) THEN a[i] ELSE b[i - Len(a)]
      BY <2>2, ConcatProperties
    <3>2. (k - 1) + (n - k) = n - 1
      BY <1>1
    <3> QED
      BY <2>1, <2>2, <3>1, <3>2
  <2>4. ASSUME NEW i \in 1..(n - 1)
        PROVE  t[i] = IF i < k THEN s[i] ELSE s[i + 1]
    <3>1. CASE i < k
      BY <1>1, <1>2, <2>3, <3>1 DEF a
    <3>2. CASE ~(i < k)
      <4>1. i - (k - 1) \in 1..(n - k) /\ k + (i - (k - 1)) = i + 1
        BY <1>1, <3>2
      <4> QED
        BY SMTT(30), <1>3, <2>3, <3>2, <4>1 DEF b
    <3> QED
      BY <3>1, <3>2
  <2> QED
    BY <2>3, <2>4
<1>5. DOMAIN t = 1..(n - 1)
  BY <1>4
<1> HIDE DEF t
<1>6. ASSUME NEW i \in 1..(n - 1), NEW j \in 1..(n - 1), t[i] = t[j]
      PROVE  i = j
  <2>1. \A a \in 1..(n - 1) : a \in 1..n /\ a + 1 \in 1..n
    BY <1>1
  <2>2. \A a, b \in 1..n : s[a] = s[b] => a = b
    BY <1>1 DEF IsInjective
  <2>3. CASE i < k /\ j < k
    BY <1>4, <1>6, <2>1, <2>2, <2>3
  <2>4. CASE ~(i < k) /\ ~(j < k)
    BY <1>4, <1>6, <2>1, <2>2, <2>4
  <2>5. CASE i < k /\ ~(j < k)
    BY <1>4, <1>6, <2>1, <2>2, <2>5
  <2>6. CASE ~(i < k) /\ j < k
    BY <1>4, <1>6, <2>1, <2>2, <2>6
  <2> QED
    BY <2>3, <2>4, <2>5, <2>6
<1> QED
  BY <1>4, <1>5, <1>6 DEF IsInjective, t

USE HijackAssumption DEF owner, worker

(* What is true of a request stays so while others are served, and while   *)
(* interception is switched off; before its goroutine it depends on no     *)
(* handler.                                                                *)
LEMMA ServedAside ==
    ASSUME NEW r \in Requests, Served(r),
           pc'[r] = pc[r], todo'[r] = todo[r], ctx'[r] = ctx[r],
           chosen'[r] = chosen[r], answers'[r] = answers[r],
           \/ handlers' = handlers /\ (state'[r] = state[r] \/ state'[r] = "released")
           \/ pc[r] = "none" /\ state'[r] \in {"idle", "passed", "paused", "released"}
    PROVE  Served(r)'
<1>1. CASE pc[r] = "none"
  <2>1. Unserved(r)'
    BY <1>1 DEF Served, Unserved
  <2>2. Once(r)' /\ First(r)'
    BY <1>1, <2>1 DEF Once, First, Unserved
  <2> QED
    BY <1>1, <2>1, <2>2 DEF Served
<1>2. CASE pc[r] # "none" /\ handlers' = handlers /\ (state'[r] = state[r] \/ state'[r] = "released")
  <2>1. Looked(r)' = Looked(r) /\ (Suffix(r) => Suffix(r)')
    BY <1>2 DEF Looked, Suffix
  <2>2. RanFor(r) => RanFor(r)'
    BY <1>2, <2>1 DEF RanFor
  <2>3. \A i, choice : DecidedTo(r, i, choice)' <=> DecidedTo(r, i, choice)
    BY <1>2 DEF DecidedTo
  <2>4. \A i : SkippedBefore(r, i)' <=> SkippedBefore(r, i)
    BY <1>2, <2>3 DEF SkippedBefore
  <2>5. AtHand(r) => AtHand(r)'
    BY <1>2, <2>1, <2>3 DEF AtHand
  <2>6. Once(r) => Once(r)'
    BY <1>2 DEF Once
  <2>7. First(r) => First(r)'
    BY <1>2, <2>1, <2>3, <2>4 DEF First
  <2>8. (RespondersAlone' <=> RespondersAlone) /\ (SkippersYield' <=> SkippersYield)
    BY DEF RespondersAlone, SkippersYield
  <2> QED
    BY <1>2, <2>1, <2>2, <2>5, <2>6, <2>7, <2>8 DEF Served
<1> QED
  BY <1>1, <1>2

(* The owner's steps. *)
LEMMA OwnerKeeps ==
    ASSUME HijackInv, OwnerStep
    PROVE  HijackInv'
<1> USE DEF HijackInv
<1>0. ASSUME UNCHANGED worker, UNCHANGED answers,
             \A r \in Requests : state'[r] = state[r] \/ state'[r] = "released",
             handlers' = handlers \/ router = "subscribed"
      PROVE  \A r \in Requests : Served(r)'
  BY <1>0, ServedAside DEF Stages, Served, Unserved
<1>1. CASE Enable \/ Subscribe \/ Run \/ StopCancel
  <2>1. /\ UNCHANGED <<careful, handlers, patterns, state, queue, missed, worker, answers>>
        /\ active' = patterns /\ fetch' \in BOOLEAN
        /\ router' \in {"enabled", "subscribed", "running", "stopping"}
        /\ loop' = loop \/ loop' = "running"
    BY <1>1 DEF Enable, Subscribe, Run, StopCancel, browser, TypeOK, Wants
  <2>2. TypeOK'
    BY <2>1 DEF TypeOK
  <2>3. Events'
    BY <2>1 DEF Events
  <2>4. Stages'
    BY <1>1, <2>1 DEF Stages, Enable, Subscribe, Run, StopCancel
  <2>5. Wants'
    BY <1>1, <2>1 DEF Wants, OnlyWanted, Enable, Subscribe, Run, StopCancel
  <2> QED
    BY <1>0, <2>1, <2>2, <2>3, <2>4, <2>5
<1>2. ASSUME NEW h \in Handlers, AddHandler(h)
      PROVE  HijackInv'
  <2>1. /\ router = "subscribed" /\ h \notin ToSet(handlers)
        /\ handlers' = Append(handlers, h) /\ patterns' = patterns \cup {Typed[h]} /\ active' = patterns'
        /\ UNCHANGED <<careful, router, loop, fetch, state, queue, missed, worker, answers>>
    BY <1>2 DEF AddHandler
  <2>2. /\ handlers' \in Seq(Handlers) /\ IsInjective(handlers')
        /\ ToSet(handlers') = ToSet(handlers) \cup {h}
    BY <2>1, Appended DEF TypeOK
  <2>3. TypeOK'
    BY <2>1, <2>2 DEF TypeOK
  <2>4. Events' /\ Stages'
    BY <2>1 DEF Events, Stages
  <2>5. Wants'
    BY <2>1, <2>2 DEF Wants, OnlyWanted
  <2> QED
    BY <1>0, <2>1, <2>3, <2>4, <2>5
<1>3. ASSUME NEW h \in Handlers, RemoveHandler(h)
      PROVE  HijackInv'
  <2>1. /\ ~careful /\ router = "subscribed"
        /\ patterns' = {Url[g] : g \in ToSet(handlers) \ {h}} /\ active' = patterns'
        /\ UNCHANGED <<careful, router, loop, fetch, state, queue, missed, worker, answers>>
    BY <1>3 DEF RemoveHandler
  <2>2. handlers' \in Seq(Handlers) /\ IsInjective(handlers')
    BY <1>3, Removed DEF RemoveHandler, TypeOK
  <2>3. patterns' \subseteq SUBSET Requests
    BY <2>1 DEF TypeOK, ToSet
  <2>4. TypeOK'
    BY <2>1, <2>2, <2>3 DEF TypeOK
  <2>5. Events' /\ Stages' /\ Wants'
    BY <2>1 DEF Events, Stages, Wants, OnlyWanted
  <2> QED
    BY <1>0, <2>1, <2>4, <2>5
<1>4. CASE StopDisable
  <2>1. /\ router = "stopping" /\ router' = "stopped" /\ fetch' = FALSE
        /\ \A r \in Requests :
             state'[r] = IF state[r] = "paused" THEN "released" ELSE state[r]
        /\ state' \in [Requests -> {"idle", "passed", "paused", "continued", "failed",
                                    "fulfilled", "released"}]
        /\ UNCHANGED <<careful, loop, handlers, patterns, active, queue, missed, worker, answers>>
    BY <1>4 DEF StopDisable, TypeOK
  <2>2. TypeOK'
    BY <2>1 DEF TypeOK
  <2>3. Events'
    <3>1. \A r \in ToSet(queue) \cup missed : r \in Requests
      BY DEF TypeOK, ToSet
    <3> QED
      BY <2>1, <3>1 DEF Events
  <2>4. Stages' /\ Wants'
    BY <2>1 DEF Stages, Wants, OnlyWanted
  <2> QED
    BY <1>0, <2>1, <2>2, <2>3, <2>4
<1> QED
  BY <1>1, <1>2, <1>3, <1>4 DEF OwnerStep

(* A careful owner has patterns by the time of the first request. *)
LEMMA RequestKeeps ==
    ASSUME HijackInv, NEW r \in Requests, Request(r)
    PROVE  HijackInv'
<1> USE DEF HijackInv
<1>1. /\ state[r] = "idle" /\ (careful => loop # "none")
      /\ UNCHANGED <<careful, router, handlers, patterns, loop, fetch, active, worker, answers>>
      /\ state' = [state EXCEPT ![r] = IF Intercepted(r) THEN "paused" ELSE "passed"]
      /\ \/ state'[r] = "paused" /\ queue' = Append(queue, r) /\ UNCHANGED missed
         \/ state'[r] = "paused" /\ missed' = missed \cup {r} /\ UNCHANGED queue
         \/ UNCHANGED <<queue, missed>>
  BY DEF Request, TypeOK
<1>2. pc[r] = "none" /\ r \notin ToSet(queue) \cup missed
  BY <1>1 DEF TypeOK, Events
<1>3. /\ state' \in [Requests -> {"idle", "passed", "paused", "continued", "failed",
                                  "fulfilled", "released"}]
      /\ state'[r] \in {"passed", "paused"}
      /\ \A q \in Requests : q # r => state'[q] = state[q]
  BY <1>1 DEF TypeOK
<1>4. /\ queue' \in Seq(Requests) /\ IsInjective(queue') /\ missed' \subseteq Requests
      /\ ToSet(queue') \cap missed' = {}
      /\ ToSet(queue') \cup missed' \subseteq ToSet(queue) \cup missed \cup {r}
      /\ r \in ToSet(queue') \cup missed' => state'[r] = "paused"
  <2>1. CASE state'[r] = "paused" /\ queue' = Append(queue, r) /\ UNCHANGED missed
    BY <1>2, <2>1, Appended DEF TypeOK, Events
  <2>2. CASE state'[r] = "paused" /\ missed' = missed \cup {r} /\ UNCHANGED queue
    BY <1>2, <2>2 DEF TypeOK, Events
  <2>3. CASE UNCHANGED <<queue, missed>>
    BY <1>2, <2>3 DEF TypeOK, Events
  <2> QED
    BY <1>1, <2>1, <2>2, <2>3
<1>5. TypeOK'
  BY <1>1, <1>2, <1>3, <1>4 DEF TypeOK
<1>6. Events'
  <2>1. \A q \in ToSet(queue) \cup missed : q \in Requests
    BY DEF TypeOK, ToSet
  <2> QED
    BY <1>2, <1>3, <1>4, <2>1 DEF Events
<1>7. Stages'
  BY <1>1 DEF Stages
<1>8. Wants'
  <2>1. ASSUME careful, Needed # {}, state'[r] = "paused"
        PROVE  \E h \in ToSet(handlers) : r \in Typed[h]
    <3>1. Needed \subseteq ToSet(handlers) /\ active = {Typed[h] : h \in ToSet(handlers)}
      BY <1>1, <2>1 DEF Wants
    <3>2. active # {} /\ Intercepted(r)
      BY <1>1, <2>1, <3>1, <1>3 DEF TypeOK
    <3> QED
      BY <3>1, <3>2 DEF Intercepted
  <2> QED
    BY <1>1, <1>3, <2>1 DEF Wants, OnlyWanted
<1>9. \A q \in Requests : Served(q)'
  BY <1>1, <1>2, <1>3, ServedAside
<1> QED
  BY <1>5, <1>6, <1>7, <1>8, <1>9

(* The loop starts a goroutine, once for each event. *)
LEMMA LoopKeeps ==
    ASSUME HijackInv, TakeEvent \/ LoopEnd
    PROVE  HijackInv'
<1> USE DEF HijackInv
<1>1. CASE LoopEnd
  <2>1. /\ loop = "running" /\ loop' = "ended"
        /\ UNCHANGED <<careful, router, handlers, patterns, fetch, active, state, queue, missed, worker, answers>>
    BY <1>1 DEF LoopEnd, browser
  <2>2. TypeOK' /\ Events' /\ Stages' /\ Wants'
    BY <2>1 DEF TypeOK, Events, Stages, Wants, OnlyWanted
  <2> QED
    BY <2>1, <2>2, ServedAside
<1>2. CASE TakeEvent
  <2>0. PICK r \in Requests : r = Head(queue)
    BY <1>2, Received DEF TakeEvent, TypeOK, Events
  <2>1. /\ loop = "running" /\ queue # << >> /\ queue' = Tail(queue)
        /\ pc' = [pc EXCEPT ![r] = "range"]
        /\ todo' = [todo EXCEPT ![r] = handlers]
        /\ UNCHANGED <<careful, router, loop, handlers, patterns, fetch, active, state, missed,
                       ctx, chosen, answers>>
    BY <1>2, <2>0 DEF TakeEvent, browser
  <2>2. /\ r \in ToSet(queue)
        /\ queue' \in Seq(Requests) /\ IsInjective(queue')
        /\ ToSet(queue') \subseteq ToSet(queue) \ {r}
    BY <2>0, <2>1, Received DEF TypeOK, Events
  <2>3. /\ pc[r] = "none" /\ r \notin missed /\ state[r] \notin {"idle", "passed"}
    BY <2>2 DEF TypeOK, Events
  <2>4. /\ pc' \in [Requests -> {"none", "range", "decide", "done"}]
        /\ todo' \in [Requests -> Seq(Handlers)]
        /\ pc'[r] = "range" /\ todo'[r] = handlers
        /\ \A q \in Requests : q # r => pc'[q] = pc[q] /\ todo'[q] = todo[q]
    BY <2>1, <2>2 DEF TypeOK
  <2>5. TypeOK'
    <3>1. \A q \in Requests :
            /\ q \in ToSet(queue') \cup missed => pc'[q] = "none"
            /\ pc'[q] # "none" => state[q] \notin {"idle", "passed"}
      BY <2>2, <2>3, <2>4 DEF TypeOK
    <3> QED
      BY <2>1, <2>2, <2>4, <3>1 DEF TypeOK
  <2>6. Events'
    BY <2>1, <2>2 DEF Events
  <2>7. Stages'
    BY <2>1, <2>4 DEF Stages
  <2>8. Wants'
    BY <2>1 DEF Wants, OnlyWanted
  <2>9. Served(r)'
    <3>1. Unserved(r) /\ Unserved(r)'
      BY <2>1, <2>2, <2>3 DEF Served, Unserved
    <3>2. Len(handlers) \in Nat /\ Looked(r)' = 0
      BY <2>1, <2>4 DEF Looked, TypeOK
    <3>3. Suffix(r)'
      BY <2>1, <2>4, <3>2 DEF Suffix, TypeOK
    <3>4. RanFor(r)'
      BY <3>1 DEF RanFor, Unserved
    <3>5. Once(r)'
      BY <2>4, <3>1 DEF Once, Unserved
    <3>6. First(r)'
      BY <2>4, <3>1, <3>2 DEF First, Unserved, SkippedBefore
    <3> QED
      BY <2>4, <3>3, <3>4, <3>5, <3>6 DEF Served
  <2>10. ASSUME NEW q \in Requests, q # r
         PROVE  Served(q)'
    BY <2>1, <2>4, <2>10, ServedAside
  <2> QED
    BY <2>5, <2>6, <2>7, <2>8, <2>9, <2>10
<1> QED
  BY <1>1, <1>2

(* One goroutine's step.  It leaves the others alone. *)
LEMMA WorkerRest ==
    ASSUME HijackInv, NEW r \in Requests, pc[r] # "none",
           UNCHANGED <<careful, router, handlers, patterns, loop, fetch, active, queue, missed>>,
           pc' \in [Requests -> {"none", "range", "decide", "done"}],
           todo' \in [Requests -> Seq(Handlers)],
           ctx' \in [Requests -> SUBSET Field],
           chosen' \in [Requests -> SUBSET (Handlers \X Choice)],
           answers' \in [Requests -> Nat],
           state' \in [Requests -> {"idle", "passed", "paused", "continued", "failed",
                                    "fulfilled", "released"}],
           state'[r] = state[r] \/ state'[r] \in {"continued", "failed", "fulfilled"},
           \A q \in Requests : q # r =>
               /\ pc'[q] = pc[q] /\ todo'[q] = todo[q] /\ ctx'[q] = ctx[q]
               /\ chosen'[q] = chosen[q] /\ answers'[q] = answers[q] /\ state'[q] = state[q],
           Served(r)'
    PROVE  HijackInv'
<1> USE DEF HijackInv
<1>1. r \notin ToSet(queue) \cup missed /\ state[r] \notin {"idle", "passed"}
  BY DEF TypeOK
<1>2. TypeOK'
  BY <1>1 DEF TypeOK, Choice
<1>3. Events'
  <2>1. \A q \in ToSet(queue) \cup missed : q \in Requests
    BY DEF TypeOK, ToSet
  <2> QED
    BY <1>1, <2>1 DEF Events
<1>4. Stages' /\ Wants'
  BY <1>1 DEF Stages, Wants, OnlyWanted
<1>5. \A q \in Requests : Served(q)'
  BY ServedAside
<1> QED
  BY <1>2, <1>3, <1>4, <1>5

(* What the goroutine has looked at when it goes on to the next handler. *)
LEMMA Advance ==
    ASSUME TypeOK, NEW r \in Requests, Suffix(r), todo[r] # << >>,
           todo' = [todo EXCEPT ![r] = Tail(@)], handlers' = handlers
    PROVE  /\ todo' \in [Requests -> Seq(Handlers)] /\ todo'[r] = Tail(todo[r])
           /\ Looked(r) \in Nat /\ Looked(r)' = Looked(r) + 1 /\ Looked(r) + 1 \in 1..Len(handlers)
           /\ Head(todo[r]) = handlers[Looked(r) + 1] /\ Head(todo[r]) \in Handlers
           /\ Suffix(r)'
           /\ \A i \in 1..Looked(r) : handlers[i] # Head(todo[r])
           /\ Head(todo[r]) = todo[r][1] /\ 1 \in 1..Len(todo[r])
           /\ \A i \in 1..Len(Tail(todo[r])) : i + 1 \in 1..Len(todo[r]) /\ Tail(todo[r])[i] = todo[r][i + 1]
<1> DEFINE s == todo[r]
           t == Tail(s)
           n == Len(handlers)
           l == Len(s)
<1>1. /\ s \in Seq(Handlers) /\ s # << >> /\ handlers \in Seq(Handlers) /\ n \in Nat
      /\ todo' \in [Requests -> Seq(Handlers)] /\ todo'[r] = t
  BY DEF TypeOK
<1>2. /\ l \in Nat \ {0} /\ Len(t) = l - 1 /\ Head(s) = s[1] /\ 1 \in 1..l
      /\ \A i \in 1..(l - 1) : t[i] = s[i + 1] /\ i + 1 \in 1..l
  BY <1>1
<1>3. l <= n /\ \A i \in 1..l : s[i] = handlers[(n - l) + i]
  BY DEF Suffix, Looked
<1>4. Looked(r) = n - l /\ Looked(r)' = n - (l - 1)
  BY <1>1, <1>2 DEF Looked
<1> HIDE DEF s, t, n, l
<1>5. n - l \in Nat /\ n - (l - 1) = (n - l) + 1 /\ (n - l) + 1 \in 1..n /\ l - 1 <= n
  BY <1>1, <1>2, <1>3
<1>6. Head(s) = handlers[(n - l) + 1]
  BY <1>2, <1>3
<1>7. \A i \in 1..(n - l) : handlers[i] # Head(s)
  <2>1. \A i \in 1..(n - l) : i \in 1..n /\ i # (n - l) + 1
    BY <1>1, <1>2, <1>5
  <2>2. \A i, j \in 1..n : handlers[i] = handlers[j] => i = j
    BY <1>1 DEF TypeOK, IsInjective, n
  <2> QED
    BY <1>5, <1>6, <2>1, <2>2
<1>8. \A i \in 1..(l - 1) : t[i] = handlers[((n - l) + 1) + i]
  <2> TAKE i \in 1..(l - 1)
  <2>1. (n - l) + (i + 1) = ((n - l) + 1) + i
    BY <1>1, <1>2
  <2> QED
    BY <1>2, <1>3, <2>1
<1>9. Suffix(r)'
  BY <1>1, <1>2, <1>4, <1>5, <1>8 DEF Suffix, n
<1>10. Head(s) \in Handlers
  BY <1>1
<1> QED
  BY <1>1, <1>2, <1>4, <1>5, <1>6, <1>7, <1>9, <1>10 DEF s, t, n, l

LEMMA PassKeeps ==
    ASSUME HijackInv, NEW r \in Requests, PassHandler(r)
    PROVE  HijackInv'
<1> USE DEF HijackInv
<1>1. /\ pc[r] = "range" /\ todo[r] # << >> /\ r \notin Url[Head(todo[r])]
      /\ todo' = [todo EXCEPT ![r] = Tail(@)]
      /\ UNCHANGED <<careful, router, handlers, patterns, loop, fetch, active, state, queue,
                     missed, pc, ctx, chosen, answers>>
  BY DEF PassHandler, Matches, browser
<1>2. Suffix(r) /\ RanFor(r)
  BY <1>1 DEF Served
<1>3. /\ todo' \in [Requests -> Seq(Handlers)] /\ todo'[r] = Tail(todo[r])
      /\ Looked(r) \in Nat /\ Looked(r)' = Looked(r) + 1
      /\ Head(todo[r]) = handlers[Looked(r) + 1]
      /\ Suffix(r)'
      /\ \A i \in 1..Len(Tail(todo[r])) : i + 1 \in 1..Len(todo[r]) /\ Tail(todo[r])[i] = todo[r][i + 1]
  BY <1>1, <1>2, Advance
<1>4. \A j \in 1..(Looked(r) + 1) : j \in 1..Looked(r) \/ j = Looked(r) + 1
  BY <1>3
<1>5. \A j \in 1..Looked(r) : j \in 1..(Looked(r) + 1)
  BY <1>3
<1>6. RanFor(r)'
  BY <1>1, <1>2, <1>3, <1>5 DEF RanFor
<1>7. RespondersAlone' => Once(r)'
  <2> SUFFICES ASSUME RespondersAlone
               PROVE  Once(r)'
    BY DEF RespondersAlone
  <2>1. Once(r)
    BY DEF Served
  <2>2. (\A i \in 1..Len(todo[r]) : r \notin Url[todo[r][i]])
          => \A i \in 1..Len(todo'[r]) : r \notin Url[todo'[r][i]]
    BY <1>3
  <2> QED
    BY <1>1, <2>1, <2>2 DEF Once
<1>8. SkippersYield' => First(r)'
  <2> SUFFICES ASSUME SkippersYield
               PROVE  First(r)'
    BY DEF SkippersYield
  <2>1. First(r)
    BY DEF Served
  <2>2. /\ \A i, choice : DecidedTo(r, i, choice)' <=> DecidedTo(r, i, choice)
        /\ \A i : SkippedBefore(r, i)' <=> SkippedBefore(r, i)
    BY <1>1 DEF DecidedTo, SkippedBefore
  <2>3. SkippedBefore(r, Looked(r) + 1) => SkippedBefore(r, (Looked(r) + 1) + 1)
    <3>1. \A n \in Nat : (n + 1) - 1 = n /\ ((n + 1) + 1) - 1 = n + 1
      OBVIOUS
    <3> QED
      BY <1>1, <1>3, <1>4, <3>1 DEF SkippedBefore
  <2> QED
    BY <1>1, <1>3, <1>5, <2>1, <2>2, <2>3 DEF First
<1>9. Served(r)'
  BY <1>1, <1>3, <1>6, <1>7, <1>8 DEF Served
<1> QED
  BY <1>1, <1>3, <1>9, WorkerRest DEF TypeOK, Choice

(* A handler runs once for a request, after those it has looked at. *)
LEMMA RunKeeps ==
    ASSUME HijackInv, NEW r \in Requests, RunHandler(r)
    PROVE  HijackInv'
<1> USE DEF HijackInv
<1>1. /\ pc[r] = "range" /\ todo[r] # << >>
      /\ todo' = [todo EXCEPT ![r] = Tail(@)]
      /\ pc' = [pc EXCEPT ![r] = "decide"]
      /\ UNCHANGED <<careful, router, handlers, patterns, loop, fetch, active, state, queue,
                     missed, answers>>
  BY DEF RunHandler, browser
<1>2. Suffix(r) /\ RanFor(r)
  BY <1>1 DEF Served
<1>3. PICK h \in Handlers, l \in Nat : h = Head(todo[r]) /\ l = Looked(r)
  BY <1>1, <1>2, Advance
<1>4. /\ todo' \in [Requests -> Seq(Handlers)]
      /\ Looked(r)' = l + 1 /\ handlers[l + 1] = h
      /\ Suffix(r)'
      /\ \A i \in 1..l : handlers[i] # h
      /\ h = todo[r][1] /\ 1 \in 1..Len(todo[r])
  BY <1>1, <1>2, <1>3, Advance
<1>5. PICK choice \in Verdicts[h] :
        /\ r \in Url[h]
        /\ ctx' = [ctx EXCEPT ![r] = @ \cup ({choice} \cap Field)]
        /\ chosen' = [chosen EXCEPT ![r] = @ \cup {<<h, choice>>}]
  BY <1>3 DEF RunHandler, Matches
<1>6. /\ choice \in Choice
      /\ pc' \in [Requests -> {"none", "range", "decide", "done"}] /\ pc'[r] = "decide"
      /\ ctx' \in [Requests -> SUBSET Field]
      /\ ctx'[r] = ctx[r] \cup ({choice} \cap Field)
      /\ \A q \in Requests : q # r => pc'[q] = pc[q] /\ todo'[q] = todo[q] /\ ctx'[q] = ctx[q]
  BY <1>1, <1>5 DEF Choice, TypeOK
<1>7. /\ chosen' \in [Requests -> SUBSET (Handlers \X Choice)]
      /\ chosen'[r] = chosen[r] \cup {<<h, choice>>}
      /\ \A q \in Requests : q # r => chosen'[q] = chosen[q]
  <2>1. chosen \in [Requests -> SUBSET (Handlers \X Choice)] /\ <<h, choice>> \in Handlers \X Choice
    BY <1>6 DEF TypeOK, Choice
  <2> QED
    BY <1>5, <2>1
<1>8. \A d \in chosen[r] : \E j \in 1..l : d[1] = handlers[j]
  BY <1>2, <1>3 DEF RanFor
<1>9. /\ DecidedTo(r, l + 1, choice)'
      /\ \A j \in 1..l : \A c : DecidedTo(r, j, c)' <=> DecidedTo(r, j, c)
  <2>1. \A d \in chosen[r] : d[1] # h
    BY <1>4, <1>8
  <2>2. {d \in chosen'[r] : d[1] = h} = {<<h, choice>>}
    BY <1>7, <2>1
  <2>3. ASSUME NEW j \in 1..l
        PROVE  {d \in chosen'[r] : d[1] = handlers[j]} = {d \in chosen[r] : d[1] = handlers[j]}
    BY <1>4, <1>7
  <2> QED
    BY <1>1, <1>4, <2>2, <2>3 DEF DecidedTo
<1>10. ASSUME NEW i \in 1..(l + 1)
       PROVE  SkippedBefore(r, i)' <=> SkippedBefore(r, i)
  <2>1. \A j \in 1..(i - 1) : j \in 1..l
    BY <1>3
  <2> QED
    BY <1>1, <1>9, <2>1 DEF SkippedBefore
<1>11. \A j \in 1..l : j \in 1..(l + 1)
  BY <1>3
<1>12. RanFor(r)'
  <2>1. ctx'[r] = {d[2] : d \in chosen'[r]} \cap Field
    <3>1. {d[2] : d \in chosen[r] \cup {<<h, choice>>}} = {d[2] : d \in chosen[r]} \cup {choice}
      <4>1. \A A, x : {d[2] : d \in A \cup {x}} = {d[2] : d \in A} \cup {x[2]}
        OBVIOUS
      <4>2. <<h, choice>>[2] = choice
        OBVIOUS
      <4> QED
        BY <4>1, <4>2
    <3> QED
      BY <1>2, <1>6, <1>7, <3>1 DEF RanFor
  <2>2. \A d \in chosen'[r] :
          /\ r \in Url[d[1]] /\ d[2] \in Verdicts[d[1]]
          /\ \E j \in 1..(l + 1) : d[1] = handlers[j]
    <3>1. l + 1 \in 1..(l + 1)
      BY <1>3
    <3> QED
      BY <1>2, <1>4, <1>5, <1>7, <1>8, <1>11, <3>1 DEF RanFor
  <2> QED
    BY <1>1, <1>4, <2>1, <2>2 DEF RanFor
<1>13. AtHand(r)'
  BY <1>1, <1>3, <1>4, <1>5, <1>6, <1>9 DEF AtHand
<1>14. RespondersAlone' => Once(r)'
  BY <1>1, <1>3, <1>4, <1>5, <1>6 DEF Served, Once, RespondersAlone
<1>15. SkippersYield' => First(r)'
  <2> SUFFICES ASSUME SkippersYield
               PROVE  First(r)'
    BY DEF SkippersYield
  <2>1. First(r)
    BY DEF Served
  <2>2. l + 1 \in 1..(l + 1)
    BY <1>3
  <2>3. state[r] = "paused" => SkippedBefore(r, l + 1)'
    BY <1>1, <1>3, <1>10, <2>1, <2>2 DEF First
  <2>4. state[r] \in {"continued", "failed", "fulfilled"} =>
          \E i \in 1..(l + 1) : \E c \in {"continue", "fail", "fulfill"} :
            /\ r \in Url[handlers'[i]]
            /\ SkippedBefore(r, i)'
            /\ DecidedTo(r, i, c)'
            /\ state[r] = Outcome(c)
    BY <1>1, <1>3, <1>9, <1>10, <1>11, <2>1 DEF First
  <2> QED
    BY <1>1, <1>4, <1>6, <2>3, <2>4 DEF First
<1>16. Served(r)'
  BY <1>4, <1>6, <1>12, <1>13, <1>14, <1>15 DEF Served
<1> QED
  BY <1>1, <1>4, <1>6, <1>7, <1>16, WorkerRest DEF TypeOK

(* The fields of the Hijack are as the handler at hand decided, but for    *)
(* what those before it have set; while r is paused that is Skip.          *)
LEMMA HandDecides ==
    ASSUME TypeOK, NEW r \in Requests, Served(r), pc[r] = "decide"
    PROVE  \E h \in Handlers : \E choice \in Verdicts[h] :
             /\ h = handlers[Looked(r)] /\ r \in Url[h] /\ Looked(r) \in 1..Len(handlers)
             /\ choice \in Choice /\ DecidedTo(r, Looked(r), choice)
             /\ <<h, choice>> \in chosen[r]
             /\ choice \in Field => choice \in ctx[r]
             /\ SkippersYield /\ state[r] = "paused" =>
                  /\ SkippedBefore(r, Looked(r))
                  /\ \A f \in ctx[r] : f # choice => f = "skip"
                  /\ choice \in {"fail", "fulfill"} => "skip" \notin ctx[r]
<1>1. Suffix(r) /\ RanFor(r) /\ AtHand(r)
  BY DEF Served
<1>2. PICK choice \in Choice : DecidedTo(r, Looked(r), choice)
  BY <1>1 DEF AtHand
<1>3. Looked(r) \in 1..Len(handlers)
  BY <1>1 DEF AtHand, Suffix, Looked, TypeOK
<1>4. PICK h \in Handlers : h = handlers[Looked(r)]
  BY <1>3 DEF TypeOK
<1>5. /\ r \in Url[h] /\ <<h, choice>> \in chosen[r] /\ choice \in Verdicts[h]
      /\ \A d \in chosen[r] : d[1] = h => d = <<h, choice>>
  BY <1>1, <1>2, <1>4 DEF AtHand, DecidedTo, RanFor
<1>6. choice \in Field => choice \in ctx[r]
  BY <1>1, <1>5 DEF RanFor
<1>7. ASSUME SkippersYield, state[r] = "paused"
      PROVE  /\ SkippedBefore(r, Looked(r))
             /\ \A f \in ctx[r] : f # choice => f = "skip"
             /\ choice \in {"fail", "fulfill"} => "skip" \notin ctx[r]
  <2>1. SkippedBefore(r, Looked(r))
    BY <1>7 DEF Served, First
  <2>2. ASSUME NEW d \in chosen[r], d[1] # h
        PROVE  d[2] = "skip" /\ d[1] \in Handlers /\ r \in Url[d[1]] /\ d[2] \in Verdicts[d[1]]
    <3>1. /\ r \in Url[d[1]] /\ d[2] \in Verdicts[d[1]] /\ d[1] \in Handlers
      BY <1>1 DEF RanFor, TypeOK
    <3>2. PICK j \in 1..Looked(r) : d[1] = handlers[j]
      BY <1>1 DEF RanFor
    <3>3. j \in 1..(Looked(r) - 1)
      BY <1>3, <1>4, <2>2, <3>2
    <3>4. DecidedTo(r, j, "skip")
      BY <2>1, <3>1, <3>2, <3>3 DEF SkippedBefore
    <3>5. d = <<handlers[j], "skip">>
      BY <3>2, <3>4 DEF DecidedTo
    <3> QED
      BY <3>1, <3>5
  <2>3. ASSUME NEW f \in ctx[r]
        PROVE  f = choice \/ (f = "skip" /\ \E g \in Handlers : g # h /\ r \in Url[g] /\ "skip" \in Verdicts[g])
    <3>1. PICK d \in chosen[r] : f = d[2]
      BY <1>1 DEF RanFor
    <3> QED
      BY <1>5, <2>2, <3>1
  <2>4. choice \in {"fail", "fulfill"} => "skip" \notin ctx[r]
    BY <1>5, <1>7, <2>3 DEF SkippersYield
  <2> QED
    BY <2>1, <2>3, <2>4
<1> QED
  BY <1>2, <1>3, <1>4, <1>5, <1>6, <1>7

(* The goroutine decides: what is left to show is what it makes of the     *)
(* answers and of the state of its request.                                *)
LEMMA DecideRest ==
    ASSUME HijackInv, NEW r \in Requests, pc[r] # "none",
           UNCHANGED <<careful, router, handlers, patterns, loop, fetch, active, queue, missed,
                       todo, ctx, chosen>>,
           NEW place \in {"range", "done"}, pc' = [pc EXCEPT ![r] = place],
           NEW verdict \in {"continued", "failed", "fulfilled"},
           Answer(r, verdict) \/ UNCHANGED <<state, answers>>,
           RespondersAlone => Once(r)',
           SkippersYield => First(r)'
    PROVE  HijackInv'
<1> USE DEF HijackInv
<1>1. Suffix(r) /\ RanFor(r)
  BY DEF Served
<1>2. /\ pc' \in [Requests -> {"none", "range", "decide", "done"}] /\ pc'[r] = place
      /\ \A q \in Requests : q # r => pc'[q] = pc[q]
  BY DEF TypeOK
<1>3. /\ answers' \in [Requests -> Nat]
      /\ state' \in [Requests -> {"idle", "passed", "paused", "continued", "failed",
                                  "fulfilled", "released"}]
      /\ state'[r] = state[r] \/ state'[r] \in {"continued", "failed", "fulfilled"}
      /\ \A q \in Requests : q # r => state'[q] = state[q] /\ answers'[q] = answers[q]
  <2>1. CASE Answer(r, verdict)
    <3>1. /\ answers' = [answers EXCEPT ![r] = answers[r] + 1] /\ answers[r] + 1 \in Nat
      BY <2>1 DEF Answer, TypeOK
    <3>2. PICK now \in {state[r], verdict} : state' = [state EXCEPT ![r] = now]
      BY <2>1 DEF Answer, TypeOK
    <3> QED
      BY <3>1, <3>2 DEF TypeOK
  <2>2. CASE UNCHANGED <<state, answers>>
    BY <2>2 DEF TypeOK
  <2> QED
    BY <2>1, <2>2
<1>4. Suffix(r)' /\ RanFor(r)'
  BY <1>1 DEF Suffix, RanFor, Looked
<1>5. Served(r)'
  BY <1>2, <1>4 DEF Served, RespondersAlone, SkippersYield
<1> QED
  BY <1>2, <1>3, <1>5, WorkerRest DEF TypeOK, Choice

(* An answer that ends the loop over the handlers, or leaves it with none  *)
(* that matches.                                                           *)
LEMMA AnswerOnce ==
    ASSUME TypeOK, NEW r \in Requests, NEW verdict, Answer(r, verdict), Once(r), pc[r] = "decide",
           pc'[r] = "done" \/ (pc'[r] = "range" /\ todo' = todo
                                /\ \A i \in 1..Len(todo[r]) : r \notin Url[todo[r][i]])
    PROVE  Once(r)'
<1>1. answers[r] = 0 /\ answers'[r] = 1
  BY DEF Once, Answer, TypeOK
<1> QED
  BY <1>1 DEF Once

(* The answer to a paused request is the decision of the handler at hand.  *)
LEMMA AnswerFirst ==
    ASSUME TypeOK, NEW r \in Requests, NEW verdict \in {"continued", "failed", "fulfilled"},
           Answer(r, verdict), First(r), pc'[r] \in {"range", "done"},
           UNCHANGED <<handlers, todo, chosen>>,
           pc'[r] = "done" \/ state[r] = "paused",
           state[r] = "paused" =>
             \E choice \in {"continue", "fail", "fulfill"} :
               /\ Looked(r) \in 1..Len(handlers) /\ r \in Url[handlers[Looked(r)]]
               /\ SkippedBefore(r, Looked(r)) /\ DecidedTo(r, Looked(r), choice)
               /\ verdict = Outcome(choice)
    PROVE  First(r)'
<1>1. state'[r] = IF state[r] = "paused" THEN verdict ELSE state[r]
  BY DEF Answer, TypeOK
<1>2. /\ Looked(r)' = Looked(r)
      /\ \A i, c : DecidedTo(r, i, c)' <=> DecidedTo(r, i, c)
      /\ \A i : SkippedBefore(r, i)' <=> SkippedBefore(r, i)
  BY DEF Looked, DecidedTo, SkippedBefore
<1>3. CASE state[r] = "paused"
  <2>1. Looked(r) \in 1..Looked(r)
    BY <1>3 DEF TypeOK
  <2> QED
    BY <1>1, <1>2, <1>3, <2>1 DEF First
<1>4. CASE state[r] # "paused"
  BY <1>1, <1>2, <1>4 DEF First
<1> QED
  BY <1>3, <1>4

LEMMA DecideKeeps ==
    ASSUME HijackInv, NEW r \in Requests,
           DecideContinue(r) \/ DecideSkip(r) \/ DecideFail(r) \/ DecideFulfill(r)
    PROVE  HijackInv'
<1> USE DEF HijackInv
<1>1. /\ pc[r] = "decide"
      /\ UNCHANGED <<careful, router, handlers, patterns, loop, fetch, active, queue, missed,
                     todo, ctx, chosen>>
  BY DEF DecideContinue, DecideSkip, DecideFail, DecideFulfill, browser
<1>2. PICK h \in Handlers : \E choice \in Verdicts[h] :
             /\ h = handlers[Looked(r)] /\ r \in Url[h] /\ Looked(r) \in 1..Len(handlers)
             /\ choice \in Choice /\ DecidedTo(r, Looked(r), choice)
             /\ <<h, choice>> \in chosen[r]
             /\ choice \in Field => choice \in ctx[r]
             /\ SkippersYield /\ state[r] = "paused" =>
                  /\ SkippedBefore(r, Looked(r))
                  /\ \A f \in ctx[r] : f # choice => f = "skip"
                  /\ choice \in {"fail", "fulfill"} => "skip" \notin ctx[r]
  BY <1>1, HandDecides
<1>3. PICK choice \in Verdicts[h] :
             /\ h = handlers[Looked(r)] /\ r \in Url[h] /\ Looked(r) \in 1..Len(handlers)
             /\ choice \in Choice /\ DecidedTo(r, Looked(r), choice)
             /\ choice \in Field => choice \in ctx[r]
             /\ SkippersYield /\ state[r] = "paused" =>
                  /\ SkippedBefore(r, Looked(r))
                  /\ \A f \in ctx[r] : f # choice => f = "skip"
                  /\ choice \in {"fail", "fulfill"} => "skip" \notin ctx[r]
  BY <1>2
<1>4. /\ RespondersAlone => Once(r)
      /\ SkippersYield => First(r)
  BY DEF Served
<1>5. \A place : pc' = [pc EXCEPT ![r] = place] => pc'[r] = place
  BY DEF TypeOK
<1>6. CASE DecideContinue(r)
  <2>1. "continue" \in ctx[r] /\ Answer(r, "continued") /\ pc' = [pc EXCEPT ![r] = "done"] /\ pc'[r] = "done"
    BY <1>5, <1>6 DEF DecideContinue
  <2>2. RespondersAlone => Once(r)'
    BY <1>1, <1>4, <2>1, AnswerOnce
  <2>3. SkippersYield => First(r)'
    <3>1. SkippersYield /\ state[r] = "paused" => choice = "continue"
      BY <1>3, <2>1
    <3>2. "continued" = Outcome("continue")
      BY DEF Outcome
    <3> QED
      BY <1>1, <1>3, <1>4, <2>1, <3>1, <3>2, AnswerFirst
  <2> QED
    BY <1>1, <2>1, <2>2, <2>3, DecideRest
<1>7. CASE DecideSkip(r)
  <2>1. /\ "continue" \notin ctx[r] /\ "skip" \in ctx[r] /\ pc' = [pc EXCEPT ![r] = "range"]
        /\ pc'[r] = "range" /\ UNCHANGED <<state, answers>>
    BY <1>5, <1>7 DEF DecideSkip, browser
  <2>2. RespondersAlone => Once(r)'
    BY <1>1, <1>4, <2>1 DEF Once
  <2>3. SkippersYield => First(r)'
    <3> SUFFICES ASSUME SkippersYield
                 PROVE  First(r)'
      OBVIOUS
    <3>1. state[r] = "paused" => choice = "skip" /\ SkippedBefore(r, Looked(r))
      BY <1>3, <2>1 DEF Choice, Field
    <3>2. state[r] = "paused" => SkippedBefore(r, Looked(r) + 1)
      <4>1. \A n \in Nat : \A j \in 1..((n + 1) - 1) : j \in 1..(n - 1) \/ j = n
        OBVIOUS
      <4>2. Looked(r) \in Nat
        BY <1>3
      <4> QED
        BY <1>3, <3>1, <4>1, <4>2 DEF SkippedBefore
    <3>3. /\ Looked(r)' = Looked(r)
          /\ \A i, c : DecidedTo(r, i, c)' <=> DecidedTo(r, i, c)
          /\ \A i : SkippedBefore(r, i)' <=> SkippedBefore(r, i)
      BY <1>1 DEF Looked, DecidedTo, SkippedBefore
    <3> QED
      BY <1>1, <1>4, <2>1, <3>2, <3>3 DEF First
  <2> QED
    BY <1>1, <2>1, <2>2, <2>3, DecideRest
<1>8. CASE DecideFail(r)
  <2>1. ctx[r] = {"fail"} /\ Answer(r, "failed") /\ pc' = [pc EXCEPT ![r] = "done"] /\ pc'[r] = "done"
    BY <1>5, <1>8 DEF DecideFail
  <2>2. RespondersAlone => Once(r)'
    BY <1>1, <1>4, <2>1, AnswerOnce
  <2>3. SkippersYield => First(r)'
    <3>1. SkippersYield /\ state[r] = "paused" => choice = "fail"
      BY <1>3, <2>1
    <3>2. "failed" = Outcome("fail")
      BY DEF Outcome
    <3> QED
      BY <1>1, <1>3, <1>4, <2>1, <3>1, <3>2, AnswerFirst
  <2> QED
    BY <1>1, <2>1, <2>2, <2>3, DecideRest
<1>9. CASE DecideFulfill(r)
  <2>1. PICK place \in {"range", "done"} :
          /\ ctx[r] = {} /\ Answer(r, "fulfilled")
          /\ pc' = [pc EXCEPT ![r] = place] /\ pc'[r] = place
          /\ place = "done" \/ state[r] = "paused"
    BY <1>5, <1>9 DEF DecideFulfill
  <2>2. choice = "fulfill"
    BY <1>3, <2>1 DEF Choice, Field
  <2>3. RespondersAlone => Once(r)'
    <3> SUFFICES ASSUME RespondersAlone
                 PROVE  Once(r)'
      OBVIOUS
    <3>1. ASSUME NEW i \in 1..Len(todo[r])
          PROVE  r \notin Url[todo[r][i]]
      <4>1. Suffix(r)
        BY <1>1 DEF Served
      <4>2. Looked(r) + i \in 1..Len(handlers) /\ Looked(r) + i # Looked(r)
        BY <1>3, <4>1 DEF Suffix, Looked, TypeOK
      <4>3. todo[r][i] = handlers[Looked(r) + i] /\ todo[r][i] \in Handlers
        BY <4>1 DEF Suffix, TypeOK
      <4>4. todo[r][i] # h
        BY <1>3, <4>2, <4>3 DEF TypeOK, IsInjective
      <4> QED
        BY <1>3, <2>2, <4>3, <4>4 DEF RespondersAlone
    <3> QED
      BY <1>1, <1>4, <2>1, <3>1, AnswerOnce
  <2>4. SkippersYield => First(r)'
    <3>1. "fulfilled" = Outcome("fulfill")
      BY DEF Outcome
    <3> QED
      BY <1>1, <1>3, <1>4, <2>1, <2>2, <3>1, AnswerFirst
  <2> QED
    BY <1>1, <2>1, <2>3, <2>4, DecideRest
<1> QED
  BY <1>6, <1>7, <1>8, <1>9

LEMMA RangeEndKeeps ==
    ASSUME HijackInv, NEW r \in Requests, RangeEnd(r)
    PROVE  HijackInv'
<1> USE DEF HijackInv
<1>1. /\ pc[r] = "range" /\ pc' = [pc EXCEPT ![r] = "done"] /\ pc'[r] = "done"
      /\ UNCHANGED <<careful, router, handlers, patterns, loop, fetch, active, state, queue,
                     missed, todo, ctx, chosen, answers>>
  BY DEF RangeEnd, browser, TypeOK
<1>2. RespondersAlone => Once(r)'
  BY <1>1 DEF Served, Once
<1>3. SkippersYield => First(r)'
  <2>1. /\ Looked(r)' = Looked(r)
        /\ \A i, c : DecidedTo(r, i, c)' <=> DecidedTo(r, i, c)
        /\ \A i : SkippedBefore(r, i)' <=> SkippedBefore(r, i)
    BY <1>1 DEF Looked, DecidedTo, SkippedBefore
  <2> QED
    BY <1>1, <2>1 DEF Served, First
<1> QED
  BY <1>1, <1>2, <1>3, DecideRest

LEMMA HijackBegins == Init => HijackInv
<1> SUFFICES ASSUME Init
             PROVE  HijackInv
  OBVIOUS
<1>1. /\ handlers = << >> /\ queue = << >> /\ << >> \in Seq(Handlers) /\ << >> \in Seq(Requests)
      /\ IsInjective(<< >>) /\ ToSet(<< >>) = {}
  BY DEF Init, IsInjective, ToSet
<1>2. TypeOK
  BY <1>1 DEF Init, TypeOK
<1>3. Events /\ Stages /\ Wants
  BY <1>1 DEF Init, Events, Stages, Wants, OnlyWanted
<1>4. \A r \in Requests : Served(r)
  BY DEF Init, Served, Unserved, Once, First
<1> QED
  BY <1>2, <1>3, <1>4 DEF HijackInv

LEMMA HijackStep == HijackInv /\ [Next]_vars => HijackInv'
<1> SUFFICES ASSUME HijackInv, [Next]_vars
             PROVE  HijackInv'
  OBVIOUS
<1>1. ASSUME NEW r \in Requests, WorkerStep(r)
      PROVE  HijackInv'
  BY <1>1, PassKeeps, RunKeeps, DecideKeeps, RangeEndKeeps DEF WorkerStep
<1>2. CASE UNCHANGED vars
  <2>1. UNCHANGED <<careful, router, loop, handlers, patterns, fetch, active, state, queue,
                    missed, pc, todo, ctx, chosen, answers>>
    BY <1>2 DEF vars, browser
  <2> QED
    BY <2>1, ServedAside DEF HijackInv, TypeOK, Events, Stages, Wants, OnlyWanted
<1> QED
  BY <1>1, <1>2, OwnerKeeps, RequestKeeps, LoopKeeps DEF Next

(* The router's record of its handlers, of the events on their way and of  *)
(* what its goroutines have looked at agrees with the browser's.           *)
THEOREM RouterInvariant == Spec => []HijackInv
  BY HijackBegins, HijackStep, PTL DEF Spec

(* A paused request is answered at most once by the goroutine that         *)
(* initEvents of hijack.go starts for it, however many handlers match, if  *)
(* those that respond share no request with another.                       *)
THEOREM RequestsAreAnsweredOnce == Spec => []AnsweredOnce
<1>1. HijackInv => AnsweredOnce
  BY DEF HijackInv, AnsweredOnce, Served, Once
<1> QED
  BY <1>1, RouterInvariant, PTL

(* The answer is that of the first handler, in the order of Add, that      *)
(* matches and does not skip, if those after a handler that may skip only  *)
(* continue or skip: HijackContext.Skip stays set.                         *)
THEOREM FirstHandlerDecides == Spec => []FirstDecides
<1>1. HijackInv => FirstDecides
  <2> SUFFICES ASSUME HijackInv, SkippersYield, NEW r \in Requests,
                      state[r] \in {"continued", "failed", "fulfilled"}
               PROVE  \E i \in 1..Len(handlers) : \E choice \in {"continue", "fail", "fulfill"} :
                        /\ r \in Url[handlers[i]]
                        /\ SkippedBefore(r, i)
                        /\ DecidedTo(r, i, choice)
                        /\ state[r] = Outcome(choice)
    BY DEF FirstDecides
  <2>1. First(r) /\ Suffix(r)
    BY DEF HijackInv, Served, Unserved
  <2>2. \A i \in 1..Looked(r) : i \in 1..Len(handlers)
    BY <2>1 DEF Suffix, Looked, HijackInv, TypeOK
  <2> QED
    BY <2>1, <2>2 DEF First
<1> QED
  BY <1>1, RouterInvariant, PTL

(* With a careful owner the browser holds only requests that a handler     *)
(* asks for: the patterns that Add of hijack.go gives it are those of the  *)
(* handlers, and there is one by the time of the first request.            *)
THEOREM OnlyWantedIsHeld == Spec => []OnlyWanted
<1>1. HijackInv => OnlyWanted
  BY DEF HijackInv, Wants
<1> QED
  BY <1>1, RouterInvariant, PTL
=============================================================================
