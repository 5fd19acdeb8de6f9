---------------------------- MODULE DomainProofs -----------------------------
(***************************************************************************)
(* Proofs about the record of a domain's state, for any number of users of *)
(* both kinds, however they overlap.                                       *)
(***************************************************************************)
EXTENDS DomainStates, SequenceTheorems, TLAPS

(* Users that are active at once have met. *)
Meets ==
    \A u \in Users :
        /\ at[u] = "idle" => met[u] = {}
        /\ \A v \in Users : u # v /\ ~Idle(u) /\ ~Idle(v) => v \in met[u]

(* Only a user that found what was there at first changes the domain.      *)
FoundFirst ==
    \A u \in Users :
        /\ ~Idle(u) /\ MustChange(u) => found[u] = before
        /\ at[u] \in {"change", "changing", "restore", "restoring"} => MustChange(u)

(* A request that the browser has, or has answered, has a user that waits  *)
(* for it; nothing is sent twice.                                          *)
Awaits(r) ==
    \/ r = Change(r.user) /\ at[r.user] = "changing"
    \/ r = Restore(r.user) /\ at[r.user] = "restoring"

WireAwaited ==
    /\ \A r \in Sent : Awaits(r)
    /\ \A i \in 1..Len(wire) : wire[i] \notin acked
    /\ \A i, j \in 1..Len(wire) : wire[i] = wire[j] => i = j

(* What the browser will have when it has served all.                      *)
LastSent == IF wire = << >> THEN enabled ELSE wire[Len(wire)].on

(* As long as the domain, or the record, is not as it was at first there   *)
(* is a user that is to change it back.                                    *)
Changed ==
    /\ LastSent # before =>
         \E u \in Users : at[u] \in {"changing", "using", "restore"} /\ MustChange(u)
    /\ recorded # before =>
         \E u \in Users : at[u] \in {"using", "restore", "restoring"} /\ MustChange(u)

Left(v) == at[v] \notin {"idle", "change", "changing", "using"}

(* A user whose change has been served has the domain as it wants it, or   *)
(* has met one that has left; a user that changed nothing found what it    *)
(* wants there from the first, or by a user that it has met.               *)
Served ==
    \A u \in Users :
        /\ MustChange(u) /\ (at[u] = "using" \/ (at[u] = "changing" /\ Change(u) \in acked))
             => enabled = Wanted(u) \/ \E v \in met[u] : Left(v)
        /\ at[u] = "using" /\ ~MustChange(u) /\ Wanted(u) # before
             => \E v \in met[u] : at[v] \notin {"idle", "change", "changing"} /\ MustChange(v)

Orderly == FoundFirst /\ WireAwaited /\ Changed /\ Served

(* The inductive invariant of the record. *)
DomainInv == DomainTypeOK /\ Meets /\ (~Cancelled /\ ~Mixed => Orderly)

USE DomainAssumption

LEMMA Requests ==
    \A u \in Users :
        /\ Wanted(u) \in BOOLEAN
        /\ Change(u) \in DomainRequest /\ Change(u).user = u /\ Change(u).on = Wanted(u)
        /\ Restore(u) \in DomainRequest /\ Restore(u).user = u /\ Restore(u).on = ~Wanted(u)
        /\ \A v \in Users :
             /\ Change(u) # Restore(v)
             /\ Change(u) = Change(v) => u = v
             /\ Restore(u) = Restore(v) => u = v
<1>1. \A u \in Users : Wanted(u) \in BOOLEAN
  BY DEF Wanted
<1>2. \A u \in Users :
        /\ Change(u) \in DomainRequest /\ Change(u).user = u /\ Change(u).on = Wanted(u)
        /\ Restore(u) \in DomainRequest /\ Restore(u).user = u /\ Restore(u).on = ~Wanted(u)
  BY <1>1 DEF Change, Restore, DomainRequest
<1>3. ASSUME NEW u \in Users, NEW v \in Users
      PROVE  /\ Change(u) # Restore(v)
             /\ Change(u) = Change(v) => u = v
             /\ Restore(u) = Restore(v) => u = v
  <2>1. Change(u) = Restore(v) => u = v /\ Wanted(u) = ~Wanted(v)
    BY <1>2
  <2>2. (Change(u) = Change(v) => u = v) /\ (Restore(u) = Restore(v) => u = v)
    BY <1>2
  <2>3. ~(Wanted(u) = ~Wanted(u))
    BY <1>1
  <2> QED
    BY <2>1, <2>2, <2>3
<1> QED
  BY <1>1, <1>2, <1>3

LEMMA UsersOfRequests ==
    ASSUME DomainTypeOK
    PROVE  \A r \in Sent : r \in DomainRequest /\ r.user \in Users
<1>1. \A r \in DomainRequest : r.user \in Users
  BY DEF DomainRequest
<1>2. \A i \in 1..Len(wire) : wire[i] \in DomainRequest
  BY DEF DomainTypeOK
<1> QED
  BY <1>1, <1>2 DEF DomainTypeOK, Sent

(* Nobody forgets whom it has met, and no context comes back. *)
LEMMA Lasting ==
    ASSUME DomainTypeOK, Meets, [DomainNext]_domainVars
    PROVE  /\ ~Cancelled' => ~Cancelled
           /\ ~Mixed' => ~Mixed
<1>1. \A u \in Users : cancelled[u] => cancelled'[u]
  BY DEF DomainTypeOK, DomainNext, UserStep, Begin, SendChange, RecordChange, GiveUpChange, Finish, SendRestore,
     RecordRestore, GiveUpRestore, Send, Record, GiveUp, Cancel, Serve, domainVars
<1>2. \A u \in Users : met[u] \subseteq met'[u]
  <2>1. ASSUME NEW u \in Users, Begin(u)
        PROVE  \A v \in Users : met[v] \subseteq met'[v]
    <3> TAKE v \in Users
    <3>1. CASE v = u
      BY <2>1, <3>1 DEF Begin, Meets
    <3>2. CASE v # u
      BY <2>1, <3>2 DEF Begin
    <3> QED
      BY <3>1, <3>2
  <2>2. ASSUME UNCHANGED met
        PROVE  \A u \in Users : met[u] \subseteq met'[u]
    BY <2>2
  <2> QED
    BY <2>1, <2>2 DEF DomainNext, UserStep, SendChange, RecordChange, GiveUpChange, Finish, SendRestore,
       RecordRestore, GiveUpRestore, Send, Record, GiveUp, Cancel, Serve, domainVars
<1> QED
  BY <1>1, <1>2 DEF Cancelled, Mixed

(* What a helper finds is what was there at first, or what a user that is  *)
(* active with it has made of it.                                          *)
LEMMA BeginKeeps ==
    ASSUME DomainInv, NEW u \in Users, Begin(u)
    PROVE  DomainInv'
<1> USE DEF DomainInv
<1> DEFINE now == {v \in Users : ~Idle(v)}
<1>1. /\ at[u] = "idle" /\ UNCHANGED <<cancelled, recorded, enabled, wire, acked, before>>
      /\ found' = [found EXCEPT ![u] = recorded]
      /\ at' = [at EXCEPT ![u] = IF recorded # Wanted(u) THEN "change" ELSE "using"]
      /\ u \notin now /\ met'[u] = now
      /\ \A v \in Users : v # u => met'[v] = IF v \in now THEN met[v] \cup {u} ELSE met[v]
      /\ met' \in [Users -> SUBSET Users]
  BY DEF Begin, DomainTypeOK, Idle
<1>2. /\ at'[u] \in {"change", "using"} /\ found'[u] = recorded
      /\ at'[u] = "change" <=> recorded # Wanted(u)
      /\ \A v \in Users : v # u => at'[v] = at[v] /\ found'[v] = found[v]
  BY <1>1 DEF DomainTypeOK
<1>3. DomainTypeOK'
  <2>1. Sent' = Sent
    BY <1>1 DEF Sent
  <2>2. /\ at' \in [Users -> {"idle", "change", "changing", "using", "restore",
                              "restoring", "finished"}]
        /\ found' \in [Users -> BOOLEAN]
    BY <1>1 DEF DomainTypeOK
  <2>3. \A v \in Users : at'[v] \in {"changing", "restoring"} => at'[v] = at[v]
    BY <1>2
  <2> QED
    BY <1>1, <2>1, <2>2, <2>3 DEF DomainTypeOK, Change, Restore, Wanted
<1>4. Meets'
  BY <1>1, <1>2 DEF Meets, Idle
<1>5. ASSUME ~Cancelled, ~Mixed, ~Mixed', Orderly
      PROVE  Orderly'
  <2> USE DEF Orderly
  <2>1. \A v \in Users : v # u => (MustChange(v)' <=> MustChange(v)) /\ (Idle(v)' <=> Idle(v))
    BY <1>2 DEF MustChange, Wanted, Idle
  <2>2. MustChange(u)' <=> recorded # Wanted(u)
    BY <1>2 DEF MustChange, Wanted
  <2>3. ASSUME NEW v \in now
        PROVE  v \in Users /\ v # u /\ v \in met'[u] /\ Wanted(v) = Wanted(u)
    BY <1>1, <1>5 DEF Mixed, Wanted
  <2>4. ASSUME recorded # before
        PROVE  \E v \in now : /\ at[v] \in {"using", "restore", "restoring"} /\ MustChange(v)
                              /\ Wanted(v) = recorded
    <3>1. PICK v \in Users : at[v] \in {"using", "restore", "restoring"} /\ MustChange(v)
      BY <1>5, <2>4 DEF Changed
    <3>2. v \in now /\ found[v] = before /\ found[v] # Wanted(v)
      BY <1>5, <3>1 DEF FoundFirst, MustChange, Idle
    <3>3. Wanted(v) = recorded
      BY <2>4, <3>2, Requests DEF DomainTypeOK
    <3> QED
      BY <3>1, <3>2, <3>3
  <2>5. FoundFirst'
    <3>1. MustChange(u)' => found'[u] = before
      BY <1>2, <2>2, <2>3, <2>4
    <3>2. at'[u] \in {"change", "changing", "restore", "restoring"} => MustChange(u)'
      BY <1>2, <2>2
    <3> QED
      BY <1>1, <1>2, <1>5, <2>1, <3>1, <3>2 DEF FoundFirst
  <2>6. WireAwaited'
    <3>1. ASSUME NEW r, Awaits(r), r.user \in Users
          PROVE  Awaits(r)'
      BY <1>1, <1>2, <3>1 DEF Awaits, Change, Restore, Wanted
    <3>2. \A r \in Sent : Awaits(r)'
      BY <1>5, <3>1, UsersOfRequests DEF WireAwaited
    <3> QED
      BY <1>1, <1>5, <3>2 DEF WireAwaited, Sent
  <2>7. Changed'
    BY <1>1, <1>2, <1>5, <2>1 DEF Changed, LastSent
  <2>8. Served'
    <3>1. ASSUME NEW v \in Users, v # u
          PROVE  /\ MustChange(v)' /\ (at'[v] = "using" \/ (at'[v] = "changing" /\ Change(v) \in acked'))
                      => enabled' = Wanted(v) \/ \E w \in met'[v] : Left(w)'
                 /\ at'[v] = "using" /\ ~MustChange(v)' /\ Wanted(v) # before'
                      => \E w \in met'[v] :
                            at'[w] \notin {"idle", "change", "changing"} /\ MustChange(w)'
      <4>1. met[v] \subseteq met'[v] /\ met[v] \subseteq Users
        BY <1>1, <3>1 DEF DomainTypeOK
      <4>2. \A w \in Users : Left(w) => Left(w)'
        BY <1>1, <1>2 DEF Left
      <4>3. \A w \in Users :
              at[w] \notin {"idle", "change", "changing"} /\ MustChange(w)
                => at'[w] \notin {"idle", "change", "changing"} /\ MustChange(w)'
        BY <1>1, <1>2, <2>1
      <4>4. UNCHANGED <<enabled, acked, before>> /\ at'[v] = at[v]
        BY <1>1, <1>2, <3>1
      <4> QED
        BY <1>5, <2>1, <3>1, <4>1, <4>2, <4>3, <4>4 DEF Served
    <3>2. ASSUME at'[u] = "using", ~MustChange(u)', Wanted(u) # before'
          PROVE  \E w \in met'[u] : at'[w] \notin {"idle", "change", "changing"} /\ MustChange(w)'
      <4>1. recorded # before
        BY <1>1, <1>2, <2>2, <3>2, Requests DEF DomainTypeOK
      <4>2. PICK w \in now : at[w] \in {"using", "restore", "restoring"} /\ MustChange(w)
        BY <2>4, <4>1
      <4> QED
        BY <1>2, <2>1, <2>3, <4>2
    <3>3. ~(MustChange(u)' /\ (at'[u] = "using" \/ at'[u] = "changing"))
      BY <1>2, <2>2
    <3> QED
      BY <3>1, <3>2, <3>3 DEF Served, Change, Wanted
  <2> QED
    BY <2>5, <2>6, <2>7, <2>8
<1> QED
  BY <1>1, <1>3, <1>4, <1>5, Lasting DEF DomainNext, UserStep

(* A request is sent: the browser has one more to serve. *)
LEMMA Sending ==
    ASSUME DomainTypeOK, NEW r \in DomainRequest, wire' = Append(wire, r), UNCHANGED acked
    PROVE  /\ wire' \in Seq(DomainRequest) /\ Len(wire') = Len(wire) + 1 /\ Len(wire) \in Nat
           /\ wire'[Len(wire) + 1] = r /\ \A i \in 1..Len(wire) : wire'[i] = wire[i]
           /\ LastSent' = r.on
           /\ Sent' = Sent \cup {r}
<1>1. wire \in Seq(DomainRequest) /\ Len(wire) \in Nat
  BY DEF DomainTypeOK
<1>2. /\ wire' \in Seq(DomainRequest) /\ Len(wire') = Len(wire) + 1
      /\ wire'[Len(wire) + 1] = r /\ \A i \in 1..Len(wire) : wire'[i] = wire[i]
  BY <1>1
<1>3. wire' # << >>
  BY <1>1, <1>2
<1>4. LastSent' = r.on
  BY <1>2, <1>3 DEF LastSent
<1>5. {wire'[i] : i \in 1..Len(wire')} = {wire[i] : i \in 1..Len(wire)} \cup {r}
  <2>1. \A i \in 1..Len(wire') : i \in 1..Len(wire) \/ i = Len(wire) + 1
    BY <1>1, <1>2
  <2>2. 1..Len(wire) \subseteq 1..Len(wire') /\ Len(wire) + 1 \in 1..Len(wire')
    BY <1>1, <1>2
  <2> QED
    BY <1>2, <2>1, <2>2
<1>6. Sent' = Sent \cup {r}
  BY <1>5 DEF Sent
<1> QED
  BY <1>1, <1>2, <1>4, <1>6

(* The users other than u, and the requests of theirs. *)
Aside(u) ==
    /\ UNCHANGED <<found, met, before>>
    /\ \A v \in Users : v # u => at'[v] = at[v]

LEMMA AsideAwaits ==
    ASSUME NEW u \in Users, Aside(u), NEW r, r.user \in Users, r.user # u, Awaits(r)
    PROVE  Awaits(r)'
  BY DEF Aside, Awaits, Change, Restore, Wanted

(* A user's step that leaves the browser alone. *)
LEMMA ServedAside ==
    ASSUME DomainTypeOK, NEW u \in Users, Aside(u), Served, UNCHANGED enabled,
           \A v \in Users : v # u /\ Change(v) \in acked' => Change(v) \in acked,
           Left(u) => Left(u)',
           at[u] \notin {"idle", "change", "changing"} => at'[u] \notin {"idle", "change", "changing"},
           at'[u] = "using" \/ (at'[u] = "changing" /\ Change(u) \in acked')
              => at[u] = "using" \/ (at[u] = "changing" /\ Change(u) \in acked),
           at'[u] = "using" /\ ~MustChange(u) => at[u] = "using"
    PROVE  Served'
<1>1. \A v \in Users : MustChange(v)' = MustChange(v) /\ met'[v] = met[v] /\ met[v] \subseteq Users
  BY DEF Aside, MustChange, Wanted, DomainTypeOK
<1>2. \A v \in Users :
        /\ Left(v) => Left(v)'
        /\ at[v] \notin {"idle", "change", "changing"} => at'[v] \notin {"idle", "change", "changing"}
  BY DEF Aside, Left
<1>3. \A v \in Users :
        /\ at'[v] = "using" \/ (at'[v] = "changing" /\ Change(v) \in acked')
              => at[v] = "using" \/ (at[v] = "changing" /\ Change(v) \in acked)
        /\ at'[v] = "using" /\ ~MustChange(v) => at[v] = "using"
  BY DEF Aside
<1>4. \A v \in Users : Wanted(v)' = Wanted(v) /\ Change(v)' = Change(v)
  BY DEF Wanted, Change
<1>5. ASSUME NEW v \in Users, MustChange(v)', at'[v] = "using" \/ (at'[v] = "changing" /\ Change(v) \in acked')
      PROVE  enabled' = Wanted(v) \/ \E w \in met'[v] : Left(w)'
  BY <1>1, <1>2, <1>3, <1>5 DEF Served
<1>6. ASSUME NEW v \in Users, at'[v] = "using", ~MustChange(v)', Wanted(v) # before'
      PROVE  \E w \in met'[v] : at'[w] \notin {"idle", "change", "changing"} /\ MustChange(w)'
  <2>1. at[v] = "using" /\ ~MustChange(v) /\ Wanted(v) # before
    BY <1>1, <1>3, <1>6 DEF Aside
  <2>2. PICK w \in met[v] : at[w] \notin {"idle", "change", "changing"} /\ MustChange(w)
    BY <2>1 DEF Served
  <2> QED
    BY <1>1, <1>2, <2>2
<1> QED
  BY <1>4, <1>5, <1>6 DEF Served

LEMMA SendKeeps ==
    ASSUME DomainInv, NEW u \in Users, SendChange(u) \/ SendRestore(u)
    PROVE  DomainInv'
<1> USE DEF DomainInv
<1>1. PICK r \in {Change(u), Restore(u)} :
        /\ r = Change(u) => at[u] = "change" /\ at' = [at EXCEPT ![u] = "changing"]
        /\ r = Restore(u) => at[u] = "restore" /\ at' = [at EXCEPT ![u] = "restoring"]
        /\ wire' = Append(wire, r)
        /\ UNCHANGED <<found, cancelled, recorded, enabled, acked, before, met>>
  BY Requests DEF SendChange, SendRestore, Send
<1>2. /\ r \in DomainRequest /\ r.user = u
      /\ at \in [Users -> {"idle", "change", "changing", "using", "restore",
                           "restoring", "finished"}]
  BY Requests DEF DomainTypeOK
<1>3. /\ at' \in [Users -> {"idle", "change", "changing", "using", "restore",
                            "restoring", "finished"}]
      /\ r = Change(u) => at'[u] = "changing"
      /\ r = Restore(u) => at'[u] = "restoring"
      /\ at[u] \in {"change", "restore"} /\ at'[u] \in {"changing", "restoring"}
      /\ \A v \in Users : v # u => at'[v] = at[v]
  BY <1>1, <1>2
<1>4. DomainTypeOK'
  <2>1. \A v \in Users :
          /\ at'[v] = "changing" => Change(v) \in Sent'
          /\ at'[v] = "restoring" => Restore(v) \in Sent'
    BY <1>1, <1>2, <1>3, Sending DEF DomainTypeOK
  <2> QED
    BY <1>1, <1>2, <1>3, <2>1, Sending DEF DomainTypeOK, Change, Restore, Wanted
<1>5. Meets'
  BY <1>1, <1>3 DEF Meets, Idle
<1>6. ASSUME Orderly
      PROVE  Orderly'
  <2> USE DEF Orderly
  <2>1. Aside(u) /\ \A v \in Users : MustChange(v)' = MustChange(v)
    BY <1>1, <1>3 DEF Aside, MustChange, Wanted
  <2>2. MustChange(u) /\ found[u] = before
    BY <1>3, <1>6 DEF FoundFirst, Idle
  <2>3. FoundFirst'
    BY <1>1, <1>3, <1>6, <2>1, <2>2 DEF FoundFirst, Idle
  <2>4. ASSUME NEW q, Awaits(q), q.user \in Users
        PROVE  q.user # u
    BY <1>3, <2>4 DEF Awaits
  <2>5. WireAwaited'
    <3>1. Awaits(r)'
      BY <1>1, <1>2, <1>3 DEF Awaits, Change, Restore, Wanted
    <3>2. \A q \in Sent : Awaits(q)' /\ q.user # u
      BY <1>6, <2>1, <2>4, AsideAwaits, UsersOfRequests DEF WireAwaited
    <3>3. r \notin acked /\ \A i \in 1..Len(wire) : wire[i] # r
      BY <1>2, <3>2 DEF Sent
    <3>4. \A i \in 1..Len(wire') : i \in 1..Len(wire) \/ i = Len(wire) + 1
      BY <1>1, <1>2, Sending
    <3>5. \A i \in 1..Len(wire') : wire'[i] \notin acked'
      BY <1>1, <1>2, <1>6, <3>3, <3>4, Sending DEF WireAwaited
    <3>6. \A i, j \in 1..Len(wire') : wire'[i] = wire'[j] => i = j
      BY <1>1, <1>2, <1>6, <3>3, <3>4, Sending DEF WireAwaited
    <3>7. Sent' = Sent \cup {r}
      BY <1>1, <1>2, Sending
    <3> QED
      BY <1>1, <1>2, <3>1, <3>2, <3>5, <3>6, <3>7 DEF WireAwaited
  <2>6. Changed'
    <3>1. LastSent' = r.on
      BY <1>1, <1>2, Sending
    <3>2. r = Restore(u) => r.on = before
      BY <2>2, Requests DEF MustChange, DomainTypeOK
    <3>3. LastSent' # before =>
            \E v \in Users : at'[v] \in {"changing", "using", "restore"} /\ MustChange(v)'
      BY <1>1, <1>3, <2>1, <2>2, <3>1, <3>2
    <3>4. recorded # before =>
            \E v \in Users : at'[v] \in {"using", "restore", "restoring"} /\ MustChange(v)'
      BY <1>1, <1>2, <1>3, <1>6, <2>1 DEF Changed
    <3> QED
      BY <1>1, <3>3, <3>4 DEF Changed
  <2>7. Served'
    <3>1. Change(u) \notin acked
      BY <1>6, <2>4, UsersOfRequests, Requests DEF WireAwaited, Sent
    <3> QED
      BY <1>1, <1>3, <1>6, <2>1, <3>1, ServedAside DEF Left
  <2> QED
    BY <2>3, <2>5, <2>6, <2>7
<1> QED
  BY <1>1, <1>4, <1>5, <1>6 DEF Cancelled, Mixed, Wanted

(* A response is recorded: the request is answered and forgotten. *)
LEMMA RecordKeeps ==
    ASSUME DomainInv, NEW u \in Users, RecordChange(u) \/ RecordRestore(u)
    PROVE  DomainInv'
<1> USE DEF DomainInv
<1>1. PICK r \in {Change(u), Restore(u)} :
        /\ r = Change(u) => at[u] = "changing" /\ at' = [at EXCEPT ![u] = "using"]
        /\ r = Restore(u) => at[u] = "restoring" /\ at' = [at EXCEPT ![u] = "finished"]
        /\ r \in acked /\ acked' = acked \ {r} /\ recorded' = r.on
        /\ UNCHANGED <<found, cancelled, enabled, wire, before, met>>
  BY Requests DEF RecordChange, RecordRestore, Record
<1>2. /\ r \in DomainRequest /\ r.user = u /\ r.on \in BOOLEAN
      /\ at \in [Users -> {"idle", "change", "changing", "using", "restore",
                           "restoring", "finished"}]
  BY ZenonT(30), Requests DEF DomainTypeOK
<1>3. /\ at' \in [Users -> {"idle", "change", "changing", "using", "restore",
                            "restoring", "finished"}]
      /\ r = Change(u) => at'[u] = "using"
      /\ r = Restore(u) => at'[u] = "finished"
      /\ at[u] \in {"changing", "restoring"}
      /\ \A v \in Users : v # u => at'[v] = at[v]
  BY <1>1, <1>2
<1>4. Sent \ {r} \subseteq Sent' /\ Sent' \subseteq Sent
  BY <1>1 DEF Sent
<1>5. DomainTypeOK'
  <2>1. ASSUME NEW v \in Users
        PROVE  /\ at'[v] = "changing" => Change(v) \in Sent'
               /\ at'[v] = "restoring" => Restore(v) \in Sent'
    <3>1. at'[v] \in {"changing", "restoring"} => v # u
      BY <1>1, <1>3
    <3>2. v # u => Change(v) # r /\ Restore(v) # r
      BY <1>2, Requests
    <3> QED
      BY <1>3, <1>4, <3>1, <3>2 DEF DomainTypeOK
  <2>2. acked' \subseteq DomainRequest /\ recorded' \in BOOLEAN
    BY <1>1, <1>2 DEF DomainTypeOK
  <2> QED
    BY <1>1, <1>3, <2>1, <2>2 DEF DomainTypeOK, Change, Restore, Wanted
<1>6. Meets'
  BY <1>1, <1>3 DEF Meets, Idle
<1>7. ASSUME Orderly
      PROVE  Orderly'
  <2> USE DEF Orderly
  <2>1. Aside(u) /\ \A v \in Users : MustChange(v)' = MustChange(v)
    BY <1>1, <1>3 DEF Aside, MustChange, Wanted
  <2>2. MustChange(u) /\ found[u] = before
    BY <1>3, <1>7 DEF FoundFirst, Idle
  <2>3. FoundFirst'
    BY <1>1, <1>3, <1>7, <2>1, <2>2 DEF FoundFirst, Idle
  <2>4. WireAwaited'
    <3>1. r \notin Sent'
      BY <1>1, <1>7 DEF WireAwaited, Sent
    <3>2. ASSUME NEW q \in Sent'
          PROVE  Awaits(q)'
      <4>1. Awaits(q) /\ q \in DomainRequest /\ q.user \in Users /\ q # r
        BY <1>4, <1>7, <3>1, <3>2, UsersOfRequests DEF WireAwaited
      <4>2. q.user # u
        BY <1>1, <1>3, <4>1 DEF Awaits
      <4> QED
        BY <2>1, <4>1, <4>2, AsideAwaits
    <3> QED
      BY <1>1, <1>7, <3>2 DEF WireAwaited
  <2>5. Changed'
    <3>1. LastSent' = LastSent
      BY <1>1 DEF LastSent
    <3>2. r = Restore(u) => r.on = before
      BY <2>2, Requests DEF MustChange, DomainTypeOK
    <3>3. LastSent # before =>
            \E v \in Users : at'[v] \in {"changing", "using", "restore"} /\ MustChange(v)'
      BY <1>1, <1>3, <1>7, <2>1 DEF Changed
    <3>4. r.on # before =>
            \E v \in Users : at'[v] \in {"using", "restore", "restoring"} /\ MustChange(v)'
      BY <1>1, <1>3, <2>1, <2>2, <3>2
    <3> QED
      BY <1>1, <3>1, <3>3, <3>4 DEF Changed
  <2>6. Served'
    BY <1>1, <1>3, <1>7, <2>1, <2>2, ServedAside DEF Left
  <2> QED
    BY <2>3, <2>4, <2>5, <2>6
<1> QED
  BY <1>1, <1>5, <1>6, <1>7 DEF Cancelled, Mixed, Wanted

LEMMA FinishKeeps ==
    ASSUME DomainInv, NEW u \in Users, Finish(u)
    PROVE  DomainInv'
<1> USE DEF DomainInv
<1>1. /\ at[u] = "using"
      /\ at' \in [Users -> {"idle", "change", "changing", "using", "restore",
                            "restoring", "finished"}]
      /\ MustChange(u) => at'[u] = "restore"
      /\ ~MustChange(u) => at'[u] = "finished"
      /\ \A v \in Users : v # u => at'[v] = at[v]
      /\ UNCHANGED <<found, cancelled, recorded, enabled, wire, acked, before, met>>
  BY DEF Finish, DomainTypeOK
<1>2. DomainTypeOK'
  <2>1. Sent' = Sent
    BY <1>1 DEF Sent
  <2>2. \A v \in Users : at'[v] \in {"changing", "restoring"} => at'[v] = at[v]
    BY <1>1
  <2> QED
    BY <1>1, <2>1, <2>2 DEF DomainTypeOK, Change, Restore, Wanted
<1>3. Meets'
  BY <1>1 DEF Meets, Idle
<1>4. ASSUME Orderly
      PROVE  Orderly'
  <2> USE DEF Orderly
  <2>1. Aside(u) /\ \A v \in Users : MustChange(v)' = MustChange(v)
    BY <1>1 DEF Aside, MustChange, Wanted
  <2>2. FoundFirst'
    BY <1>1, <1>4, <2>1 DEF FoundFirst, Idle
  <2>3. WireAwaited'
    <3>1. ASSUME NEW q \in Sent
          PROVE  Awaits(q)'
      <4>1. Awaits(q) /\ q \in DomainRequest /\ q.user \in Users
        BY <1>4, <3>1, UsersOfRequests DEF WireAwaited
      <4>2. q.user # u
        BY <1>1, <4>1 DEF Awaits
      <4> QED
        BY <2>1, <4>1, <4>2, AsideAwaits
    <3> QED
      BY <1>1, <1>4, <3>1 DEF WireAwaited, Sent
  <2>4. Changed'
    <3>1. LastSent' = LastSent
      BY <1>1 DEF LastSent
    <3> QED
      BY <1>1, <1>4, <2>1, <3>1 DEF Changed
  <2>5. Served'
    BY <1>1, <1>4, <2>1, ServedAside DEF Left
  <2> QED
    BY <2>2, <2>3, <2>4, <2>5
<1> QED
  BY <1>1, <1>2, <1>3, <1>4 DEF Cancelled, Mixed, Wanted

(* A context ends, or has ended: what is left is who waits for what. *)
LEMMA CancelKeeps ==
    ASSUME DomainInv, NEW u \in Users, GiveUpChange(u) \/ GiveUpRestore(u) \/ Cancel(u)
    PROVE  DomainInv'
<1> USE DEF DomainInv
<1>1. /\ UNCHANGED <<found, recorded, enabled, wire, acked, before, met>>
      /\ at' \in [Users -> {"idle", "change", "changing", "using", "restore",
                            "restoring", "finished"}]
      /\ cancelled' \in [Users -> BOOLEAN] /\ cancelled'[u]
      /\ at'[u] \in {"using", "finished"} \/ at'[u] = at[u]
      /\ Idle(u) => Idle(u)' /\ at'[u] = at[u]
      /\ at'[u] # "idle" \/ at[u] = "idle"
      /\ \A v \in Users : v # u => at'[v] = at[v]
  BY DEF GiveUpChange, GiveUpRestore, GiveUp, Cancel, DomainTypeOK, Idle
<1>2. DomainTypeOK'
  <2>1. Sent' = Sent
    BY <1>1 DEF Sent
  <2>2. \A v \in Users : at'[v] \in {"changing", "restoring"} => at'[v] = at[v]
    BY <1>1
  <2> QED
    BY <1>1, <2>1, <2>2 DEF DomainTypeOK, Change, Restore, Wanted
<1>3. Meets'
  BY <1>1 DEF Meets, Idle
<1>4. Cancelled'
  BY <1>1 DEF Cancelled
<1> QED
  BY <1>2, <1>3, <1>4

(* The browser serves the request at the head. *)
LEMMA ServeKeeps ==
    ASSUME DomainInv, Serve
    PROVE  DomainInv'
<1> USE DEF DomainInv
<1> DEFINE h == Head(wire)
           n == Len(wire)
<1>1. /\ wire # << >> /\ enabled' = h.on /\ acked' = acked \cup {h} /\ wire' = Tail(wire)
      /\ UNCHANGED <<at, found, cancelled, recorded, before, met>>
  BY DEF Serve
<1>2. /\ n \in Nat \ {0} /\ h = wire[1] /\ h \in DomainRequest /\ h.on \in BOOLEAN
      /\ wire' \in Seq(DomainRequest) /\ Len(wire') = n - 1
      /\ \A i \in 1..(n - 1) : wire'[i] = wire[i + 1]
  <2>1. wire \in Seq(DomainRequest) /\ wire # << >>
    BY <1>1 DEF DomainTypeOK
  <2>2. n \in Nat \ {0} /\ h = wire[1]
    BY <2>1
  <2>3. h \in DomainRequest
    BY <2>1, <2>2
  <2>4. h.on \in BOOLEAN
    BY <2>3 DEF DomainRequest
  <2>5. Tail(wire) \in Seq(DomainRequest) /\ Len(Tail(wire)) = n - 1
    BY <2>1, <2>2
  <2>6. \A i \in 1..(n - 1) : Tail(wire)[i] = wire[i + 1]
    BY <2>1, <2>2
  <2> QED
    BY <1>1, <2>2, <2>3, <2>4, <2>5, <2>6
<1>3. Sent' = Sent /\ h \in Sent
  <2>1. \A i \in 1..n : i = 1 \/ (i - 1 \in 1..(n - 1) /\ wire[i] = wire'[i - 1])
    BY <1>2
  <2>2. \A i \in 1..(n - 1) : i + 1 \in 1..n /\ wire'[i] = wire[i + 1]
    BY <1>2
  <2>3. {wire'[i] : i \in 1..Len(wire')} \cup {h} = {wire[i] : i \in 1..n}
    BY <1>2, <2>1, <2>2
  <2> QED
    BY <1>1, <2>3 DEF Sent
<1>4. DomainTypeOK'
  BY <1>1, <1>2, <1>3 DEF DomainTypeOK, Change, Restore, Wanted
<1>5. Meets'
  BY <1>1 DEF Meets, Idle
<1>6. ASSUME Orderly, ~Mixed
      PROVE  Orderly'
  <2> USE DEF Orderly
  <2>1. FoundFirst'
    BY <1>1, <1>6 DEF FoundFirst, Idle, MustChange, Wanted
  <2>2. WireAwaited'
    <3>1. \A q : Awaits(q) => Awaits(q)'
      BY <1>1 DEF Awaits, Change, Restore, Wanted
    <3>2. \A i \in 1..Len(wire') : wire'[i] \notin acked'
      <4> TAKE i \in 1..Len(wire')
      <4>1. i + 1 \in 1..n /\ 1 \in 1..n /\ i + 1 # 1 /\ wire'[i] = wire[i + 1]
        BY <1>2
      <4> QED
        BY <1>1, <1>2, <1>6, <4>1 DEF WireAwaited
    <3>3. \A i, j \in 1..Len(wire') : wire'[i] = wire'[j] => i = j
      <4> TAKE i, j \in 1..Len(wire')
      <4>1. /\ i + 1 \in 1..n /\ wire'[i] = wire[i + 1]
            /\ j + 1 \in 1..n /\ wire'[j] = wire[j + 1]
            /\ i + 1 = j + 1 => i = j
        BY <1>2
      <4> QED
        BY <1>6, <4>1 DEF WireAwaited
    <3> QED
      BY <1>3, <1>6, <3>1, <3>2, <3>3 DEF WireAwaited
  <2>3. Changed'
    <3>1. LastSent' = LastSent
      <4>1. CASE n = 1
        BY <1>1, <1>2, <4>1 DEF LastSent
      <4>2. CASE n # 1
        <5>1. n - 1 \in 1..(n - 1) /\ (n - 1) + 1 = n
          BY <1>2, <4>2
        <5>2. wire' # << >> /\ LastSent' = wire'[n - 1].on
          BY <1>2, <4>2, <5>1 DEF LastSent
        <5> QED
          BY <1>1, <1>2, <5>1, <5>2 DEF LastSent
      <4> QED
        BY <4>1, <4>2
    <3> QED
      BY <1>1, <1>6, <3>1 DEF Changed, MustChange, Wanted
  <2>4. Served'
    <3>1. ASSUME NEW u \in Users, MustChange(u),
                 at[u] = "using" \/ (at[u] = "changing" /\ Change(u) \in acked'),
                 h.on # Wanted(u)
          PROVE  \E v \in met[u] : Left(v)
      <4>1. Awaits(h) /\ h.user \in Users
        BY <1>3, <1>6, UsersOfRequests DEF WireAwaited
      <4>2. CASE h = Change(h.user) /\ at[h.user] = "changing"
        <5>1. Wanted(h.user) # Wanted(u)
          BY <3>1, <4>1, <4>2, Requests
        <5>2. h.user \in met[u]
          BY <3>1, <4>1, <4>2, <5>1 DEF Meets, Idle
        <5> QED
          BY <1>6, <5>1, <5>2 DEF Mixed
      <4>3. CASE h = Restore(h.user) /\ at[h.user] = "restoring"
        <5>1. h.user # u
          BY <3>1, <4>3
        <5> QED
          BY <3>1, <4>1, <4>3, <5>1 DEF Meets, Idle, Left
      <4> QED
        BY <4>1, <4>2, <4>3 DEF Awaits
    <3>2. ASSUME NEW u \in Users, MustChange(u)',
                 at'[u] = "using" \/ (at'[u] = "changing" /\ Change(u) \in acked')
          PROVE  enabled' = Wanted(u) \/ \E v \in met'[u] : Left(v)'
      <4>1. MustChange(u) /\ met' = met /\ at' = at
        BY <1>1, <3>2 DEF MustChange, Wanted
      <4>2. \A v : Left(v)' <=> Left(v)
        BY <1>1 DEF Left
      <4> QED
        BY <1>1, <3>1, <3>2, <4>1, <4>2
    <3>3. ASSUME NEW u \in Users, at'[u] = "using", ~MustChange(u)', Wanted(u) # before'
          PROVE  \E v \in met'[u] : at'[v] \notin {"idle", "change", "changing"} /\ MustChange(v)'
      BY <1>1, <1>6, <3>3 DEF Served, MustChange, Wanted
    <3> QED
      BY <3>2, <3>3 DEF Served, Change, Wanted
  <2> QED
    BY <2>1, <2>2, <2>3, <2>4
<1> QED
  BY <1>1, <1>4, <1>5, <1>6 DEF Cancelled, Mixed, Wanted

LEMMA DomainBegins == DomainInit => DomainInv
<1> SUFFICES ASSUME DomainInit
             PROVE  DomainInv
  OBVIOUS
<1>1. DomainTypeOK
  BY DEF DomainInit, DomainTypeOK
<1>2. Meets
  BY DEF DomainInit, Meets, Idle
<1>3. Orderly
  BY DEF DomainInit, Orderly, FoundFirst, WireAwaited, Changed, Served, LastSent, Sent, Idle
<1> QED
  BY <1>1, <1>2, <1>3 DEF DomainInv

LEMMA DomainStep == DomainInv /\ [DomainNext]_domainVars => DomainInv'
<1> SUFFICES ASSUME DomainInv, [DomainNext]_domainVars
             PROVE  DomainInv'
  OBVIOUS
<1>1. ASSUME NEW u \in Users, UserStep(u)
      PROVE  DomainInv'
  BY <1>1, BeginKeeps, SendKeeps, RecordKeeps, FinishKeeps, CancelKeeps DEF UserStep
<1>2. CASE Serve
  BY <1>2, ServeKeeps
<1>3. CASE UNCHANGED domainVars
  BY <1>3 DEF domainVars, DomainInv, DomainTypeOK, Meets, Orderly, FoundFirst, WireAwaited, Changed, Served,
     LastSent, Left, Sent, Awaits, Idle, MustChange, Wanted, Change, Restore, Cancelled, Mixed
<1> QED
  BY <1>1, <1>2, <1>3 DEF DomainNext

LEMMA DomainInvariant == DomainSpec => []DomainInv
  BY DomainBegins, DomainStep, PTL DEF DomainSpec

(* Once no user is active the domain, and the record of it, are what they  *)
(* were before: what EnableDomain and DisableDomain of states.go, run by   *)
(* any number of goroutines in any order, leave behind as long as they     *)
(* want the same and no context ends.                                      *)
THEOREM DomainSettles == DomainSpec => []Settled
<1>1. DomainInv => Settled
  <2> SUFFICES ASSUME DomainInv, Quiet, ~Cancelled, ~Mixed
               PROVE  recorded = enabled /\ enabled = before
    BY DEF DomainInv, Settled
  <2>1. Changed /\ LastSent = enabled /\ \A u \in Users : Idle(u)
    BY DEF DomainInv, Orderly, Quiet, LastSent
  <2> QED
    BY <2>1 DEF Changed, Idle
<1> QED
  BY <1>1, DomainInvariant, PTL

(* A user finds the domain as it wants it for as long as it uses it.  The  *)
(* one that changes nothing owes it to a user that it has met, or to what  *)
(* was there at first.                                                     *)
THEOREM UsersAreServed == DomainSpec => []UserServed
<1>1. DomainInv => UserServed
  <2> SUFFICES ASSUME DomainInv, ~Cancelled, ~Mixed, NoneLeft, NEW u \in Users, at[u] = "using"
               PROVE  enabled = Wanted(u)
    BY DEF UserServed
  <2> USE DEF DomainInv, Orderly
  <2>1. ASSUME NEW v \in Users, ~Idle(v), NEW w \in met[v]
        PROVE  ~Left(w) /\ w \in Users /\ Wanted(w) = Wanted(v)
    BY <2>1 DEF NoneLeft, Left, Mixed, DomainTypeOK
  <2>2. CASE MustChange(u)
    BY <2>1, <2>2 DEF Served, Idle
  <2>3. CASE ~MustChange(u) /\ Wanted(u) # before
    <3>1. PICK v \in met[u] : at[v] \notin {"idle", "change", "changing"} /\ MustChange(v)
      BY <2>3 DEF Served
    <3>2. ~Left(v) /\ v \in Users /\ Wanted(v) = Wanted(u)
      BY <2>1 DEF Idle
    <3>3. at[v] = "using"
      BY <3>1, <3>2 DEF Left
    <3>4. enabled = Wanted(v)
      BY <2>1, <3>1, <3>2, <3>3 DEF Served, Idle
    <3> QED
      BY <3>2, <3>4
  <2>4. CASE ~MustChange(u) /\ Wanted(u) = before
    <3>1. ASSUME NEW v \in Users, ~Idle(v), MustChange(v)
          PROVE  FALSE
      <4>1. v # u /\ Wanted(v) # Wanted(u)
        BY <2>4, <3>1 DEF FoundFirst, MustChange
      <4> QED
        BY <3>1, <4>1 DEF Meets, Idle, Mixed
    <3>2. LastSent = before
      BY <3>1 DEF Changed, Idle
    <3>3. wire = << >>
      <4> SUFFICES ASSUME wire # << >>
                   PROVE  FALSE
        OBVIOUS
      <4>1. wire[Len(wire)] \in Sent
        BY DEF DomainTypeOK, Sent
      <4>2. PICK r \in Sent : Awaits(r) /\ r.user \in Users
        BY <4>1, UsersOfRequests DEF WireAwaited
      <4>3. ~Idle(r.user) /\ MustChange(r.user)
        BY <4>2 DEF Awaits, FoundFirst, Idle
      <4> QED
        BY <3>1, <4>2, <4>3
    <3> QED
      BY <2>4, <3>2, <3>3 DEF LastSent
  <2> QED
    BY <2>2, <2>3, <2>4
<1> QED
  BY <1>1, DomainInvariant, PTL
=============================================================================
