------------------------- MODULE PageLifecycleProofs -------------------------
(***************************************************************************)
(* Proofs about pages, for any number of targets and users and any scenes: *)
(* one session per target, a close that can be believed, and nothing kept. *)
(***************************************************************************)
EXTENDS PageLifecycle, TLAPS

(* Where a user can be: in PageFromTarget; in the rest of PageWithContext; *)
(* with its page; and at the end.                                          *)
Opening == {"attach", "emulate", "publish", "enable", "unlock"}
WithPage ==
    {"adopt", "navigate", "navigated", "opened", "operate", "record",
     "request", "asked", "await", "cleanup"}
Places == {"idle", "open?", "fail", "discard", "finished"} \cup Opening \cup WithPage

(* The maker of a page that others can have is past PageFromTarget. *)
Past == WithPage \cup {"discard", "finished"}

GoneIs(t) == target[t] = "gone"

(* A target is open while anybody is attached to it, gone once a session   *)
(* was told so, and nobody is at a target that was not made yet.           *)
TargetInv ==
    /\ \A u \in Users : pc[u] # "idle" => target[TargetOf(u)] # "none"
    /\ \A u \in Creates : pc[u] = "idle" => target[TargetOf(u)] = "none"
    /\ \A p \in attached : target[TargetOf(p)] = "open"
    /\ \A p \in ended \cup notice : GoneIs(TargetOf(p))
    /\ \A u \in Users : seen[u] = "destroyed" => GoneIs(TargetOf(u))

(* A user's page is of the user's target, and its maker has it, too; it    *)
(* was published before anybody else got it.                               *)
HolderInv ==
    \A u \in Users :
        /\ page[u] # None =>
             /\ TargetOf(page[u]) = TargetOf(u)
             /\ page[page[u]] = page[u]
             /\ page[u] # u => pc[page[u]] \in Past
        /\ pc[u] \in WithPage \cup {"unlock"} => page[u] # None
        /\ pc[u] \in {"idle", "open?", "attach"} => page[u] = None /\ u \notin attached
        /\ pc[u] \in {"emulate", "publish", "enable"} => page[u] = u
        /\ pc[u] \in {"attach", "emulate", "publish"} => cache[TargetOf(u)] = None

(* What is cached for a target is a page of it, and published. *)
CachedInv ==
    \A t \in Targets : cache[t] # None =>
        /\ TargetOf(cache[t]) = t
        /\ page[cache[t]] = cache[t]
        /\ pc[cache[t]] \in Past \cup {"enable", "unlock"}

(* A user is where its role takes it, and has no result before its end.    *)
RoleInv ==
    \A u \in Users :
        /\ result[u] # "none" => pc[u] \in {"cleanup", "finished"} /\ Role(u) # "operate"
        /\ pc[u] \in {"request", "asked", "await"} => Role(u) = "close"
        /\ pc[u] \in {"operate", "record"} => Role(u) = "operate"
        /\ pc[u] \in {"adopt", "navigate", "navigated"} => u \in Creates
        /\ pc[u] = "cleanup" =>
             /\ Role(u) = "force"
             /\ \/ result[u] = "none" /\ GoneIs(TargetOf(u))
                \/ result[u] = "error" /\ u \in expired

(* A session that its maker has a page of is the one in the cache, or will *)
(* be, unless somebody whose context ended made the browser forget it.     *)
SessionInv ==
    \A p \in attached :
        page[p] = p /\ (\A u \in expired : TargetOf(u) # TargetOf(p))
            => cache[TargetOf(p)] = p \/ pc[p] \in {"emulate", "publish"}

(* One who may record a request of its page after another has closed it,   *)
(* or has left the record behind.                                          *)
Records(v) ==
    \/ Role(v) = "operate"
    \/ v \in Creates /\ result[v] # "closed"
    \/ pc[v] = "await"
    \/ result[v] = "canceled"

(* What was closed is not cached, and recorded only if somebody recorded   *)
(* it since.                                                               *)
KeptInv ==
    \A u \in Users : result[u] = "closed" =>
        /\ page[u] # None
        /\ cache[TargetOf(u)] # page[u]
        /\ page[u] \in states => \E v \in Users : page[v] = page[u] /\ Records(v)

(* The inductive invariant. *)
PageInv ==
    /\ TypeOK /\ pc \in [Users -> Places]
    /\ TargetInv /\ HolderInv /\ CachedInv /\ RoleInv
    /\ SessionInv /\ ClosedIsGone /\ KeptInv

-----------------------------------------------------------------------------
USE PageAssumption DEF
    Goto, browser, sessions, user, TargetOf, Creates, Role, Pages, Vanishes, Told, Done, Bind,
    Cleanup, CloseFailed, CloseReturn, GoneIs, Places, Opening, WithPage, Past, Records

LEMMA CreateKeeps ==
    ASSUME PageInv, NEW u \in Users, Create(u)
    PROVE  PageInv'
<1> USE DEF PageInv, TypeOK, Create
<1>1. TypeOK' /\ (pc \in [Users -> Places])'
  BY DEF Scene
<1>2. TargetInv'
  BY DEF Scene, TargetInv, HolderInv
<1>3. HolderInv'
  BY DEF Scene, TargetInv, HolderInv, CachedInv
<1>4. CachedInv'
  BY DEF Scene, HolderInv, CachedInv
<1>5. RoleInv'
  BY DEF Scene, TargetInv, RoleInv
<1>6. SessionInv'
  BY DEF Scene, TargetInv, HolderInv, CachedInv, RoleInv, SessionInv
<1>7. ClosedIsGone'
  BY DEF Scene, TargetInv, RoleInv, HolderInv, ClosedIsGone
<1>8. KeptInv'
  BY DEF Scene, HolderInv, CachedInv, RoleInv, KeptInv
<1> QED
  BY <1>1, <1>2, <1>3, <1>4, <1>5, <1>6, <1>7, <1>8 DEF PageInv

LEMMA FindKeeps ==
    ASSUME PageInv, NEW u \in Users, Find(u)
    PROVE  PageInv'
<1> USE DEF PageInv, TypeOK, Find
<1>1. TypeOK' /\ (pc \in [Users -> Places])'
  BY DEF Scene
<1>2. TargetInv'
  BY DEF Scene, TargetInv, HolderInv
<1>3. HolderInv'
  BY DEF Scene, TargetInv, HolderInv, CachedInv
<1>4. CachedInv'
  BY DEF Scene, HolderInv, CachedInv
<1>5. RoleInv'
  BY DEF Scene, TargetInv, RoleInv
<1>6. SessionInv'
  BY DEF Scene, TargetInv, HolderInv, CachedInv, RoleInv, SessionInv
<1>7. ClosedIsGone'
  BY DEF Scene, TargetInv, RoleInv, HolderInv, ClosedIsGone
<1>8. KeptInv'
  BY DEF Scene, HolderInv, CachedInv, RoleInv, KeptInv
<1> QED
  BY <1>1, <1>2, <1>3, <1>4, <1>5, <1>6, <1>7, <1>8 DEF PageInv

LEMMA LookUpKeeps ==
    ASSUME PageInv, NEW u \in Users, LookUp(u)
    PROVE  PageInv'
<1> USE DEF PageInv, TypeOK, LookUp
<1>1. TypeOK' /\ (pc \in [Users -> Places])'
  BY DEF Scene
<1>2. TargetInv'
  BY DEF Scene, TargetInv, HolderInv
<1>3. HolderInv'
  BY DEF Scene, TargetInv, HolderInv, CachedInv
<1>4. CachedInv'
  BY DEF Scene, HolderInv, CachedInv
<1>5. RoleInv'
  BY DEF Scene, TargetInv, RoleInv
<1>6. SessionInv'
  BY DEF Scene, TargetInv, HolderInv, CachedInv, RoleInv, SessionInv
<1>7. ClosedIsGone'
  BY DEF Scene, TargetInv, RoleInv, HolderInv, ClosedIsGone
<1>8. KeptInv'
  BY DEF Scene, HolderInv, CachedInv, RoleInv, KeptInv
<1> QED
  BY <1>1, <1>2, <1>3, <1>4, <1>5, <1>6, <1>7, <1>8 DEF PageInv

LEMMA AttachKeeps ==
    ASSUME PageInv, NEW u \in Users, Attach(u)
    PROVE  PageInv'
<1> USE DEF PageInv, TypeOK, Attach
<1>1. TypeOK' /\ (pc \in [Users -> Places])'
  BY DEF Scene
<1>2. TargetInv'
  BY DEF Scene, TargetInv, HolderInv
<1>3. HolderInv'
  BY DEF Scene, TargetInv, HolderInv, CachedInv
<1>4. CachedInv'
  BY DEF Scene, HolderInv, CachedInv
<1>5. RoleInv'
  BY DEF Scene, TargetInv, RoleInv
<1>6. SessionInv'
  BY DEF Scene, TargetInv, HolderInv, CachedInv, RoleInv, SessionInv
<1>7. ClosedIsGone'
  BY DEF Scene, TargetInv, RoleInv, HolderInv, ClosedIsGone
<1>8. KeptInv'
  BY DEF Scene, HolderInv, CachedInv, RoleInv, KeptInv
<1> QED
  BY <1>1, <1>2, <1>3, <1>4, <1>5, <1>6, <1>7, <1>8 DEF PageInv

LEMMA EmulateKeeps ==
    ASSUME PageInv, NEW u \in Users, Emulate(u)
    PROVE  PageInv'
<1> USE DEF PageInv, TypeOK, Emulate
<1>1. TypeOK' /\ (pc \in [Users -> Places])'
  BY DEF Scene
<1>2. TargetInv'
  BY DEF Scene, TargetInv, HolderInv
<1>3. HolderInv'
  BY DEF Scene, TargetInv, HolderInv, CachedInv
<1>4. CachedInv'
  BY DEF Scene, HolderInv, CachedInv
<1>5. RoleInv'
  BY DEF Scene, TargetInv, RoleInv
<1>6. SessionInv'
  BY DEF Scene, TargetInv, HolderInv, CachedInv, RoleInv, SessionInv
<1>7. ClosedIsGone'
  BY DEF Scene, TargetInv, RoleInv, HolderInv, ClosedIsGone
<1>8. KeptInv'
  BY DEF Scene, HolderInv, CachedInv, RoleInv, KeptInv
<1> QED
  BY <1>1, <1>2, <1>3, <1>4, <1>5, <1>6, <1>7, <1>8 DEF PageInv

LEMMA EmulateFailKeeps ==
    ASSUME PageInv, NEW u \in Users, EmulateFail(u)
    PROVE  PageInv'
<1> USE DEF PageInv, TypeOK, EmulateFail
<1>1. TypeOK' /\ (pc \in [Users -> Places])'
  BY DEF Scene
<1>2. TargetInv'
  BY DEF Scene, TargetInv, HolderInv
<1>3. HolderInv'
  BY DEF Scene, TargetInv, HolderInv, CachedInv
<1>4. CachedInv'
  BY DEF Scene, HolderInv, CachedInv
<1>5. RoleInv'
  BY DEF Scene, TargetInv, RoleInv
<1>6. SessionInv'
  BY DEF Scene, TargetInv, HolderInv, CachedInv, RoleInv, SessionInv
<1>7. ClosedIsGone'
  BY DEF Scene, TargetInv, RoleInv, HolderInv, ClosedIsGone
<1>8. KeptInv'
  BY DEF Scene, HolderInv, CachedInv, RoleInv, KeptInv
<1> QED
  BY <1>1, <1>2, <1>3, <1>4, <1>5, <1>6, <1>7, <1>8 DEF PageInv

LEMMA PublishKeeps ==
    ASSUME PageInv, NEW u \in Users, Publish(u)
    PROVE  PageInv'
<1> USE DEF PageInv, TypeOK, Publish
<1>1. TypeOK' /\ (pc \in [Users -> Places])'
  BY DEF Scene
<1>2. TargetInv'
  BY DEF Scene, TargetInv, HolderInv
<1>3. HolderInv'
  BY DEF Scene, TargetInv, HolderInv, CachedInv
<1>4. CachedInv'
  BY DEF Scene, HolderInv, CachedInv
<1>5. RoleInv'
  BY DEF Scene, TargetInv, RoleInv
<1>6. SessionInv'
  BY DEF Scene, TargetInv, HolderInv, CachedInv, RoleInv, SessionInv
<1>7. ClosedIsGone'
  BY DEF Scene, TargetInv, RoleInv, HolderInv, ClosedIsGone
<1>8. KeptInv'
  BY DEF Scene, HolderInv, CachedInv, RoleInv, KeptInv
<1> QED
  BY <1>1, <1>2, <1>3, <1>4, <1>5, <1>6, <1>7, <1>8 DEF PageInv

LEMMA EnablePageKeeps ==
    ASSUME PageInv, NEW u \in Users, EnablePage(u)
    PROVE  PageInv'
<1> USE DEF PageInv, TypeOK, EnablePage
<1>1. TypeOK' /\ (pc \in [Users -> Places])'
  BY DEF Scene
<1>2. TargetInv'
  BY DEF Scene, TargetInv, HolderInv
<1>3. HolderInv'
  BY DEF Scene, TargetInv, HolderInv, CachedInv
<1>4. CachedInv'
  BY DEF Scene, HolderInv, CachedInv
<1>5. RoleInv'
  BY DEF Scene, TargetInv, RoleInv
<1>6. SessionInv'
  BY DEF Scene, TargetInv, HolderInv, CachedInv, RoleInv, SessionInv
<1>7. ClosedIsGone'
  BY DEF Scene, TargetInv, RoleInv, HolderInv, ClosedIsGone
<1>8. KeptInv'
  BY DEF Scene, HolderInv, CachedInv, RoleInv, KeptInv
<1> QED
  BY <1>1, <1>2, <1>3, <1>4, <1>5, <1>6, <1>7, <1>8 DEF PageInv

LEMMA UnlockKeeps ==
    ASSUME PageInv, NEW u \in Users, Unlock(u)
    PROVE  PageInv'
<1> USE DEF PageInv, TypeOK, Unlock
<1>1. TypeOK' /\ (pc \in [Users -> Places])'
  BY DEF Scene
<1>2. TargetInv'
  BY DEF Scene, TargetInv, HolderInv
<1>3. HolderInv'
  BY DEF Scene, TargetInv, HolderInv, CachedInv
<1>4. CachedInv'
  BY DEF Scene, HolderInv, CachedInv
<1>5. RoleInv'
  BY DEF Scene, TargetInv, RoleInv
<1>6. SessionInv'
  BY DEF Scene, TargetInv, HolderInv, CachedInv, RoleInv, SessionInv
<1>7. ClosedIsGone'
  BY DEF Scene, TargetInv, RoleInv, HolderInv, ClosedIsGone
<1>8. KeptInv'
  BY DEF Scene, HolderInv, CachedInv, RoleInv, KeptInv
<1> QED
  BY <1>1, <1>2, <1>3, <1>4, <1>5, <1>6, <1>7, <1>8 DEF PageInv

LEMMA AdoptKeeps ==
    ASSUME PageInv, NEW u \in Users, Adopt(u)
    PROVE  PageInv'
<1> USE DEF PageInv, TypeOK, Adopt
<1>1. TypeOK' /\ (pc \in [Users -> Places])'
  BY DEF Scene, HolderInv
<1>2. TargetInv'
  BY DEF Scene, TargetInv, HolderInv
<1>3. HolderInv'
  BY DEF Scene, TargetInv, HolderInv, CachedInv
<1>4. CachedInv'
  BY DEF Scene, HolderInv, CachedInv
<1>5. RoleInv'
  BY DEF Scene, TargetInv, RoleInv
<1>6. SessionInv'
  BY DEF Scene, TargetInv, HolderInv, CachedInv, RoleInv, SessionInv
<1>7. ClosedIsGone'
  BY DEF Scene, TargetInv, RoleInv, HolderInv, ClosedIsGone
<1>8. KeptInv'
  BY DEF Scene, HolderInv, CachedInv, RoleInv, KeptInv
<1> QED
  BY <1>1, <1>2, <1>3, <1>4, <1>5, <1>6, <1>7, <1>8 DEF PageInv

LEMMA NavigateKeeps ==
    ASSUME PageInv, NEW u \in Users, Navigate(u)
    PROVE  PageInv'
<1> USE DEF PageInv, TypeOK, Navigate
<1>1. TypeOK' /\ (pc \in [Users -> Places])'
  BY DEF Scene
<1>2. TargetInv'
  BY DEF Scene, TargetInv, HolderInv
<1>3. HolderInv'
  BY DEF Scene, TargetInv, HolderInv, CachedInv
<1>4. CachedInv'
  BY DEF Scene, HolderInv, CachedInv
<1>5. RoleInv'
  BY DEF Scene, TargetInv, RoleInv
<1>6. SessionInv'
  BY DEF Scene, TargetInv, HolderInv, CachedInv, RoleInv, SessionInv
<1>7. ClosedIsGone'
  BY DEF Scene, TargetInv, RoleInv, HolderInv, ClosedIsGone
<1>8. KeptInv'
  BY DEF Scene, HolderInv, CachedInv, RoleInv, KeptInv
<1> QED
  BY <1>1, <1>2, <1>3, <1>4, <1>5, <1>6, <1>7, <1>8 DEF PageInv

LEMMA NavigateRecordKeeps ==
    ASSUME PageInv, NEW u \in Users, NavigateRecord(u)
    PROVE  PageInv'
<1> USE DEF PageInv, TypeOK, NavigateRecord
<1>1. TypeOK' /\ (pc \in [Users -> Places])'
  BY DEF Scene, HolderInv
<1>2. TargetInv'
  BY DEF Scene, TargetInv, HolderInv
<1>3. HolderInv'
  BY DEF Scene, TargetInv, HolderInv, CachedInv
<1>4. CachedInv'
  BY DEF Scene, HolderInv, CachedInv
<1>5. RoleInv'
  BY DEF Scene, TargetInv, RoleInv
<1>6. SessionInv'
  BY DEF Scene, TargetInv, HolderInv, CachedInv, RoleInv, SessionInv
<1>7. ClosedIsGone'
  BY DEF Scene, TargetInv, RoleInv, HolderInv, ClosedIsGone
<1>8. KeptInv'
  BY DEF Scene, HolderInv, CachedInv, RoleInv, KeptInv
<1> QED
  BY <1>1, <1>2, <1>3, <1>4, <1>5, <1>6, <1>7, <1>8 DEF PageInv

LEMMA NavigateFailKeeps ==
    ASSUME PageInv, NEW u \in Users, NavigateFail(u)
    PROVE  PageInv'
<1> USE DEF PageInv, TypeOK, NavigateFail
<1>1. TypeOK' /\ (pc \in [Users -> Places])'
  BY DEF Scene
<1>2. TargetInv'
  BY DEF Scene, TargetInv, HolderInv
<1>3. HolderInv'
  BY DEF Scene, TargetInv, HolderInv, CachedInv
<1>4. CachedInv'
  BY DEF Scene, HolderInv, CachedInv
<1>5. RoleInv'
  BY DEF Scene, TargetInv, RoleInv
<1>6. SessionInv'
  BY DEF Scene, TargetInv, HolderInv, CachedInv, RoleInv, SessionInv
<1>7. ClosedIsGone'
  BY DEF Scene, TargetInv, RoleInv, HolderInv, ClosedIsGone
<1>8. KeptInv'
  BY DEF Scene, HolderInv, CachedInv, RoleInv, KeptInv
<1> QED
  BY <1>1, <1>2, <1>3, <1>4, <1>5, <1>6, <1>7, <1>8 DEF PageInv

LEMMA FailKeeps ==
    ASSUME PageInv, NEW u \in Users, Fail(u)
    PROVE  PageInv'
<1> USE DEF PageInv, TypeOK, Fail
<1>1. TypeOK' /\ (pc \in [Users -> Places])'
  BY DEF Scene
<1>2. TargetInv'
  BY DEF Scene, TargetInv, HolderInv
<1>3. HolderInv'
  BY DEF Scene, TargetInv, HolderInv, CachedInv
<1>4. CachedInv'
  BY DEF Scene, HolderInv, CachedInv
<1>5. RoleInv'
  BY DEF Scene, TargetInv, RoleInv
<1>6. SessionInv'
  BY DEF Scene, TargetInv, HolderInv, CachedInv, RoleInv, SessionInv
<1>7. ClosedIsGone'
  BY DEF Scene, TargetInv, RoleInv, HolderInv, ClosedIsGone
<1>8. KeptInv'
  BY DEF Scene, HolderInv, CachedInv, RoleInv, KeptInv
<1> QED
  BY <1>1, <1>2, <1>3, <1>4, <1>5, <1>6, <1>7, <1>8 DEF PageInv

LEMMA DiscardKeeps ==
    ASSUME PageInv, NEW u \in Users, Discard(u)
    PROVE  PageInv'
<1> USE DEF PageInv, TypeOK, Discard
<1>1. TypeOK' /\ (pc \in [Users -> Places])'
  BY DEF Scene
<1>2. TargetInv'
  BY DEF Scene, TargetInv, HolderInv
<1>3. HolderInv'
  BY DEF Scene, TargetInv, HolderInv, CachedInv
<1>4. CachedInv'
  BY DEF Scene, HolderInv, CachedInv
<1>5. RoleInv'
  BY DEF Scene, TargetInv, RoleInv
<1>6. SessionInv'
  BY DEF Scene, TargetInv, HolderInv, CachedInv, RoleInv, SessionInv
<1>7. ClosedIsGone'
  BY DEF Scene, TargetInv, RoleInv, HolderInv, ClosedIsGone
<1>8. KeptInv'
  BY DEF Scene, HolderInv, CachedInv, RoleInv, KeptInv
<1> QED
  BY <1>1, <1>2, <1>3, <1>4, <1>5, <1>6, <1>7, <1>8 DEF PageInv

LEMMA CloseLockKeeps ==
    ASSUME PageInv, NEW u \in Users, CloseLock(u)
    PROVE  PageInv'
<1> USE DEF PageInv, TypeOK, CloseLock
<1>1. TypeOK' /\ (pc \in [Users -> Places])'
  BY DEF Scene
<1>2. TargetInv'
  BY DEF Scene, TargetInv, HolderInv
<1>3. HolderInv'
  BY DEF Scene, TargetInv, HolderInv, CachedInv
<1>4. CachedInv'
  BY DEF Scene, HolderInv, CachedInv
<1>5. RoleInv'
  BY DEF Scene, TargetInv, RoleInv
<1>6. SessionInv'
  BY DEF Scene, TargetInv, HolderInv, CachedInv, RoleInv, SessionInv
<1>7. ClosedIsGone'
  BY DEF Scene, TargetInv, RoleInv, HolderInv, ClosedIsGone
<1>8. KeptInv'
  BY DEF Scene, HolderInv, CachedInv, RoleInv, KeptInv
<1> QED
  BY <1>1, <1>2, <1>3, <1>4, <1>5, <1>6, <1>7, <1>8 DEF PageInv

LEMMA CloseRequestKeeps ==
    ASSUME PageInv, NEW u \in Users, CloseRequest(u)
    PROVE  PageInv'
<1> USE DEF PageInv, TypeOK, CloseRequest
<1>1. TypeOK' /\ (pc \in [Users -> Places])'
  BY DEF Scene
<1>2. TargetInv'
  BY DEF Scene, TargetInv, HolderInv
<1>3. HolderInv'
  BY DEF Scene, TargetInv, HolderInv, CachedInv
<1>4. CachedInv'
  BY DEF Scene, HolderInv, CachedInv
<1>5. RoleInv'
  BY DEF Scene, TargetInv, RoleInv
<1>6. SessionInv'
  BY DEF Scene, TargetInv, HolderInv, CachedInv, RoleInv, SessionInv
<1>7. ClosedIsGone'
  BY DEF Scene, TargetInv, RoleInv, HolderInv, ClosedIsGone
<1>8. KeptInv'
  BY DEF Scene, HolderInv, CachedInv, RoleInv, KeptInv
<1> QED
  BY <1>1, <1>2, <1>3, <1>4, <1>5, <1>6, <1>7, <1>8 DEF PageInv

LEMMA CloseRecordKeeps ==
    ASSUME PageInv, NEW u \in Users, CloseRecord(u)
    PROVE  PageInv'
<1> USE DEF PageInv, TypeOK, CloseRecord
<1>1. TypeOK' /\ (pc \in [Users -> Places])'
  BY DEF Scene, HolderInv
<1>2. TargetInv'
  BY DEF Scene, TargetInv, HolderInv
<1>3. HolderInv'
  BY DEF Scene, TargetInv, HolderInv, CachedInv
<1>4. CachedInv'
  BY DEF Scene, HolderInv, CachedInv
<1>5. RoleInv'
  BY DEF Scene, TargetInv, RoleInv
<1>6. SessionInv'
  BY DEF Scene, TargetInv, HolderInv, CachedInv, RoleInv, SessionInv
<1>7. ClosedIsGone'
  BY DEF Scene, TargetInv, RoleInv, HolderInv, ClosedIsGone
<1>8. KeptInv'
  BY DEF Scene, HolderInv, CachedInv, RoleInv, KeptInv
<1> QED
  BY <1>1, <1>2, <1>3, <1>4, <1>5, <1>6, <1>7, <1>8 DEF PageInv

LEMMA CloseErrorKeeps ==
    ASSUME PageInv, NEW u \in Users, CloseError(u)
    PROVE  PageInv'
<1> USE DEF PageInv, TypeOK, CloseError
<1>1. TypeOK' /\ (pc \in [Users -> Places])'
  BY DEF Scene
<1>2. TargetInv'
  BY DEF Scene, TargetInv, HolderInv
<1>3. HolderInv'
  BY DEF Scene, TargetInv, HolderInv, CachedInv
<1>4. CachedInv'
  BY DEF Scene, HolderInv, CachedInv
<1>5. RoleInv'
  BY DEF Scene, TargetInv, RoleInv
<1>6. SessionInv'
  BY DEF Scene, TargetInv, HolderInv, CachedInv, RoleInv, SessionInv
<1>7. ClosedIsGone'
  BY DEF Scene, TargetInv, RoleInv, HolderInv, ClosedIsGone
<1>8. KeptInv'
  BY DEF Scene, HolderInv, CachedInv, RoleInv, KeptInv
<1> QED
  BY <1>1, <1>2, <1>3, <1>4, <1>5, <1>6, <1>7, <1>8 DEF PageInv

LEMMA CloseDestroyedKeeps ==
    ASSUME PageInv, NEW u \in Users, CloseDestroyed(u)
    PROVE  PageInv'
<1> USE DEF PageInv, TypeOK, CloseDestroyed
<1>1. TypeOK' /\ (pc \in [Users -> Places])'
  BY DEF Scene
<1>2. TargetInv'
  BY DEF Scene, TargetInv, HolderInv
<1>3. HolderInv'
  BY DEF Scene, TargetInv, HolderInv, CachedInv
<1>4. CachedInv'
  BY DEF Scene, HolderInv, CachedInv
<1>5. RoleInv'
  BY DEF Scene, TargetInv, RoleInv
<1>6. SessionInv'
  BY DEF Scene, TargetInv, HolderInv, CachedInv, RoleInv, SessionInv
<1>7. ClosedIsGone'
  BY DEF Scene, TargetInv, RoleInv, HolderInv, ClosedIsGone
<1>8. KeptInv'
  <2>1. page[u] \in Users /\ TargetOf(page[u]) = TargetOf(u) /\ UNCHANGED page
    BY DEF HolderInv
  <2>2. page[u] \notin states' /\ cache'[TargetOf(u)] = None
    BY <2>1 DEF Scene
  <2> SUFFICES ASSUME NEW w \in Users, result'[w] = "closed"
               PROVE  /\ page[w] # None
                      /\ cache'[TargetOf(w)] # page[w]
                      /\ page[w] \in states' =>
                           \E v \in Users : page[v] = page[w] /\ Records(v)'
    BY <2>1 DEF KeptInv
  <2>3. CASE page[w] = page[u]
    <3>1. TargetOf(w) = TargetOf(u)
      BY <2>1, <2>3 DEF HolderInv
    <3> QED
      BY <2>1, <2>2, <2>3, <3>1
  <2>4. CASE page[w] # page[u]
    <3>1. w # u /\ result[w] = "closed"
      BY <2>4
    <3>2. cache'[TargetOf(w)] \in {None, cache[TargetOf(w)]}
      BY <2>1 DEF Scene
    <3>3. ASSUME page[w] \in states'
          PROVE  \E v \in Users : page[v] = page[w] /\ Records(v)'
      <4>1. PICK v \in Users : page[v] = page[w] /\ Records(v)
        BY <3>1, <3>3 DEF KeptInv
      <4>2. v # u
        BY <2>4, <4>1
      <4> QED
        BY <4>1, <4>2
    <3> QED
      BY <3>1, <3>2, <3>3 DEF KeptInv
  <2> QED
    BY <2>3, <2>4
<1> QED
  BY <1>1, <1>2, <1>3, <1>4, <1>5, <1>6, <1>7, <1>8 DEF PageInv

LEMMA CloseDismissedKeeps ==
    ASSUME PageInv, NEW u \in Users, CloseDismissed(u)
    PROVE  PageInv'
<1> USE DEF PageInv, TypeOK, CloseDismissed
<1>1. TypeOK' /\ (pc \in [Users -> Places])'
  BY DEF Scene
<1>2. TargetInv'
  BY DEF Scene, TargetInv, HolderInv
<1>3. HolderInv'
  BY DEF Scene, TargetInv, HolderInv, CachedInv
<1>4. CachedInv'
  BY DEF Scene, HolderInv, CachedInv
<1>5. RoleInv'
  BY DEF Scene, TargetInv, RoleInv
<1>6. SessionInv'
  BY DEF Scene, TargetInv, HolderInv, CachedInv, RoleInv, SessionInv
<1>7. ClosedIsGone'
  BY DEF Scene, TargetInv, RoleInv, HolderInv, ClosedIsGone
<1>8. KeptInv'
  BY DEF Scene, HolderInv, CachedInv, RoleInv, KeptInv
<1> QED
  BY <1>1, <1>2, <1>3, <1>4, <1>5, <1>6, <1>7, <1>8 DEF PageInv

LEMMA CloseContextDoneKeeps ==
    ASSUME PageInv, NEW u \in Users, CloseContextDone(u)
    PROVE  PageInv'
<1> USE DEF PageInv, TypeOK, CloseContextDone
<1>1. TypeOK' /\ (pc \in [Users -> Places])'
  BY DEF Scene
<1>2. TargetInv'
  BY DEF Scene, TargetInv, HolderInv
<1>3. HolderInv'
  BY DEF Scene, TargetInv, HolderInv, CachedInv
<1>4. CachedInv'
  BY DEF Scene, HolderInv, CachedInv
<1>5. RoleInv'
  BY DEF Scene, TargetInv, RoleInv
<1>6. SessionInv'
  BY DEF Scene, TargetInv, HolderInv, CachedInv, RoleInv, SessionInv
<1>7. ClosedIsGone'
  BY DEF Scene, TargetInv, RoleInv, HolderInv, ClosedIsGone
<1>8. KeptInv'
  <2>1. page[u] \in Users /\ TargetOf(page[u]) = TargetOf(u) /\ UNCHANGED page
    BY DEF HolderInv
  <2>2. page[u] \notin states' /\ cache'[TargetOf(u)] = None
    BY <2>1 DEF Scene
  <2> SUFFICES ASSUME NEW w \in Users, result'[w] = "closed"
               PROVE  /\ page[w] # None
                      /\ cache'[TargetOf(w)] # page[w]
                      /\ page[w] \in states' =>
                           \E v \in Users : page[v] = page[w] /\ Records(v)'
    BY <2>1 DEF KeptInv
  <2>3. CASE page[w] = page[u]
    <3>1. TargetOf(w) = TargetOf(u)
      BY <2>1, <2>3 DEF HolderInv
    <3> QED
      BY <2>1, <2>2, <2>3, <3>1
  <2>4. CASE page[w] # page[u]
    <3>1. w # u /\ result[w] = "closed"
      BY <2>4
    <3>2. cache'[TargetOf(w)] \in {None, cache[TargetOf(w)]}
      BY <2>1 DEF Scene
    <3>3. ASSUME page[w] \in states'
          PROVE  \E v \in Users : page[v] = page[w] /\ Records(v)'
      <4>1. PICK v \in Users : page[v] = page[w] /\ Records(v)
        BY <3>1, <3>3 DEF KeptInv
      <4>2. v # u
        BY <2>4, <4>1
      <4> QED
        BY <4>1, <4>2
    <3> QED
      BY <3>1, <3>2, <3>3 DEF KeptInv
  <2> QED
    BY <2>3, <2>4
<1> QED
  BY <1>1, <1>2, <1>3, <1>4, <1>5, <1>6, <1>7, <1>8 DEF PageInv

LEMMA ForceCloseKeeps ==
    ASSUME PageInv, NEW u \in Users, ForceClose(u)
    PROVE  PageInv'
<1> USE DEF PageInv, TypeOK, ForceClose
<1>1. TypeOK' /\ (pc \in [Users -> Places])'
  BY DEF Scene
<1>2. TargetInv'
  BY DEF Scene, TargetInv, HolderInv
<1>3. HolderInv'
  BY DEF Scene, TargetInv, HolderInv, CachedInv
<1>4. CachedInv'
  BY DEF Scene, HolderInv, CachedInv
<1>5. RoleInv'
  BY DEF Scene, TargetInv, RoleInv
<1>6. SessionInv'
  BY DEF Scene, TargetInv, HolderInv, CachedInv, RoleInv, SessionInv
<1>7. ClosedIsGone'
  BY DEF Scene, TargetInv, RoleInv, HolderInv, ClosedIsGone
<1>8. KeptInv'
  BY DEF Scene, HolderInv, CachedInv, RoleInv, KeptInv
<1> QED
  BY <1>1, <1>2, <1>3, <1>4, <1>5, <1>6, <1>7, <1>8 DEF PageInv

LEMMA ForceTimeoutKeeps ==
    ASSUME PageInv, NEW u \in Users, ForceTimeout(u)
    PROVE  PageInv'
<1> USE DEF PageInv, TypeOK, ForceTimeout
<1>1. TypeOK' /\ (pc \in [Users -> Places])'
  BY DEF Scene
<1>2. TargetInv'
  BY DEF Scene, TargetInv, HolderInv
<1>3. HolderInv'
  BY DEF Scene, TargetInv, HolderInv, CachedInv
<1>4. CachedInv'
  BY DEF Scene, HolderInv, CachedInv
<1>5. RoleInv'
  BY DEF Scene, TargetInv, RoleInv
<1>6. SessionInv'
  BY DEF Scene, TargetInv, HolderInv, CachedInv, RoleInv, SessionInv
<1>7. ClosedIsGone'
  BY DEF Scene, TargetInv, RoleInv, HolderInv, ClosedIsGone
<1>8. KeptInv'
  BY DEF Scene, HolderInv, CachedInv, RoleInv, KeptInv
<1> QED
  BY <1>1, <1>2, <1>3, <1>4, <1>5, <1>6, <1>7, <1>8 DEF PageInv

LEMMA ForceCleanupKeeps ==
    ASSUME PageInv, NEW u \in Users, ForceCleanup(u)
    PROVE  PageInv'
<1> USE DEF PageInv, TypeOK, ForceCleanup
<1>1. TypeOK' /\ (pc \in [Users -> Places])'
  BY DEF Scene
<1>2. TargetInv'
  BY DEF Scene, TargetInv, HolderInv
<1>3. HolderInv'
  BY DEF Scene, TargetInv, HolderInv, CachedInv
<1>4. CachedInv'
  BY DEF Scene, HolderInv, CachedInv
<1>5. RoleInv'
  BY DEF Scene, TargetInv, RoleInv
<1>6. SessionInv'
  BY DEF Scene, TargetInv, HolderInv, CachedInv, RoleInv, SessionInv
<1>7. ClosedIsGone'
  BY DEF Scene, TargetInv, RoleInv, HolderInv, ClosedIsGone
<1>8. KeptInv'
  <2>1. page[u] \in Users /\ TargetOf(page[u]) = TargetOf(u) /\ UNCHANGED page
    BY DEF HolderInv
  <2>2. page[u] \notin states' /\ cache'[TargetOf(u)] = None
    BY <2>1 DEF Scene
  <2> SUFFICES ASSUME NEW w \in Users, result'[w] = "closed"
               PROVE  /\ page[w] # None
                      /\ cache'[TargetOf(w)] # page[w]
                      /\ page[w] \in states' =>
                           \E v \in Users : page[v] = page[w] /\ Records(v)'
    BY <2>1 DEF KeptInv
  <2>3. CASE page[w] = page[u]
    <3>1. TargetOf(w) = TargetOf(u)
      BY <2>1, <2>3 DEF HolderInv
    <3> QED
      BY <2>1, <2>2, <2>3, <3>1
  <2>4. CASE page[w] # page[u]
    <3>1. w # u /\ result[w] = "closed"
      BY <2>4
    <3>2. cache'[TargetOf(w)] \in {None, cache[TargetOf(w)]}
      BY <2>1 DEF Scene
    <3>3. ASSUME page[w] \in states'
          PROVE  \E v \in Users : page[v] = page[w] /\ Records(v)'
      <4>1. PICK v \in Users : page[v] = page[w] /\ Records(v)
        BY <3>1, <3>3 DEF KeptInv
      <4>2. v # u
        BY <2>4, <4>1
      <4> QED
        BY <4>1, <4>2
    <3> QED
      BY <3>1, <3>2, <3>3 DEF KeptInv
  <2> QED
    BY <2>3, <2>4
<1> QED
  BY <1>1, <1>2, <1>3, <1>4, <1>5, <1>6, <1>7, <1>8 DEF PageInv

LEMMA OperateStartKeeps ==
    ASSUME PageInv, NEW u \in Users, OperateStart(u)
    PROVE  PageInv'
<1> USE DEF PageInv, TypeOK, OperateStart
<1>1. TypeOK' /\ (pc \in [Users -> Places])'
  BY DEF Scene
<1>2. TargetInv'
  BY DEF Scene, TargetInv, HolderInv
<1>3. HolderInv'
  BY DEF Scene, TargetInv, HolderInv, CachedInv
<1>4. CachedInv'
  BY DEF Scene, HolderInv, CachedInv
<1>5. RoleInv'
  BY DEF Scene, TargetInv, RoleInv
<1>6. SessionInv'
  BY DEF Scene, TargetInv, HolderInv, CachedInv, RoleInv, SessionInv
<1>7. ClosedIsGone'
  BY DEF Scene, TargetInv, RoleInv, HolderInv, ClosedIsGone
<1>8. KeptInv'
  BY DEF Scene, HolderInv, CachedInv, RoleInv, KeptInv
<1> QED
  BY <1>1, <1>2, <1>3, <1>4, <1>5, <1>6, <1>7, <1>8 DEF PageInv

LEMMA OperateRecordKeeps ==
    ASSUME PageInv, NEW u \in Users, OperateRecord(u)
    PROVE  PageInv'
<1> USE DEF PageInv, TypeOK, OperateRecord
<1>1. TypeOK' /\ (pc \in [Users -> Places])'
  BY DEF Scene, HolderInv
<1>2. TargetInv'
  BY DEF Scene, TargetInv, HolderInv
<1>3. HolderInv'
  BY DEF Scene, TargetInv, HolderInv, CachedInv
<1>4. CachedInv'
  BY DEF Scene, HolderInv, CachedInv
<1>5. RoleInv'
  BY DEF Scene, TargetInv, RoleInv
<1>6. SessionInv'
  BY DEF Scene, TargetInv, HolderInv, CachedInv, RoleInv, SessionInv
<1>7. ClosedIsGone'
  BY DEF Scene, TargetInv, RoleInv, HolderInv, ClosedIsGone
<1>8. KeptInv'
  BY DEF Scene, HolderInv, CachedInv, RoleInv, KeptInv
<1> QED
  BY <1>1, <1>2, <1>3, <1>4, <1>5, <1>6, <1>7, <1>8 DEF PageInv

LEMMA OperateAbortKeeps ==
    ASSUME PageInv, NEW u \in Users, OperateAbort(u)
    PROVE  PageInv'
<1> USE DEF PageInv, TypeOK, OperateAbort
<1>1. TypeOK' /\ (pc \in [Users -> Places])'
  BY DEF Scene
<1>2. TargetInv'
  BY DEF Scene, TargetInv, HolderInv
<1>3. HolderInv'
  BY DEF Scene, TargetInv, HolderInv, CachedInv
<1>4. CachedInv'
  BY DEF Scene, HolderInv, CachedInv
<1>5. RoleInv'
  BY DEF Scene, TargetInv, RoleInv
<1>6. SessionInv'
  BY DEF Scene, TargetInv, HolderInv, CachedInv, RoleInv, SessionInv
<1>7. ClosedIsGone'
  BY DEF Scene, TargetInv, RoleInv, HolderInv, ClosedIsGone
<1>8. KeptInv'
  BY DEF Scene, HolderInv, CachedInv, RoleInv, KeptInv
<1> QED
  BY <1>1, <1>2, <1>3, <1>4, <1>5, <1>6, <1>7, <1>8 DEF PageInv

LEMMA PageClosesKeeps ==
    ASSUME PageInv, NEW u \in Users, PageCloses(u)
    PROVE  PageInv'
<1> USE DEF PageInv, TypeOK, PageCloses
<1>1. TypeOK' /\ (pc \in [Users -> Places])'
  BY DEF Scene
<1>2. TargetInv'
  BY DEF Scene, TargetInv, HolderInv
<1>3. HolderInv'
  BY DEF Scene, TargetInv, HolderInv, CachedInv
<1>4. CachedInv'
  BY DEF Scene, HolderInv, CachedInv
<1>5. RoleInv'
  BY DEF Scene, TargetInv, RoleInv
<1>6. SessionInv'
  BY DEF Scene, TargetInv, HolderInv, CachedInv, RoleInv, SessionInv
<1>7. ClosedIsGone'
  BY DEF Scene, TargetInv, RoleInv, HolderInv, ClosedIsGone
<1>8. KeptInv'
  BY DEF Scene, HolderInv, CachedInv, RoleInv, KeptInv
<1> QED
  BY <1>1, <1>2, <1>3, <1>4, <1>5, <1>6, <1>7, <1>8 DEF PageInv

LEMMA PageStaysKeeps ==
    ASSUME PageInv, NEW u \in Users, PageStays(u)
    PROVE  PageInv'
<1> USE DEF PageInv, TypeOK, PageStays
<1>1. TypeOK' /\ (pc \in [Users -> Places])'
  BY DEF Scene
<1>2. TargetInv'
  BY DEF Scene, TargetInv, HolderInv
<1>3. HolderInv'
  BY DEF Scene, TargetInv, HolderInv, CachedInv
<1>4. CachedInv'
  BY DEF Scene, HolderInv, CachedInv
<1>5. RoleInv'
  BY DEF Scene, TargetInv, RoleInv
<1>6. SessionInv'
  BY DEF Scene, TargetInv, HolderInv, CachedInv, RoleInv, SessionInv
<1>7. ClosedIsGone'
  BY DEF Scene, TargetInv, RoleInv, HolderInv, ClosedIsGone
<1>8. KeptInv'
  BY DEF Scene, HolderInv, CachedInv, RoleInv, KeptInv
<1> QED
  BY <1>1, <1>2, <1>3, <1>4, <1>5, <1>6, <1>7, <1>8 DEF PageInv

LEMMA OperateAnswerKeeps ==
    ASSUME PageInv, NEW u \in Users, OperateAnswer(u)
    PROVE  PageInv'
<1> USE DEF PageInv, TypeOK, OperateAnswer
<1>1. TypeOK' /\ (pc \in [Users -> Places])'
  BY DEF Scene
<1>2. TargetInv'
  BY DEF Scene, TargetInv, HolderInv
<1>3. HolderInv'
  BY DEF Scene, TargetInv, HolderInv, CachedInv
<1>4. CachedInv'
  BY DEF Scene, HolderInv, CachedInv
<1>5. RoleInv'
  BY DEF Scene, TargetInv, RoleInv
<1>6. SessionInv'
  BY DEF Scene, TargetInv, HolderInv, CachedInv, RoleInv, SessionInv
<1>7. ClosedIsGone'
  BY DEF Scene, TargetInv, RoleInv, HolderInv, ClosedIsGone
<1>8. KeptInv'
  BY DEF Scene, HolderInv, CachedInv, RoleInv, KeptInv
<1> QED
  BY <1>1, <1>2, <1>3, <1>4, <1>5, <1>6, <1>7, <1>8 DEF PageInv

LEMMA ExpireKeeps ==
    ASSUME PageInv, NEW u \in Users, Expire(u)
    PROVE  PageInv'
<1> USE DEF PageInv, TypeOK, Expire
<1>1. TypeOK' /\ (pc \in [Users -> Places])'
  BY DEF Scene
<1>2. TargetInv'
  BY DEF Scene, TargetInv, HolderInv
<1>3. HolderInv'
  BY DEF Scene, TargetInv, HolderInv, CachedInv
<1>4. CachedInv'
  BY DEF Scene, HolderInv, CachedInv
<1>5. RoleInv'
  BY DEF Scene, TargetInv, RoleInv
<1>6. SessionInv'
  BY DEF Scene, TargetInv, HolderInv, CachedInv, RoleInv, SessionInv
<1>7. ClosedIsGone'
  BY DEF Scene, TargetInv, RoleInv, HolderInv, ClosedIsGone
<1>8. KeptInv'
  BY DEF Scene, HolderInv, CachedInv, RoleInv, KeptInv
<1> QED
  BY <1>1, <1>2, <1>3, <1>4, <1>5, <1>6, <1>7, <1>8 DEF PageInv

LEMMA SessionEndsKeeps ==
    ASSUME PageInv, NEW p \in Pages, SessionEnds(p)
    PROVE  PageInv'
<1> USE DEF PageInv, TypeOK, SessionEnds
<1>1. TypeOK' /\ (pc \in [Users -> Places])'
  BY DEF Scene
<1>2. TargetInv'
  BY DEF Scene, TargetInv, HolderInv
<1>3. HolderInv'
  BY DEF Scene, TargetInv, HolderInv, CachedInv
<1>4. CachedInv'
  BY DEF Scene, HolderInv, CachedInv
<1>5. RoleInv'
  BY DEF Scene, TargetInv, RoleInv
<1>6. SessionInv'
  BY DEF Scene, TargetInv, HolderInv, CachedInv, RoleInv, SessionInv
<1>7. ClosedIsGone'
  BY DEF Scene, TargetInv, RoleInv, HolderInv, ClosedIsGone
<1>8. KeptInv'
  BY DEF Scene, HolderInv, CachedInv, RoleInv, KeptInv
<1> QED
  BY <1>1, <1>2, <1>3, <1>4, <1>5, <1>6, <1>7, <1>8 DEF PageInv

LEMMA VanishKeeps ==
    ASSUME PageInv, NEW t \in Targets, Vanish(t)
    PROVE  PageInv'
<1> USE DEF PageInv, TypeOK, Vanish
<1>1. TypeOK' /\ (pc \in [Users -> Places])'
  BY DEF Scene
<1>2. TargetInv'
  BY DEF Scene, TargetInv, HolderInv
<1>3. HolderInv'
  BY DEF Scene, TargetInv, HolderInv, CachedInv
<1>4. CachedInv'
  BY DEF Scene, HolderInv, CachedInv
<1>5. RoleInv'
  BY DEF Scene, TargetInv, RoleInv
<1>6. SessionInv'
  BY DEF Scene, TargetInv, HolderInv, CachedInv, RoleInv, SessionInv
<1>7. ClosedIsGone'
  BY DEF Scene, TargetInv, RoleInv, HolderInv, ClosedIsGone
<1>8. KeptInv'
  BY DEF Scene, HolderInv, CachedInv, RoleInv, KeptInv
<1> QED
  BY <1>1, <1>2, <1>3, <1>4, <1>5, <1>6, <1>7, <1>8 DEF PageInv

-----------------------------------------------------------------------------
LEMMA PageInvBegins == Init => PageInv
<1> SUFFICES ASSUME Init
             PROVE  PageInv
  OBVIOUS
<1> USE DEF Init
<1>1. TypeOK /\ pc \in [Users -> Places]
  BY DEF TypeOK, Scene
<1>2. TargetInv
  BY DEF TargetInv, Scene
<1>3. HolderInv
  BY DEF HolderInv, Scene
<1> QED
  BY <1>1, <1>2, <1>3 DEF PageInv, CachedInv, RoleInv, SessionInv, ClosedIsGone, KeptInv

LEMMA PageInvStep == PageInv /\ [Next]_vars => PageInv'
<1> SUFFICES ASSUME PageInv, [Next]_vars
             PROVE  PageInv'
  OBVIOUS
<1>1. ASSUME NEW u \in Users, OpenStep(u)
      PROVE  PageInv'
  BY <1>1, CreateKeeps, FindKeeps, LookUpKeeps, AttachKeeps, EmulateKeeps, EmulateFailKeeps,
     PublishKeeps, EnablePageKeeps, UnlockKeeps, AdoptKeeps, NavigateKeeps,
     NavigateRecordKeeps, NavigateFailKeeps, FailKeeps, DiscardKeeps DEF OpenStep
<1>2. ASSUME NEW u \in Users, CloseStep(u)
      PROVE  PageInv'
  BY <1>2, CloseLockKeeps, CloseRequestKeeps, CloseRecordKeeps, CloseErrorKeeps,
     CloseDestroyedKeeps, CloseDismissedKeeps, CloseContextDoneKeeps,
     ForceCloseKeeps, ForceTimeoutKeeps, ForceCleanupKeeps DEF CloseStep
<1>3. ASSUME NEW u \in Users, Progress(u)
      PROVE  PageInv'
  BY <1>1, <1>2, <1>3, OperateStartKeeps, OperateRecordKeeps, OperateAbortKeeps,
     PageClosesKeeps, PageStaysKeeps DEF Progress
<1>4. CASE UNCHANGED vars
  BY <1>4 DEF vars, PageInv, TypeOK, TargetInv, HolderInv, CachedInv, RoleInv,
     SessionInv, ClosedIsGone, KeptInv
<1> QED
  BY <1>3, <1>4, OperateAnswerKeeps, ExpireKeeps, SessionEndsKeeps, VanishKeeps DEF Next

(* The types, the lock and the inductive invariant, on every scene.        *)
THEOREM PageInvariant == Spec => []PageInv
<1> QED
  BY PageInvBegins, PageInvStep, PTL DEF Spec

(* However many users get a page of a target at once, and whatever fails   *)
(* or ends meanwhile, they share one session (browser.go:371-402).         *)
THEOREM OneSessionPerTarget == Spec => []OneSession
<1>1. PageInv => OneSession
  <2> SUFFICES ASSUME PageInv, NEW p \in attached, NEW q \in attached,
                      TargetOf(p) = TargetOf(q), page[p] = p, page[q] = q,
                      \A u \in expired : TargetOf(u) # TargetOf(p)
               PROVE  p = q
    BY DEF OneSession, PageInv
  <2>1. p \in Users /\ q \in Users
    BY DEF PageInv, TypeOK
  <2>2. cache[TargetOf(p)] = p \/ pc[p] \in {"emulate", "publish"}
    BY DEF PageInv, SessionInv
  <2>3. cache[TargetOf(p)] = q \/ pc[q] \in {"emulate", "publish"}
    BY DEF PageInv, SessionInv
  <2>4. pc[p] \in {"emulate", "publish"} => lock = p /\ cache[TargetOf(p)] = None
    BY <2>1 DEF PageInv, TypeOK, HolderInv
  <2>5. pc[q] \in {"emulate", "publish"} => lock = q /\ cache[TargetOf(p)] = None
    BY <2>1 DEF PageInv, TypeOK, HolderInv
  <2> QED
    BY <2>1, <2>2, <2>3, <2>4, <2>5
<1> QED
  BY <1>1, PageInvariant, PTL

(* A close that reports no error has seen the page's target go, unless the *)
(* closing user's own context ended (page.go:318-355).                     *)
THEOREM CloseIsBelievable == Spec => []ClosedIsGone
<1>1. PageInv => ClosedIsGone
  BY DEF PageInv
<1> QED
  BY <1>1, PageInvariant, PTL

(* What is cached and recorded of a page is dropped by its last close,     *)
(* whoever closes it and in whatever order (states.go:64-73).              *)
THEOREM ClosedIsForgotten == Spec => []NothingKept
<1>1. PageInv => NothingKept
  <2> SUFFICES ASSUME PageInv, NEW u \in Users, result[u] = "closed", OnlyClosed(page[u]),
                      Quiet
               PROVE  page[u] \notin states /\ cache[TargetOf(u)] # page[u]
    BY DEF NothingKept
  <2>1. ASSUME NEW v \in Users, page[v] = page[u]
        PROVE  ~Records(v)
    BY <2>1 DEF OnlyClosed, Quiet, PageInv, RoleInv
  <2> QED
    BY <2>1 DEF PageInv, KeptInv
<1> QED
  BY <1>1, PageInvariant, PTL
=============================================================================
