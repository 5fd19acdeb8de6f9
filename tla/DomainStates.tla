---------------------------- MODULE DomainStates ----------------------------
(***************************************************************************)
(* The record that Browser.Call keeps of one DevTools domain of one        *)
(* session (states.go), and the two helpers that trust it: EnableDomain    *)
(* and DisableDomain change the domain only if the record says that it is  *)
(* not yet as wanted, and return a closure that changes it back.           *)
(*                                                                         *)
(* A user is one goroutine that runs one of the helpers, then what it      *)
(* needs the domain for, then the closure: EachEvent and WaitRequestIdle   *)
(* are enablers, HandleAuth is a disabler too.  The browser serves the     *)
(* requests of a connection in the order in which they were sent.  A call  *)
(* whose context is done has still been sent: it returns an error, which   *)
(* the helpers ignore, and is not recorded.                                *)
(***************************************************************************)
EXTENDS Naturals, Sequences, FiniteSets

CONSTANTS
    Enablers,       \* users that run EnableDomain
    Disablers       \* users that run DisableDomain

Users == Enablers \cup Disablers

ASSUME DomainAssumption == Enablers \cap Disablers = {}

VARIABLES
    at,             \* at[u]: where user u is
    found,          \* found[u]: what the record said when u looked
    cancelled,      \* cancelled[u]: the context of u is done
    recorded,       \* Browser.states has an entry for the domain's enable
    enabled,        \* the browser has the domain enabled
    wire,           \* requests on their way to the browser
    acked,          \* requests the browser has answered
    before,         \* history: whether the domain was enabled at first
    met             \* history: met[u]: the users that were active with u

domainVars == <<at, found, cancelled, recorded, enabled, wire, acked, before, met>>

(* What user u wants the domain to be, and whether it has to change it.    *)
Wanted(u) == u \in Enablers

(* Mistake: the closure changes the domain back whatever it found. *)
MustChangeAlways(u) == TRUE

MustChange(u) == found[u] # Wanted(u)

DomainRequest == [user : Users, on : BOOLEAN]
Change(u)  == [user |-> u, on |-> Wanted(u)]
Restore(u) == [user |-> u, on |-> ~Wanted(u)]

Idle(u) == at[u] \in {"idle", "finished"}

DomainInit ==
    /\ at = [u \in Users |-> "idle"]
    /\ found = [u \in Users |-> FALSE]
    /\ cancelled = [u \in Users |-> FALSE]
    /\ before \in BOOLEAN
    /\ recorded = before
    /\ enabled = before
    /\ wire = << >>
    /\ acked = {}
    /\ met = [u \in Users |-> {}]

(* The helper loads the record and keeps what it says in its closure. *)
Begin(u) ==
    /\ at[u] = "idle"
    /\ found' = [found EXCEPT ![u] = recorded]
    /\ at' = [at EXCEPT ![u] = IF recorded # Wanted(u) THEN "change" ELSE "using"]
    /\ LET now == {v \in Users : ~Idle(v)}
       IN  met' = [v \in Users |-> IF v = u THEN now
                                   ELSE IF v \in now THEN met[v] \cup {u}
                                   ELSE met[v]]
    /\ UNCHANGED <<cancelled, recorded, enabled, wire, acked, before>>

(* Mistake: the request is not sent. *)
SendNothing(u, from, to, r) ==
    /\ at[u] = from
    /\ at' = [at EXCEPT ![u] = to]
    /\ UNCHANGED <<found, cancelled, recorded, enabled, wire, acked, before, met>>

(* Browser.Call: the client sends the request, then waits. *)
Send(u, from, to, r) ==
    /\ at[u] = from
    /\ wire' = Append(wire, r)
    /\ at' = [at EXCEPT ![u] = to]
    /\ UNCHANGED <<found, cancelled, recorded, enabled, acked, before, met>>

(* Browser.Call goes on to set: "enable" is stored, "disable" deletes it.  *)
Record(u, from, to, r) ==
    /\ at[u] = from
    /\ r \in acked
    /\ recorded' = r.on
    /\ acked' = acked \ {r}
    /\ at' = [at EXCEPT ![u] = to]
    /\ UNCHANGED <<found, cancelled, enabled, wire, before, met>>

(* Browser.Call returns the error of the context without a call of set. *)
GiveUp(u, from, to) ==
    /\ at[u] = from
    /\ cancelled[u]
    /\ at' = [at EXCEPT ![u] = to]
    /\ UNCHANGED <<found, cancelled, recorded, enabled, wire, acked, before, met>>

(* Mistake: EnableDomain does not wait for the response. *)
SendChangeOnly(u) == Send(u, "change", "using", Change(u))

SendChange(u)     == Send(u, "change", "changing", Change(u))
RecordChange(u)   == Record(u, "changing", "using", Change(u))
GiveUpChange(u)   == GiveUp(u, "changing", "using")
SendRestore(u)    == Send(u, "restore", "restoring", Restore(u))
RecordRestore(u)  == Record(u, "restoring", "finished", Restore(u))
GiveUpRestore(u)  == GiveUp(u, "restoring", "finished")

(* What the user needed the domain for is over, and the closure runs. *)
Finish(u) ==
    /\ at[u] = "using"
    /\ at' = [at EXCEPT ![u] = IF MustChange(u) THEN "restore" ELSE "finished"]
    /\ UNCHANGED <<found, cancelled, recorded, enabled, wire, acked, before, met>>

Cancel(u) ==
    /\ ~Idle(u)
    /\ ~cancelled[u]
    /\ cancelled' = [cancelled EXCEPT ![u] = TRUE]
    /\ UNCHANGED <<at, found, recorded, enabled, wire, acked, before, met>>

(* The browser serves the next request. *)
Serve ==
    /\ wire # << >>
    /\ enabled' = Head(wire).on
    /\ acked' = acked \cup {Head(wire)}
    /\ wire' = Tail(wire)
    /\ UNCHANGED <<at, found, cancelled, recorded, before, met>>

UserStep(u) ==
    \/ Begin(u)
    \/ SendChange(u)
    \/ RecordChange(u)
    \/ GiveUpChange(u)
    \/ Finish(u)
    \/ SendRestore(u)
    \/ RecordRestore(u)
    \/ GiveUpRestore(u)
    \/ Cancel(u)

DomainNext ==
    \/ \E u \in Users : UserStep(u)
    \/ Serve

DomainSpec == DomainInit /\ [][DomainNext]_domainVars

(* The browser answers and goroutines run; what a user does while it uses  *)
(* the domain ends.  No context has to end.                                *)
DomainFairness ==
    /\ WF_domainVars(Serve)
    /\ \A u \in Users :
         WF_domainVars(SendChange(u) \/ RecordChange(u) \/ Finish(u)
                 \/ SendRestore(u) \/ RecordRestore(u))

-----------------------------------------------------------------------------
(* The requests the browser has answered or is about to. *)
Sent == {wire[i] : i \in 1..Len(wire)} \cup acked

(* Every variable holds a value of its type, and a user only waits for the *)
(* response to a request that it sent.                                     *)
DomainTypeOK ==
    /\ at \in [Users -> {"idle", "change", "changing", "using", "restore",
                         "restoring", "finished"}]
    /\ found \in [Users -> BOOLEAN]
    /\ cancelled \in [Users -> BOOLEAN]
    /\ recorded \in BOOLEAN
    /\ enabled \in BOOLEAN
    /\ wire \in Seq(DomainRequest)
    /\ acked \subseteq DomainRequest
    /\ before \in BOOLEAN
    /\ met \in [Users -> SUBSET Users]
    /\ \A u \in Users :
         /\ at[u] = "changing" => Change(u) \in Sent
         /\ at[u] = "restoring" => Restore(u) \in Sent

(* Users of both kinds have been active at once. *)
Mixed == \E u \in Users : \E v \in met[u] : Wanted(u) # Wanted(v)

Cancelled == \E u \in Users : cancelled[u]

(* No active user has met one that went on to its closure. *)
NoneLeft ==
    \A u \in Users : \A v \in met[u] :
        ~Idle(u) => at[v] \in {"change", "changing", "using"}

(* While a user needs the domain, the browser has it as the user wants it, *)
(* as long as no context has ended, the users that overlapped wanted the   *)
(* same and none of those it overlaps with has left: a listener's domain   *)
(* emits events ("Only enabled domains will emit events to cdp client",    *)
(* browser.go:444).                                                        *)
UserServed ==
    ~Cancelled /\ ~Mixed /\ NoneLeft
        => \A u \in Users : at[u] = "using" => enabled = Wanted(u)

Quiet == wire = << >> /\ \A u \in Users : Idle(u)

(* Once no user is active the domain is what it was before them, and the   *)
(* record says so: the next user's decision not to send is right.  Users   *)
(* of one kind may overlap in any way, and the record of a late response   *)
(* overtake an earlier one.  An ended context breaks it (the restore is    *)
(* sent and not recorded), and so do overlapping users of both kinds (each *)
(* restores what it found).                                                *)
Settled ==
    /\ DomainTypeOK
    /\ Quiet /\ ~Cancelled /\ ~Mixed => recorded = enabled /\ enabled = before

(* Every user gets through, its own restore included, although the changes *)
(* of others and its own given up requests are on the same connection.     *)
UsersFinish == \A u \in Users : at[u] # "idle" ~> at[u] = "finished"
=============================================================================
