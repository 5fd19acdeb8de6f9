----------------------------- MODULE WaitStable -----------------------------
(***************************************************************************)
(* WaitStable: three goroutines wait for the page to load, for its         *)
(* requests (module RequestIdle) and for its document to settle; WaitStable *)
(* waits for all of them and returns one error.                            *)
(***************************************************************************)

VARIABLES
    waits,      \* waits[t]: what waiting for t has come to
    stopped,    \* the page's context is done
    err         \* the error, which a sync.Once sets

stableVars == <<waits, stopped, err>>

Tasks == {"load", "idle", "dom"}

StableInit ==
    /\ waits = [t \in Tasks |-> "waiting"]
    /\ stopped = FALSE
    /\ err = "unset"

(* WaitLoad and WaitDOMStable may fail, and do so when the context is over. *)
(* The first of them sets the error, even to none.                         *)
TaskEnds(t) ==
    /\ t # "idle"
    /\ waits[t] = "waiting"
    /\ \E result \in IF stopped THEN {"failed"} ELSE {"ok", "failed"} :
         /\ waits' = [waits EXCEPT ![t] = result]
         /\ err' = IF err = "unset" THEN result ELSE err
    /\ UNCHANGED stopped

(* WaitRequestIdle has no error to return. *)
IdleEnds ==
    /\ waits["idle"] = "waiting"
    /\ waits' = [waits EXCEPT !["idle"] = IF stopped THEN "failed" ELSE "ok"]
    /\ UNCHANGED <<stopped, err>>

Stop ==
    /\ ~stopped
    /\ stopped' = TRUE
    /\ UNCHANGED <<waits, err>>

StableNext == IdleEnds \/ Stop \/ \E t \in Tasks : TaskEnds(t)

StableSpec == StableInit /\ [][StableNext]_stableVars

Returned == \A t \in Tasks : waits[t] # "waiting"

(* Without an error, the page was found stable ("WaitStable waits until    *)
(* the page is stable for d duration", page.go:840).                       *)
StableMeansStable ==
    Returned /\ err = "ok" => \A t \in Tasks : waits[t] = "ok"
=============================================================================
