------------------------------ MODULE MCLaunch ------------------------------
(* One of three scenes: launcher 0 is used by hand, its Launch and Cleanup  *)
(* called at any time; a Webshot uses the other launchers; or installers    *)
(* fill the cache.                                                          *)
EXTENDS Webshot, Install

(* Nobody uses this launcher any more. *)
Spent == [Fresh(TRUE) EXCEPT !.call = "returned", !.outcome = "error",
                             !.done = TRUE, !.cleanup = "returned"]

With(hand) == [l \in Launchers |-> IF l = 0 THEN hand ELSE Fresh(TRUE)]

(* No installer runs. *)
NoInstall ==
    /\ InstallRest
    /\ stage = [p \in Installers |-> "failed"]

NoWebshot == pc = [u \in Users |-> "finished"]

MCInit ==
    /\ InitShared
    /\ \/ /\ launcher \in {With(Fresh(TRUE)), With(Fresh(FALSE))}
          /\ NoWebshot /\ NoInstall
       \/ /\ launcher = With(Spent)
          /\ pc = [u \in Users |-> "idle"]
          /\ NoInstall
       \/ /\ launcher = With(Spent)
          /\ NoWebshot /\ InstallInit

ByHand ==
    /\ LaunchEarly(0) \/ Start(0) \/ EndContext(0) \/ CleanupCancel(0)
    /\ UNCHANGED <<pc, shared, tab, expired>>

Installing == \E p \in Installers : stage[p] # "failed"

MCNext ==
    \/ (Next \/ ByHand) /\ UNCHANGED installVars
    \/ Installing /\ InstallNext /\ UNCHANGED vars

MCSpec == MCInit /\ [][MCNext]_<<vars, installVars>> /\ Fairness /\ InstallFairness
=============================================================================
