------------------------------- MODULE Launch -------------------------------
(***************************************************************************)
(* Launchers: each starts a browser process, learns its control URL from   *)
(* what the process prints, and has it killed and its directory removed.   *)
(*                                                                         *)
(* Four goroutines meet in a launcher: the one in Launch, the one that     *)
(* copies the output into the parser, the one that waits for the process,  *)
(* and the one in Cleanup.  The copier holds the parser's lock for as long *)
(* as nobody takes the URL from it; Launch asks the parser for its error   *)
(* under that lock.  The channel exit is closed when the process has been  *)
(* waited for; the context is ended by the user, by a timeout, by a        *)
(* failure, by the end of the process and by Cleanup, and kills the        *)
(* process.                                                                *)
(***************************************************************************)
EXTENDS Naturals

CONSTANT Launchers

VARIABLE
    launcher    \* launcher[l]: a record of the goroutines and the state of l

(* follows: the parser heeds the launcher's context, as it does once       *)
(* Launcher.Context was called; call and cleanup: where Launch and Cleanup *)
(* are; resolved: Launch got as far as asking the URL; done: the context;  *)
(* exitErr: the process ended in error and Launch has not been told yet.   *)
Fresh(follows) ==
    [follows |-> follows, call |-> "new", outcome |-> "none", resolved |-> FALSE,
     process |-> "none", pid |-> FALSE, done |-> FALSE, exit |-> FALSE,
     exitErr |-> FALSE, copier |-> "idle", parsed |-> FALSE, warned |-> FALSE,
     cleanup |-> "idle", dir |-> TRUE]

InitLaunch == launcher \in [Launchers -> {Fresh(TRUE), Fresh(FALSE)}]

IsUp(l) == launcher[l].process = "up"

-----------------------------------------------------------------------------
(* Launch *)

(* Launch ends before there is a process: a browser already listens on the *)
(* port, or there is no binary, a flag is bad or the start fails.          *)
LaunchEarly(l) ==
    /\ launcher[l].call = "new"
    /\ \E o \in {"url", "error"} :
         launcher' = [launcher EXCEPT ![l].call = "returned", ![l].outcome = o]

(* exec.Cmd.Start refuses a context that is done. *)
Start(l) ==
    /\ launcher[l].call = "new"
    /\ ~launcher[l].done
    /\ launcher' = [launcher EXCEPT ![l].call = "started", ![l].process = "up"]

RecordPid(l) ==
    /\ launcher[l].call = "started"
    /\ launcher' = [launcher EXCEPT ![l].call = "select", ![l].pid = TRUE]

(* The branches of the select; more than one may be ready. *)
SelectURL(l) ==
    /\ launcher[l].call = "select"
    /\ launcher[l].copier = "send"
    /\ launcher' = [launcher EXCEPT ![l].call = "gotURL", ![l].copier = "idle",
                                    ![l].parsed = TRUE]

SelectContext(l) ==
    /\ launcher[l].call = "select"
    /\ launcher[l].done
    /\ launcher' = [launcher EXCEPT ![l].call = "ask"]

SelectExitErr(l) ==
    /\ launcher[l].call = "select"
    /\ launcher[l].exitErr
    /\ launcher' = [launcher EXCEPT ![l].call = "failed", ![l].exitErr = FALSE]

SelectExit(l) ==
    /\ launcher[l].call = "select"
    /\ launcher[l].exit
    /\ launcher' = [launcher EXCEPT ![l].call = "ask"]

SelectTimeout(l) ==
    /\ launcher[l].call = "select"
    /\ launcher' = [launcher EXCEPT ![l].call = "ask", ![l].done = TRUE]

(* Without a URL and an error of its own, Launch takes the parser's.       *)
AskParser(l) ==
    /\ launcher[l].call = "ask"
    /\ launcher[l].copier # "send"
    /\ launcher' = [launcher EXCEPT ![l].call = "failed"]

(* Mistake: the error leaves the process alone. *)
FailKeepsProcess(l) ==
    /\ launcher[l].call = "failed" \/ (launcher[l].call = "gotURL" /\ launcher[l].warned)
    /\ launcher' = [launcher EXCEPT
            ![l].call = "returned",
            ![l].outcome = IF launcher[l].warned THEN "nosandbox" ELSE "error"]

(* An error, or a warning even beside a URL, kills what was started.       *)
Fail(l) ==
    /\ launcher[l].call = "failed" \/ (launcher[l].call = "gotURL" /\ launcher[l].warned)
    /\ launcher' = [launcher EXCEPT
            ![l].call = "returned", ![l].process = "dead", ![l].done = TRUE,
            ![l].outcome = IF launcher[l].warned THEN "nosandbox" ELSE "error"]

(* ResolveURL asks the browser; an error of it is returned as it is.       *)
Resolve(l) ==
    /\ launcher[l].call = "gotURL"
    /\ ~launcher[l].warned
    /\ \E o \in {"error"} \cup (IF IsUp(l) THEN {"url"} ELSE {}) :
         launcher' = [launcher EXCEPT ![l].call = "returned", ![l].outcome = o,
                                      ![l].resolved = TRUE]

Launch(l) ==
    \/ RecordPid(l) \/ SelectURL(l) \/ SelectContext(l) \/ SelectExitErr(l)
    \/ SelectExit(l) \/ SelectTimeout(l) \/ AskParser(l) \/ Fail(l) \/ Resolve(l)

-----------------------------------------------------------------------------
(* The browser process, its output and the end of its context *)

Warns(l) ==
    /\ IsUp(l)
    /\ launcher[l].copier = "idle"
    /\ ~launcher[l].parsed /\ ~launcher[l].warned
    /\ launcher[l].call # "returned"
    /\ launcher' = [launcher EXCEPT ![l].warned = TRUE]

(* The copier has the URL and waits, with the lock, for someone to take it. *)
PrintsURL(l) ==
    /\ IsUp(l)
    /\ launcher[l].copier = "idle"
    /\ ~launcher[l].parsed
    /\ launcher' = [launcher EXCEPT ![l].copier = "send"]

GiveUpURL(l) ==
    /\ launcher[l].copier = "send"
    /\ launcher[l].follows /\ launcher[l].done
    /\ launcher' = [launcher EXCEPT ![l].copier = "idle", ![l].parsed = TRUE]

Dies(l) ==
    /\ IsUp(l)
    /\ launcher' = [launcher EXCEPT ![l].process = "dead"]

KilledByContext(l) == launcher[l].done /\ Dies(l)

EndContext(l) ==
    /\ ~launcher[l].done
    /\ launcher' = [launcher EXCEPT ![l].done = TRUE]

(* cmd.Wait returns when the process is dead and its output copied; a      *)
(* copier that does not end may or may not hold it up for ever.  The error *)
(* may also be that another launcher has reaped the process.               *)
Waited(l) ==
    /\ launcher[l].process = "dead"
    /\ launcher[l].pid
    /\ ~launcher[l].exit
    /\ \E failed \in IF launcher[l].call = "select" THEN BOOLEAN ELSE {FALSE} :
         launcher' = [launcher EXCEPT ![l].exitErr = failed, ![l].done = TRUE,
                                      ![l].exit = TRUE]

-----------------------------------------------------------------------------
(* Cleanup *)

CleanupCancel(l) ==
    /\ launcher[l].cleanup = "idle"
    /\ launcher' = [launcher EXCEPT ![l].cleanup = "look", ![l].done = TRUE]

(* Mistake: Cleanup waits for a process that may never have been. *)
CleanupAlwaysWaits(l) ==
    /\ launcher[l].cleanup = "look"
    /\ launcher' = [launcher EXCEPT ![l].cleanup = "wait"]

CleanupLook(l) ==
    /\ launcher[l].cleanup = "look"
    /\ launcher' = [launcher EXCEPT
            ![l].cleanup = IF launcher[l].pid THEN "wait" ELSE "remove"]

CleanupWait(l) ==
    /\ launcher[l].cleanup = "wait"
    /\ launcher[l].exit
    /\ launcher' = [launcher EXCEPT ![l].cleanup = "remove", ![l].process = "dead"]

(* What is removed comes back while the browser still writes into it.      *)
CleanupRemove(l) ==
    /\ launcher[l].cleanup = "remove"
    /\ \E left \in IF IsUp(l) THEN BOOLEAN ELSE {FALSE} :
         launcher' = [launcher EXCEPT ![l].cleanup = "returned", ![l].dir = left]

Cleanup(l) == CleanupLook(l) \/ CleanupWait(l) \/ CleanupRemove(l)

-----------------------------------------------------------------------------
(* What the goroutines of a launcher do of themselves, and what happens.   *)
Works(l) == Launch(l) \/ Cleanup(l) \/ GiveUpURL(l) \/ KilledByContext(l) \/ Waited(l)

Happens(l) == Warns(l) \/ PrintsURL(l) \/ Dies(l)

(* The waiter's goroutine and the copier run whenever they can, a timeout  *)
(* comes, and a process whose context is done is killed.                   *)
LaunchFairness ==
    \A l \in Launchers :
        /\ WF_launcher(Launch(l)) /\ WF_launcher(Cleanup(l))
        /\ WF_launcher(GiveUpURL(l)) /\ WF_launcher(KilledByContext(l))
        /\ WF_launcher(Waited(l) /\ launcher[l].copier # "send")

-----------------------------------------------------------------------------
TypeOKLaunch ==
    \A l \in Launchers :
        LET s == launcher[l] IN
        /\ s.call \in {"new", "started", "select", "ask", "gotURL", "failed", "returned"}
        /\ s.outcome \in {"none", "url", "error", "nosandbox"}
        /\ s.outcome # "none" <=> s.call = "returned"
        /\ s.process \in {"none", "up", "dead"}
        /\ s.pid => s.process # "none"
        /\ s.exit => s.pid /\ s.process = "dead" /\ s.done
        /\ s.copier \in {"idle", "send"}
        /\ s.cleanup \in {"idle", "look", "wait", "remove", "returned"}

(* Launch returns, whichever of the URL, the context, the exit of the      *)
(* process and the timeout come, in whatever order, and Cleanup returns,   *)
(* whatever Launch is doing meanwhile, even if it never started a process  *)
(* ("Don't block waiting for <-l.exit if the launcher never started a      *)
(* browser process", launcher.go:829), and leaves no process: all that if  *)
(* the parser follows the context.  Without Launcher.Context it does not:  *)
(* a URL that is parsed as the timeout is chosen keeps the lock that       *)
(* Launch then waits for.                                                  *)
LaunchersEnd ==
    <>[]\A l \in Launchers : launcher[l].follows =>
            /\ launcher[l].call # "new" => launcher[l].call = "returned"
            /\ launcher[l].cleanup # "idle" => launcher[l].cleanup = "returned" /\ ~IsUp(l)
=============================================================================
