----------------------------- MODULE RemoteCalls -----------------------------
(***************************************************************************)
(* What a connection to the browser promises to those who call it, without *)
(* a word about sockets, readers and callbacks.                            *)
(*                                                                         *)
(* A call is asked once and carried out at most once.  It ends once: with  *)
(* its own answer after it was carried out, with its context's error after *)
(* that has ended, or, when the browser is gone, with an error of the      *)
(* connection.  Which error tells whether it is safe to ask again: what    *)
(* ended with the error of the sender was not carried out and never is;    *)
(* of the others nobody knows.                                             *)
(***************************************************************************)
CONSTANT Calls      \* the calls that may be made

VARIABLES
    asked,          \* the calls that have been made
    outcome,        \* outcome[c]: how c ended, or "none"
    givenUp,        \* givenUp[c]: the context of c is done
    performed,      \* the calls that the browser has carried out
    peer            \* the browser: "up" or "down"

vars == <<asked, outcome, givenUp, performed, peer>>

Init ==
    /\ asked = {}
    /\ outcome = [c \in Calls |-> "none"]
    /\ givenUp = [c \in Calls |-> FALSE]
    /\ performed = {}
    /\ peer = "up"

Ask(c) ==
    /\ c \notin asked
    /\ asked' = asked \cup {c}
    /\ UNCHANGED <<outcome, givenUp, performed, peer>>

GiveUp(c) ==
    /\ ~givenUp[c]
    /\ givenUp' = [givenUp EXCEPT ![c] = TRUE]
    /\ UNCHANGED <<asked, outcome, performed, peer>>

(* The browser may carry out a call that has been given up. *)
Perform(c) ==
    /\ peer = "up"
    /\ c \in asked \ performed
    /\ outcome[c] # "sendError"
    /\ performed' = performed \cup {c}
    /\ UNCHANGED <<asked, outcome, givenUp, peer>>

Disappear ==
    /\ peer = "up"
    /\ peer' = "down"
    /\ UNCHANGED <<asked, outcome, givenUp, performed>>

(* How c may end. *)
Ending(c, how) ==
    \/ how = c /\ c \in performed
    \/ how = "ctxError" /\ givenUp[c]
    \/ how = "sendError" /\ peer = "down" /\ c \notin performed
    \/ how = "readError" /\ peer = "down"

End(c) ==
    /\ c \in asked
    /\ outcome[c] = "none"
    /\ \E how \in {c, "ctxError", "sendError", "readError"} :
         Ending(c, how) /\ outcome' = [outcome EXCEPT ![c] = how]
    /\ UNCHANGED <<asked, givenUp, performed, peer>>

Next ==
    \/ \E c \in Calls : Ask(c) \/ GiveUp(c) \/ Perform(c) \/ End(c)
    \/ Disappear

Spec == Init /\ [][Next]_vars
=============================================================================
