------------------------------ MODULE MCTools -------------------------------
(* The helpers that do not meet one another: part says which of them this   *)
(* behaviour is about, and the others stay as they are in their first state. *)
EXTENDS RequestIdle, Retry, Keyboard, MCMouse, Pool, StreamReader, LCS, WebSocket

VARIABLE part

MCScripts == UNION {[1..n -> Actions] : n \in 0..3}

(* Where the words of five letters meet, two nodes are freed at once. *)
MCWords ==
    UNION {[1..n -> 1..2] : n \in 0..4} \cup {w \in [1..4 -> 1..4] : IsInjective(w)}
    \cup {<<2, 1, 1, 2, 1>>, <<1, 2, 1, 2, 1>>}

(* Nobody waits for the page's requests any more. *)
IdleRest ==
    /\ early = {} /\ excluded = {} /\ net = [r \in Requests |-> "idle"] /\ wire = << >>
    /\ waitList = {} /\ job = 0 /\ timer = Off
    /\ idler = "idle" /\ looping = FALSE /\ over = TRUE /\ quiet = Duration

MCInit ==
    /\ part \in {"idle", "retry", "keyboard", "mouse", "pool", "stream", "lcs", "socket"}
    /\ IF part = "idle" THEN IdleInit ELSE IdleRest
    /\ RetryRest /\ retrying = (IF part = "retry" THEN "fn" ELSE "returned")
    /\ KeyboardInit /\ MouseInit /\ PoolInit /\ SocketInit
    /\ StreamInit /\ (part # "stream" => Offset = NoOffset)
    /\ LCSInit /\ (part # "lcs" => xs = << >> /\ ys = << >>)

MCNext ==
    /\ UNCHANGED part
    /\ \/ /\ part = "idle" /\ IdleNext
          /\ UNCHANGED <<retryVars, keyboardVars, mouseVars, poolVars, streamVars, lcsVars, socketVars>>
       \/ /\ part = "retry" /\ RetryNext
          /\ UNCHANGED <<idleVars, keyboardVars, mouseVars, poolVars, streamVars, lcsVars, socketVars>>
       \/ /\ part = "keyboard" /\ KeyboardNext
          /\ UNCHANGED <<idleVars, retryVars, mouseVars, poolVars, streamVars, lcsVars, socketVars>>
       \/ /\ part = "mouse" /\ MouseNext
          /\ UNCHANGED <<idleVars, retryVars, keyboardVars, poolVars, streamVars, lcsVars, socketVars>>
       \/ /\ part = "pool" /\ PoolNext
          /\ UNCHANGED <<idleVars, retryVars, keyboardVars, mouseVars, streamVars, lcsVars, socketVars>>
       \/ /\ part = "stream" /\ StreamNext
          /\ UNCHANGED <<idleVars, retryVars, keyboardVars, mouseVars, poolVars, lcsVars, socketVars>>
       \/ /\ part = "lcs" /\ LCSNext
          /\ UNCHANGED <<idleVars, retryVars, keyboardVars, mouseVars, poolVars, streamVars, socketVars>>
       \/ /\ part = "socket" /\ SocketNext
          /\ UNCHANGED <<idleVars, retryVars, keyboardVars, mouseVars, poolVars, streamVars, lcsVars>>

MCSpec == MCInit /\ [][MCNext]_<<part, idleVars, retryVars, keyboardVars, mouseVars, poolVars, streamVars, lcsVars, socketVars>> 
    /\ IdleFairness /\ RetryFairness
=============================================================================
