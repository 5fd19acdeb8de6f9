---------------------------- MODULE MCEventLoop -----------------------------
(* Listeners of the browser's events: "caller" wants every event and calls  *)
(* the browser in its callback; any other takes the last event only.       *)
EXTENDS EventLoop

CONSTANTS c1, c2

MCCallOf == [l \in Listeners |-> IF l = "caller" THEN c1 ELSE None]
MCWants == [l \in Listeners |-> IF l = "caller" THEN 1..MaxEvents ELSE {MaxEvents}]
=============================================================================
