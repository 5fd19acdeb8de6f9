------------------------------- MODULE MCGoob -------------------------------
(* Instances of the event hub for TLC. *)
EXTENDS Goob
=============================================================================
