------------------------------ MODULE MCMouse -------------------------------
EXTENDS Mouse

(* In either of two places on the page. *)
MCCenter == [e \in Elements |-> IF e = "link" THEN "p1" ELSE "p2"]
=============================================================================
