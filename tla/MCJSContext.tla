----------------------------- MODULE MCJSContext -----------------------------
(* Two goroutines that use one Page object, or a clone each. *)
EXTENDS JSContext

CONSTANTS g1, g2, page, clone

OnePage == [g \in Evaluators |-> page]
Clones  == [g \in Evaluators |-> IF g = g1 THEN page ELSE clone]

Either  == {OnePage, Clones}
=============================================================================
