------------------------------- MODULE Mouse --------------------------------
(***************************************************************************)
(* A page's Mouse, and the mice of the clones that Element.Hover and       *)
(* Element.Click make of the page.                                         *)
(*                                                                         *)
(* MoveTo, Down and Up hold the lock of their Mouse during the request and *)
(* record its effect after it succeeded; a request may fail, with or       *)
(* without effect.  Every request tells the browser where the mouse is.    *)
(* The Mouse of a clone begins at the origin with no button down, and      *)
(* Element.Click makes one clone to move and another to press and release. *)
(***************************************************************************)
EXTENDS Naturals

CONSTANTS
    Points,         \* positions; Origin is that of a new Mouse
    Origin,
    Buttons,
    Elements,
    Center,         \* Center[e]: the point of element e that is clicked
    MaxHeld         \* bound of the model: how often a button is recorded as down

ASSUME MouseAssumption ==
    /\ Origin \in Points
    /\ Center \in [Elements -> Points]
    /\ Buttons \cap {"idle", "hover"} = {}
    /\ MaxHeld \in Nat

VARIABLES
    pos,        \* Mouse.pos of the page's Mouse
    buttons,    \* buttons[b]: how often b is in Mouse.buttons
    cursor,     \* the browser's own position of the mouse
    down,       \* the buttons that the browser holds down
    click,      \* click[e]: where Element.Click is, or the button it holds
    struck,     \* struck[e]: where the button was pressed for it, if it was
    unsure      \* history: buttons of a failed request, or released for two

record == <<pos, buttons>>
mouseVars == <<record, cursor, down, click, struck, unsure>>

MouseInit ==
    /\ pos = Origin /\ buttons = [b \in Buttons |-> 0]
    /\ cursor = Origin /\ down = {}
    /\ click = [e \in Elements |-> "idle"]
    /\ struck = [e \in Elements |-> {}]
    /\ unsure = {}

Clicking(b) == \E e \in Elements : click[e] = b

(* A press or a release that fails may still have been obeyed. *)
Unanswered(b) ==
    /\ down' \in {down, down \cup {b}, down \ {b}}
    /\ cursor' \in Points
    /\ unsure' = unsure \cup {b}

(* b goes up in the browser, whoever else believes it to be down. *)
Raised(b, others) ==
    /\ down' = down \ {b}
    /\ unsure' = IF others THEN unsure \cup {b} ELSE unsure \ {b}

-----------------------------------------------------------------------------
(* The page's own Mouse *)

MoveTo(p) ==
    /\ \/ cursor' = p /\ pos' = p
       \/ cursor' \in {cursor, p} /\ pos' = pos
    /\ UNCHANGED <<buttons, down, click, struck, unsure>>

Down(b) ==
    /\ buttons[b] < MaxHeld
    /\ \/ /\ down' = down \cup {b}
          /\ cursor' = pos
          /\ buttons' = [buttons EXCEPT ![b] = @ + 1]
          /\ UNCHANGED unsure
       \/ Unanswered(b) /\ UNCHANGED buttons
    /\ UNCHANGED <<pos, click, struck>>

(* Mistake: of a button pressed twice, one entry is taken away. *)
UpOnce(b) ==
    /\ \/ /\ Raised(b, Clicking(b))
          /\ cursor' = pos
          /\ buttons' = [buttons EXCEPT ![b] = IF @ = 0 THEN 0 ELSE @ - 1]
       \/ Unanswered(b) /\ UNCHANGED buttons
    /\ UNCHANGED <<pos, click, struck>>

Up(b) ==
    /\ \/ /\ Raised(b, Clicking(b))
          /\ cursor' = pos
          /\ buttons' = [buttons EXCEPT ![b] = 0]
       \/ Unanswered(b) /\ UNCHANGED buttons
    /\ UNCHANGED <<pos, click, struck>>

-----------------------------------------------------------------------------
(* Element.Click, with clones of the page *)

Hover(e) ==
    /\ click[e] = "idle"
    /\ \/ cursor' = Center[e] /\ click' = [click EXCEPT ![e] = "hover"]
       \/ cursor' \in {cursor, Center[e]} /\ click' = click
    /\ UNCHANGED <<record, down, struck, unsure>>

(* WaitEnabled fails. *)
ClickFails(e) ==
    /\ click[e] = "hover"
    /\ click' = [click EXCEPT ![e] = "idle"]
    /\ UNCHANGED <<record, cursor, down, struck, unsure>>

(* The new Mouse presses where it thinks it is; the browser's has moved.   *)
ClickDown(e, b) ==
    /\ click[e] = "hover"
    /\ \/ /\ down' = down \cup {b}
          /\ cursor' = Origin
          /\ struck' = [struck EXCEPT ![e] = {Origin}]
          /\ click' = [click EXCEPT ![e] = b]
          /\ UNCHANGED unsure
       \/ /\ Unanswered(b)
          /\ click' = [click EXCEPT ![e] = "idle"]
          /\ UNCHANGED struck
    /\ UNCHANGED record

ClickUp(e, b) ==
    /\ click[e] = b
    /\ click' = [click EXCEPT ![e] = "idle"]
    /\ \/ /\ Raised(b, buttons[b] > 0 \/ \E f \in Elements \ {e} : click[f] = b)
          /\ cursor' = Origin
       \/ Unanswered(b)
    /\ UNCHANGED <<record, struck>>

MouseNext ==
    \/ \E p \in Points : MoveTo(p)
    \/ \E b \in Buttons : Down(b) \/ Up(b)
    \/ \E e \in Elements : Hover(e) \/ ClickFails(e)
    \/ \E e \in Elements, b \in Buttons : ClickDown(e, b) \/ ClickUp(e, b)

MouseSpec == MouseInit /\ [][MouseNext]_mouseVars

-----------------------------------------------------------------------------
MouseTypeOK ==
    /\ {pos, cursor} \subseteq Points
    /\ buttons \in [Buttons -> 0..MaxHeld]
    /\ down \subseteq Buttons
    /\ click \in [Elements -> {"idle", "hover"} \cup Buttons]
    /\ struck \in [Elements -> SUBSET Points]
    /\ unsure \subseteq Buttons

(* The buttons recorded as down, together with those of the clicks under   *)
(* way, are those that the browser holds down, one pressed twice included: *)
(* the clicks of elements, made with mice of their own, leave no trace in  *)
(* the page's Mouse.  Only a failed request, or a release of a button that *)
(* two believe to hold, makes a difference, until it is released again.    *)
ButtonsAgree ==
    /\ MouseTypeOK
    /\ \A b \in Buttons \ unsure : b \in down <=> buttons[b] > 0 \/ Clicking(b)

(* Element.Click presses the button on the element ("Before the action, it *)
(* will try to scroll to the element, hover the mouse over it",            *)
(* element.go:102).                                                        *)
ClickLands == \A e \in Elements : struck[e] \subseteq {Center[e]}
=============================================================================
