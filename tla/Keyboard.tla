------------------------------ MODULE Keyboard ------------------------------
(***************************************************************************)
(* A page's Keyboard, used by goroutines that perform KeyActions: the      *)
(* record of the pressed keys and the keys that the browser holds down.    *)
(*                                                                         *)
(* Press records the key before it asks the browser, Release forgets it    *)
(* before; both hold the keyboard's lock meanwhile, so each is one step.   *)
(* A request may fail, with or without effect in the browser.  Do first    *)
(* adds a release for every key it would leave pressed.                    *)
(***************************************************************************)
EXTENDS Naturals, Sequences, SequencesExt

CONSTANTS
    Typists,
    Keys,
    Scripts     \* the actions that a typist may be given

Actions == {"press", "release", "type"} \X Keys

ASSUME KeyboardAssumption == Scripts \subseteq Seq(Actions)

VARIABLES
    pressed,    \* Keyboard.pressed
    held,       \* the keys that the browser holds down
    typist,     \* typist[t]: where t is
    todo,       \* todo[t]: the actions it has yet to do, or to go on with
    stuck       \* history: keys whose release failed, or whose Do failed

keyboardVars == <<pressed, held, typist, todo, stuck>>

KeyboardInit ==
    /\ pressed = {}
    /\ held = {}
    /\ typist = [t \in Typists |-> "idle"]
    /\ todo = [t \in Typists |-> << >>]
    /\ stuck = {}

(* Mistake: a release before the last press counts. *)
NeverReleased(actions) ==
    {k \in Keys : /\ <<"press", k>> \in ToSet(actions)
                  /\ \A j \in 1..Len(actions) : actions[j] \notin {<<"release", k>>, <<"type", k>>}}

(* The keys whose last action is a press. *)
Unreleased(actions) ==
    {k \in Keys : \E i \in 1..Len(actions) :
        /\ actions[i] = <<"press", k>>
        /\ \A j \in (i + 1)..Len(actions) : actions[j][2] # k}

(* balance appends their releases, in the order of a map. *)
Balanced(actions) ==
    {actions \o [i \in 1..Len(keys) |-> <<"release", keys[i]>>] :
        keys \in SetToSeqs(Unreleased(actions))}

Do(t) ==
    /\ typist[t] = "idle"
    /\ typist' = [typist EXCEPT ![t] = "typing"]
    /\ \E script \in Scripts : \E actions \in Balanced(script) :
         todo' = [todo EXCEPT ![t] = actions]
    /\ UNCHANGED <<pressed, held, stuck>>

Doing(t, actions) ==
    /\ typist[t] = "typing"
    /\ todo[t] # << >>
    /\ Head(todo[t])[1] \in actions

Key(t) == Head(todo[t])[2]

(* Type has pressed its key and goes on to release it. *)
Remaining(t) ==
    IF Head(todo[t])[1] = "type"
    THEN [todo[t] EXCEPT ![1] = <<"release", Key(t)>>]
    ELSE Tail(todo[t])

(* A request that fails ends Do: what it still had to release is stuck.    *)
Answered(t) ==
    /\ todo' = [todo EXCEPT ![t] = Remaining(t)]
    /\ UNCHANGED <<typist, stuck>>

Refused(t) ==
    /\ typist' = [typist EXCEPT ![t] = "failed"]
    /\ stuck' = stuck \cup {s[2] : s \in ToSet(todo[t])}
    /\ todo' = [todo EXCEPT ![t] = << >>]

Press(t) ==
    /\ Doing(t, {"press", "type"})
    /\ pressed' = pressed \cup {Key(t)}
    /\ \/ held' = held \cup {Key(t)} /\ Answered(t)
       \/ held' \in {held, held \cup {Key(t)}} /\ Refused(t)

Release(t) ==
    /\ Doing(t, {"release"})
    /\ Key(t) \in pressed
    /\ pressed' = pressed \ {Key(t)}
    /\ \/ held' = held \ {Key(t)} /\ Answered(t)
       \/ held' \in {held, held \ {Key(t)}} /\ Refused(t)

(* Another goroutine has released the key. *)
ReleaseNothing(t) ==
    /\ Doing(t, {"release"})
    /\ Key(t) \notin pressed
    /\ Answered(t)
    /\ UNCHANGED <<pressed, held>>

DoReturns(t) ==
    /\ typist[t] = "typing"
    /\ todo[t] = << >>
    /\ typist' = [typist EXCEPT ![t] = "done"]
    /\ UNCHANGED <<pressed, held, todo, stuck>>

KeyboardNext ==
    \E t \in Typists :
        Do(t) \/ Press(t) \/ Release(t) \/ ReleaseNothing(t) \/ DoReturns(t)

-----------------------------------------------------------------------------
KeyboardTypeOK ==
    /\ pressed \subseteq Keys
    /\ held \subseteq Keys
    /\ typist \in [Typists -> {"idle", "typing", "done", "failed"}]
    /\ todo \in [Typists -> Seq(Actions)]
    /\ stuck \subseteq Keys

(* What the browser holds down and what is recorded differ only in keys    *)
(* that a failed Do has left, and once nobody types only such keys are     *)
(* held ("Press keys is guaranteed to have a release at the end of         *)
(* actions", input.go:117), however the goroutines' strokes fall between   *)
(* one another.                                                            *)
KeysReleased ==
    /\ KeyboardTypeOK
    /\ \A k \in Keys \ stuck : k \in held <=> k \in pressed
    /\ (\A t \in Typists : typist[t] # "typing") => held \cup pressed \subseteq stuck
=============================================================================
