--------------------------- MODULE MCPageLifecycle ---------------------------
(* Instances of the pages for TLC. *)
EXTENDS PageLifecycle

CONSTANTS t1, t2, u1, u2, u3

Play(users, targets, creates, roles) ==
    [users |-> users,
     target |-> [u \in Users |-> CASE u = u1 -> targets[1]
                                   [] u = u2 -> targets[2]
                                   [] u = u3 -> targets[3]],
     creates |-> creates,
     role |-> [u \in Users |-> CASE u = u1 -> roles[1]
                                 [] u = u2 -> roles[2]
                                 [] u = u3 -> roles[3]]]

(* Three users of a target that is there.  A target that is made, used and *)
(* force-closed beside another; one whose maker closes it, while another   *)
(* operates on it; one whose maker operates, as another does, and a third  *)
(* closes it.                                                              *)
AllScenes == {
    Play({u1, u2, u3}, <<t1, t1, t1>>, {}, <<"close", "operate", "force">>),
    Play({u1, u3}, <<t1, t1, t2>>, {u3}, <<"close", "operate", "force">>),
    Play({u1, u2}, <<t1, t1, t1>>, {u1}, <<"close", "operate", "force">>),
    Play({u1, u2, u3}, <<t1, t1, t1>>, {u2}, <<"close", "operate", "operate">>) }

(* A user that created its page operates on it while another closes it.    *)
Created == {Play({u1, u2}, <<t1, t1, t1>>, {u2}, <<"close", "operate", "force">>)}
=============================================================================
