----------------------------- MODULE MCDomains ------------------------------
(* What trusts a domain of the browser to be on or off: part says whether   *)
(* this behaviour is about the users of a recorded domain or about a router *)
(* and the Fetch domain, and the other stays as it is in its first state.   *)
(*                                                                          *)
(* Requests a and c have one URL but two resource types, b has another.     *)
(* h1 is for the URL and type of a, h2 for the URL of both, h3 for b's.     *)
EXTENDS DomainStates, Hijack

CONSTANTS a, b, c, h1, h2, h3

VARIABLE part

MCUrl   == [h \in Handlers |-> Requests \cap (IF h = h3 THEN {b} ELSE {a, c})]
MCTyped == [h \in Handlers |-> IF h = h1 THEN {a} ELSE MCUrl[h]]

(* Where two handlers match, the later one only continues the request.      *)
Lenient ==
    [h \in Handlers |-> CASE h = h1 -> {"continue", "skip", "fail"}
                          [] h = h2 -> {"continue"}
                          [] h = h3 -> {"fail", "fulfill"}]

MCInit ==
    /\ part \in {"record", "router"}
    /\ DomainInit /\ (part # "record" => ~before)
    /\ Init /\ (part # "router" => careful)

MCNext ==
    /\ UNCHANGED part
    /\ \/ part = "record" /\ DomainNext /\ UNCHANGED vars
       \/ part = "router" /\ Next /\ UNCHANGED domainVars

MCSpec ==
    /\ MCInit
    /\ [][MCNext]_<<part, domainVars, vars>>
    /\ DomainFairness
    /\ RouterFairness
=============================================================================
