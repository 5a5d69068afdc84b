------------------------------- MODULE Calls -------------------------------
(***************************************************************************)
(* What the client's builders return.  A call unlocks one covenant:        *)
(*   spent: the state of the covenant the builder compiled,                *)
(*   next:  the successor states it announces,                             *)
(*   paid:  the token amounts it announces, by their receivers.            *)
(* An artifact is the script of a covenant that is going to be created.    *)
(* Signatures, indices of inputs and outputs and templates are left out.   *)
(***************************************************************************)

Refused == [built |-> FALSE]

Call(accepted, spent, next, paid) ==
    IF accepted THEN [built |-> TRUE, spent |-> spent, next |-> next, paid |-> paid] ELSE Refused

Artifact(accepted, state) ==
    IF accepted THEN [built |-> TRUE, state |-> state] ELSE Refused
=============================================================================
