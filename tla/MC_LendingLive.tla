--------------------------- MODULE MC_LendingLive ---------------------------
(***************************************************************************)
(* Lending for TLC, as it is: the liveness run and the runs that look for  *)
(* one particular state or step.                                           *)
(***************************************************************************)
EXTENDS LendingCalls

(* Enough for two Positions and one Challenge. *)
MCKas == [u \in Users |-> IF u = 1 THEN 2 ELSE 1]
=============================================================================
