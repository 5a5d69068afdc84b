----------------------------- MODULE MC_Lending -----------------------------
(***************************************************************************)
(* Lending for TLC, with an observer of the time line of each challenge:   *)
(* warned[p] is how long ago Position p was challenged, saturating.        *)
(***************************************************************************)
EXTENDS Lending

(* Two Positions and two Challenges of one unit each can be alive at once. *)
MCKas == [u \in Users |-> 2]

VARIABLE warned

mcVars == <<vars, warned>>

FullNotice == ChallengePeriod + AuctionDuration

MCInit == Init /\ warned = [p \in Positions |-> 0]

(* Time passes for a challenged Position, and stops counting when it is not. *)
Observe ==
    warned' = [p \in Positions |->
                  IF position'[p].stage # "challenged" THEN 0
                  ELSE IF position[p].stage = "challenged" /\ Tick /\ warned[p] < FullNotice
                       THEN warned[p] + 1 ELSE warned[p]]

MCNext == Next /\ Observe
MCSpec == MCInit /\ [][MCNext]_mcVars

(* An owner is never liquidated without notice: settlement comes no sooner *)
(* than challengePeriodDaa after startChallenge, and the Reserve takes the *)
(* collateral no sooner than auctionDurationDaa after that, across anchor, *)
(* Challenge and Auction, each of which starts an age of its own.          *)
OwnerWarned ==
    [][\A p \in Positions :
           position[p].stage = "challenged" /\ position'[p].stage = "liquidated" =>
               /\ warned[p] >= ChallengePeriod
               /\ reserve'.collateral > reserve.collateral => warned[p] >= FullNotice]_mcVars
=============================================================================
