----------------------------- MODULE MC_Equity -----------------------------
(***************************************************************************)
(* EquityMarket for TLC, with an observer of the holding period: past[u][k]*)
(* is the least KPS that u has owned at any time of the last k DAA units,  *)
(* the units' ends included.                                               *)
(***************************************************************************)
EXTENDS EquityMarket

VARIABLE past

mcVars == <<equityVars, past>>

OwnedIn(sh, u, minAge) ==
    SumTo([s \in ShareSlots |-> IF sh[s].owner = u /\ sh[s].age >= minAge
                                THEN sh[s].amount ELSE 0], NumShareSlots)

Ages == 1..MinimumHoldingDaa
Least(a, b) == IF a < b THEN a ELSE b

MCInit == MarketInit /\ past = [u \in Users |-> [k \in Ages |-> 0]]

Observe ==
    past' = [u \in Users |-> [k \in Ages |-> Least(past[u][k], OwnedIn(shares', u, 0))]]

ObserveTick ==
    past' = [u \in Users |-> [k \in Ages |->
                IF k = 1 THEN OwnedIn(shares, u, 0) ELSE past[u][k - 1]]]

MCNext == \/ MarketTick /\ ObserveTick
          \/ MarketNext /\ ~MarketTick /\ Observe
MCSpec == MCInit /\ [][MCNext]_mcVars

(* No KPS can be redeemed sooner than MinimumHoldingDaa after its holder   *)
(* acquired it: transfers and merges never lend an old UTXO's age to newly *)
(* acquired shares (KPS delegates require the age, every new UTXO has 0).  *)
HoldingPeriodRespected ==
    \A u \in Users, k \in Ages : OwnedIn(shares, u, k) <= past[u][k]
=============================================================================
