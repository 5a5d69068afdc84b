---------------------------- MODULE EquityMarket ----------------------------
(***************************************************************************)
(* The EquityReserve with its KPS holders, under an environment that owns  *)
(* some KUSD, sends some of it to the Reserve as fees and lets auctions    *)
(* fall to it.  The auctions are arbitrary: any debt, assigned reserve and *)
(* collateral within the bounds, at any time.                              *)
(***************************************************************************)
EXTENDS EquityReserve

CONSTANTS
    InitialKusd,      \* KUSD each wallet starts with
    MaxAuctionDebt,   \* bound: debt of an auction that falls to the Reserve
    MaxCollateral     \* bound: KAS that auctions bring to the Reserve

ASSUME MarketAssumption ==
    InitialKusd \in Nat /\ MaxAuctionDebt \in Nat /\ MaxCollateral \in Nat

MarketInit ==
    /\ InitReserve
    /\ kusd = [u \in Users |-> InitialKusd]
    /\ kas = [u \in Users |-> 0]

(* An auction's half of a backstop is elsewhere: its debt disappears and   *)
(* its challenger's deposit returns without touching the Reserve.          *)
AuctionFalls(challenger, debt, assigned, collateral) ==
    /\ collateral <= MaxCollateral - SumTo(kas, NumUsers) - reserve.collateral
    /\ ReserveBackstop(challenger, debt, assigned, collateral)
    /\ UNCHANGED kas

MarketTick == AgeShares /\ UNCHANGED <<kusd, kas, reserve, reserveToken, feeToken>>

MarketNext ==
    \/ ReserveStep
    \/ TokenStep
    \/ \E u \in Users, f \in FeeSlots, amount \in KusdAmounts : FundReserve(u, f, amount)
    \/ \E u \in Users, debt \in 1..MaxAuctionDebt, collateral \in 1..MaxCollateral :
          \E assigned \in 0..debt : AuctionFalls(u, debt, assigned, collateral)
    \/ MarketTick

MarketSpec == MarketInit /\ [][MarketNext]_equityVars

(* NotDiluted of every step: see EquityReserve. *)
HoldersKeepTheirValue == [][NotDiluted]_equityVars
=============================================================================
