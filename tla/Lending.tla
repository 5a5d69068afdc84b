------------------------------ MODULE Lending ------------------------------
(***************************************************************************)
(* The lending half of KUSD: one MintingModule, the Positions it opens,    *)
(* the challenge lineage of each Position (ChallengeAnchor, Challenge,     *)
(* Auction) and the EquityReserve that collects their fees and backstops   *)
(* their auctions.  Every action is one transaction as the covenants       *)
(* accept it; transactions that compete for a UTXO are actions enabled in  *)
(* the same state.                                                         *)
(*                                                                         *)
(* Positions are numbered by the Module's positionNonce.  Position p pays  *)
(* its opening fee into fee UTXO p of the Reserve; the fee UTXOs after the *)
(* last Position's are for KUSD sent to the Reserve by anyone.  The minter tokens *)
(* (amount 0) carry no data: the Module's exists while module.open, a      *)
(* Position's while its stage is active or challenged.                     *)
(***************************************************************************)
EXTENDS EquityReserve

CONSTANTS
    NumPositions,             \* Positions the Module may open in a behaviour
    MintAllocation,           \* remainingMint of the new Module
    MaxDebtPerPosition,
    MinimumCollateral,
    LiquidationPrice,         \* KUSD atoms per KAS
    ReserveContributionPpm,   \* part of the debt assigned to the Position
    RiskPremiumPpm,           \* yearly fee, paid upfront until expiration
    DaaPerYear,
    ExpirationDaa,
    ChallengePeriod,
    AuctionDuration,
    InitialKas,               \* KAS each wallet starts with
    DebtAmounts,              \* debts owners choose to open, parts they repay
    CollateralAmounts         \* KAS amounts owners choose to lock

Positions == 1..NumPositions

(* The bounds Governance and RootIssuance put on the terms of a Module. *)
ASSUME LendingAssumption ==
    /\ NumPositions \in Nat
    /\ NumFeeSlots >= NumPositions
    /\ MintAllocation \in Nat \ {0}
    /\ MaxDebtPerPosition \in 1..MintAllocation
    /\ MinimumCollateral \in Nat \ {0}
    /\ LiquidationPrice \in Nat \ {0}
    /\ ReserveContributionPpm \in 0..(PPM - 1)
    /\ RiskPremiumPpm \in 0..PPM
    /\ DaaPerYear \in Nat \ {0}
    /\ ExpirationDaa \in Nat \ {0}
    /\ ChallengePeriod \in Nat \ {0}
    /\ AuctionDuration \in Nat \ {0}
    /\ InitialKas \in [Users -> Nat]
    /\ DebtAmounts \subseteq Nat
    /\ CollateralAmounts \subseteq Nat

VARIABLES
    now,            \* DAA score of the chain, saturating at ExpirationDaa
    module,         \* MintingModule: [open, remaining, opened, since]
    position,       \* Position covenants
    assignedToken,  \* amount of the KUSD UTXO each Position owns
    challenge       \* challenge lineage of each Position

lendingVars == <<now, module, position, assignedToken, challenge>>
vars == <<equityVars, lendingVars>>

(* Ages of challenge UTXOs saturate here: no policy compares them with more. *)
MaxAge == IF ChallengePeriod > AuctionDuration THEN ChallengePeriod ELSE AuctionDuration

PositionStages == {"unopened", "active", "challenged", "closed", "liquidated"}
ChallengeStages == {"none", "anchor", "challenge", "auction"}

ModuleStates == [open : BOOLEAN, remaining : Nat, opened : 0..NumPositions, since : Nat]
PositionStates ==
    [stage : PositionStages, owner : Users, debt : Nat, assigned : Nat, collateral : Nat]
(* debt, assigned and collateral are the Position's, copied when it was    *)
(* challenged; deposit is the KAS the challenger locked.                   *)
ChallengeStates ==
    [stage : ChallengeStages, challenger : Users, debt : Nat, assigned : Nat,
     collateral : Nat, deposit : Nat, age : 0..MaxAge]

NoPosition == [stage |-> "unopened", owner |-> 1, debt |-> 0, assigned |-> 0, collateral |-> 0]
NoChallenge == [stage |-> "none", challenger |-> 1, debt |-> 0, assigned |-> 0,
                collateral |-> 0, deposit |-> 0, age |-> 0]

LendingTypeOK ==
    /\ now \in 0..ExpirationDaa
    /\ module \in ModuleStates
    /\ position \in [Positions -> PositionStates]
    /\ assignedToken \in [Positions -> Nat]
    /\ challenge \in [Positions -> ChallengeStates]

(* Types of everything the lending covenants and the Reserve serialize. *)
TypeOK == EquityTypeOK /\ LendingTypeOK

(* A Module just created by RootIssuance, an empty Reserve, no KUSD. *)
Init ==
    /\ InitReserve
    /\ kusd = [u \in Users |-> 0]
    /\ kas = InitialKas
    /\ now = 0
    /\ module = [open |-> TRUE, remaining |-> MintAllocation, opened |-> 0, since |-> 0]
    /\ position = [p \in Positions |-> NoPosition]
    /\ assignedToken = [p \in Positions |-> 0]
    /\ challenge = [p \in Positions |-> NoChallenge]

-----------------------------------------------------------------------------
(* MintingModule *)

Contribution(debt) == MulPpm(debt, ReserveContributionPpm)

(* currentFeePpm of a transaction that carries this lock time. *)
FeePpm(lockTime) == (RiskPremiumPpm * (ExpirationDaa - lockTime)) \div DaaPerYear

(* open: mints `debt` against `collateral` and splits it between the       *)
(* owner, the Position's assigned reserve and the Reserve's fee.  The lock *)
(* time is at least the score of the Module UTXO, at most the chain's.     *)
Open(u, debt, collateral, lockTime) ==
    LET p == module.opened + 1
        fee == MulPpm(debt, FeePpm(lockTime))
        usable == debt - Contribution(debt) - fee
    IN  /\ module.open
        /\ p \in Positions
        /\ debt \in 1..MaxDebtPerPosition
        /\ debt <= module.remaining
        /\ lockTime \in module.since..now
        /\ lockTime < ExpirationDaa
        /\ ReserveContributionPpm + FeePpm(lockTime) < PPM
        /\ usable > 0
        /\ collateral \in MinimumCollateral..kas[u]
        /\ debt <= ReferenceValue(collateral, LiquidationPrice)
        /\ module' = [module EXCEPT !.remaining = @ - debt, !.opened = p, !.since = now]
        /\ position' = [position EXCEPT ![p] =
               [stage |-> "active", owner |-> u, debt |-> debt,
                assigned |-> Contribution(debt), collateral |-> collateral]]
        /\ assignedToken' = [assignedToken EXCEPT ![p] = Contribution(debt)]
        /\ feeToken' = [feeToken EXCEPT ![p] = fee]
        /\ kusd' = Credit(kusd, u, usable)
        /\ kas' = Debit(kas, u, collateral)
        /\ UNCHANGED <<now, challenge, reserve, reserveToken, shares>>

(* expire: from expirationDaa on, anyone may burn the Module's minter. *)
Expire ==
    /\ module.open
    /\ now >= ExpirationDaa
    /\ module' = [module EXCEPT !.open = FALSE]
    /\ UNCHANGED <<equityVars, now, position, assignedToken, challenge>>

-----------------------------------------------------------------------------
(* Position *)

(* Assigned reserve burned by a repayment: its floored share, or all of it *)
(* when the debt is repaid in full.                                        *)
AssignedBurn(p, amount) ==
    IF amount = position[p].debt THEN position[p].assigned ELSE Contribution(amount)

(* Mutant: repaid debt may be minted again. *)
RepayReturningCapacity(p, amount) ==
    LET burn == AssignedBurn(p, amount)
        userBurn == amount - burn
    IN  /\ position[p].stage = "active"
        /\ amount \in 1..position[p].debt
        /\ position[p].assigned <= position[p].debt
        /\ burn <= position[p].assigned
        /\ userBurn > 0
        /\ userBurn <= kusd[position[p].owner]
        /\ assignedToken[p] = position[p].assigned
        /\ position' = [position EXCEPT ![p].debt = @ - amount, ![p].assigned = @ - burn]
        /\ assignedToken' = Debit(assignedToken, p, burn)
        /\ kusd' = Debit(kusd, position[p].owner, userBurn)
        /\ module' = [module EXCEPT !.remaining = @ + amount]
        /\ UNCHANGED <<now, challenge, kas, reserve, reserveToken, feeToken, shares>>

(* repay: the owner's wallet and the assigned reserve burn `amount` together. *)
Repay(p, amount) ==
    LET burn == AssignedBurn(p, amount)
        userBurn == amount - burn
    IN  /\ position[p].stage = "active"
        /\ amount \in 1..position[p].debt
        /\ position[p].assigned <= position[p].debt
        /\ burn <= position[p].assigned
        /\ userBurn > 0
        /\ userBurn <= kusd[position[p].owner]
        /\ assignedToken[p] = position[p].assigned
        /\ position' = [position EXCEPT ![p].debt = @ - amount, ![p].assigned = @ - burn]
        /\ assignedToken' = Debit(assignedToken, p, burn)
        /\ kusd' = Debit(kusd, position[p].owner, userBurn)
        /\ UNCHANGED <<now, module, challenge, kas, reserve, reserveToken, feeToken, shares>>

(* Mutant: collateral leaves an indebted Position. *)
CloseWithDebt(p) ==
    /\ position[p].stage = "active"
    /\ position' = [position EXCEPT ![p].stage = "closed", ![p].collateral = 0]
    /\ kas' = Credit(kas, position[p].owner, position[p].collateral)
    /\ UNCHANGED <<now, module, assignedToken, challenge, kusd, reserve, reserveToken,
                   feeToken, shares>>

(* close: without debt the owner takes the collateral back. *)
Close(p) ==
    /\ position[p].stage = "active"
    /\ position[p].debt = 0 /\ position[p].assigned = 0
    /\ position' = [position EXCEPT ![p].stage = "closed", ![p].collateral = 0]
    /\ kas' = Credit(kas, position[p].owner, position[p].collateral)
    /\ UNCHANGED <<now, module, assignedToken, challenge, kusd, reserve, reserveToken,
                   feeToken, shares>>

(* Mutant: the Position stays repayable under its challenge. *)
StartChallengeLeavingActive(p, u) ==
    /\ position[p].stage = "active"
    /\ position[p].debt > 0
    /\ position[p].collateral <= kas[u]
    /\ challenge' = [challenge EXCEPT ![p] =
           [stage |-> "anchor", challenger |-> u, debt |-> position[p].debt,
            assigned |-> position[p].assigned, collateral |-> position[p].collateral,
            deposit |-> position[p].collateral, age |-> 0]]
    /\ kas' = Debit(kas, u, position[p].collateral)
    /\ UNCHANGED <<now, module, position, assignedToken, kusd, reserve, reserveToken, feeToken, shares>>

(* startChallenge: the challenger locks as much KAS as the Position holds, *)
(* in an anchor that copies the Position's terms.                          *)
StartChallenge(p, u) ==
    /\ position[p].stage = "active"
    /\ position[p].debt > 0
    /\ position[p].collateral <= kas[u]
    /\ position' = [position EXCEPT ![p].stage = "challenged"]
    /\ challenge' = [challenge EXCEPT ![p] =
           [stage |-> "anchor", challenger |-> u, debt |-> position[p].debt,
            assigned |-> position[p].assigned, collateral |-> position[p].collateral,
            deposit |-> position[p].collateral, age |-> 0]]
    /\ kas' = Debit(kas, u, position[p].collateral)
    /\ UNCHANGED <<now, module, assignedToken, kusd, reserve, reserveToken, feeToken, shares>>

-----------------------------------------------------------------------------
(* ChallengeAnchor, Challenge and Auction, with their ChallengedPosition *)

(* The snapshot a Challenge or Auction carries is the one its Position     *)
(* authenticates when the two are spent together.                          *)
SameTerms(p) ==
    /\ position[p].stage = "challenged"
    /\ challenge[p].debt = position[p].debt
    /\ challenge[p].assigned = position[p].assigned
    /\ challenge[p].collateral = position[p].collateral

(* init: the anchor becomes a Challenge; its warning period starts. *)
InitChallenge(p) ==
    /\ challenge[p].stage = "anchor"
    /\ challenge' = [challenge EXCEPT ![p].stage = "challenge", ![p].age = 0]
    /\ UNCHANGED <<equityVars, now, module, position, assignedToken>>

(* Mutant: the buyer pays but is not handed the deposit. *)
AvertKeepingDeposit(p, u) ==
    LET price == ReferenceValue(challenge[p].collateral, LiquidationPrice)
    IN  /\ challenge[p].stage = "challenge"
        /\ SameTerms(p)
        /\ price <= kusd[u]
        /\ kusd' = Credit(Debit(kusd, u, price), challenge[p].challenger, price)
        /\ position' = [position EXCEPT ![p].stage = "active"]
        /\ challenge' = [challenge EXCEPT ![p] = NoChallenge]
        /\ UNCHANGED <<now, module, assignedToken, kas, reserve, reserveToken, feeToken, shares>>

(* avert: u buys the challenger's deposit at the liquidation price and the *)
(* Position is active again.                                               *)
Avert(p, u) ==
    LET price == ReferenceValue(challenge[p].collateral, LiquidationPrice)
    IN  /\ challenge[p].stage = "challenge"
        /\ SameTerms(p)
        /\ price <= kusd[u]
        /\ kusd' = Credit(Debit(kusd, u, price), challenge[p].challenger, price)
        /\ kas' = Credit(kas, u, challenge[p].deposit)
        /\ position' = [position EXCEPT ![p].stage = "active"]
        /\ challenge' = [challenge EXCEPT ![p] = NoChallenge]
        /\ UNCHANGED <<now, module, assignedToken, reserve, reserveToken, feeToken, shares>>

(* Mutant: the Auction inherits the Challenge's age. *)
ActivateKeepingAge(p) ==
    /\ challenge[p].stage = "challenge"
    /\ challenge[p].age >= ChallengePeriod
    /\ challenge' = [challenge EXCEPT ![p].stage = "auction"]
    /\ UNCHANGED <<equityVars, now, module, position, assignedToken>>

(* Mutant: activation is only accepted at the exact end of the period. *)
ActivateOnTime(p) ==
    /\ challenge[p].stage = "challenge"
    /\ challenge[p].age = ChallengePeriod
    /\ challenge' = [challenge EXCEPT ![p].stage = "auction", ![p].age = 0]
    /\ UNCHANGED <<equityVars, now, module, position, assignedToken>>

(* activate: after the warning period anyone turns the Challenge into an   *)
(* Auction, whose clock starts.                                            *)
Activate(p) ==
    /\ challenge[p].stage = "challenge"
    /\ challenge[p].age >= ChallengePeriod
    /\ challenge' = [challenge EXCEPT ![p].stage = "auction", ![p].age = 0]
    /\ UNCHANGED <<equityVars, now, module, position, assignedToken>>

(* requireCommon: an Auction is executable only while these hold. *)
Executable(c) == c.debt > 0 /\ c.assigned <= c.debt

(* The falling price of an Auction, `elapsed` DAA after it was activated. *)
AuctionPayment(c, elapsed) ==
    LET floorPayment == FloorPayment(c.debt, c.assigned)
        value == ReferenceValue(c.collateral, LiquidationPrice)
        startPayment == IF value < floorPayment THEN floorPayment ELSE value
    IN  startPayment - ((startPayment - floorPayment) * elapsed) \div AuctionDuration

(* Mutant: the Position's assigned reserve is paid out without being burned. *)
LiquidateLeavingAssignedToken(p) ==
    /\ position' = [position EXCEPT ![p] = [@ EXCEPT !.stage = "liquidated", !.debt = 0,
                                                     !.assigned = 0, !.collateral = 0]]
    /\ challenge' = [challenge EXCEPT ![p] = NoChallenge]
    /\ UNCHANGED assignedToken

(* Both ends of an Auction leave the Position without debt or KUSD. *)
Liquidate(p) ==
    /\ position' = [position EXCEPT ![p] = [@ EXCEPT !.stage = "liquidated", !.debt = 0,
                                                     !.assigned = 0, !.collateral = 0]]
    /\ assignedToken' = [assignedToken EXCEPT ![p] = 0]
    /\ challenge' = [challenge EXCEPT ![p] = NoChallenge]

(* settle: bidder u pays the current price; the debt is burned, the        *)
(* challenger is rewarded and refunded, the surplus is the owner's.  The   *)
(* lock time, hence `elapsed`, may lag behind the chain.                   *)
Settle(p, u, elapsed) ==
    LET c == challenge[p]
        payment == AuctionPayment(c, elapsed)
        surplus == payment - FloorPayment(c.debt, c.assigned)
    IN  /\ c.stage = "auction"
        /\ SameTerms(p)
        /\ Executable(c)
        /\ elapsed \in 0..c.age /\ elapsed <= AuctionDuration
        /\ payment <= kusd[u]
        /\ assignedToken[p] = c.assigned
        /\ kusd' = Credit(Credit(Debit(kusd, u, payment), c.challenger, Reward(c.debt)),
                          position[p].owner, surplus)
        /\ kas' = Credit(Credit(kas, u, c.collateral), c.challenger, c.deposit)
        /\ Liquidate(p)
        /\ UNCHANGED <<now, module, reserve, reserveToken, feeToken, shares>>

(* backstop: after the Auction's duration the Reserve pays its floor. *)
Backstop(p) ==
    LET c == challenge[p]
    IN  /\ c.stage = "auction"
        /\ SameTerms(p)
        /\ Executable(c)
        /\ c.age >= AuctionDuration
        /\ assignedToken[p] = c.assigned
        /\ ReserveBackstop(c.challenger, c.debt, c.assigned, c.collateral)
        /\ kas' = Credit(kas, c.challenger, c.deposit)
        /\ Liquidate(p)
        /\ UNCHANGED <<now, module>>

-----------------------------------------------------------------------------

(* The chain moves on: every UTXO whose age some policy reads gets older. *)
Tick ==
    /\ now' = IF now < ExpirationDaa THEN now + 1 ELSE now
    /\ challenge' = [p \in Positions |->
           [challenge[p] EXCEPT !.age = IF challenge[p].stage \in {"challenge", "auction"}
                                           /\ @ < MaxAge
                                        THEN @ + 1 ELSE @]]
    /\ AgeShares
    /\ UNCHANGED <<module, position, assignedToken, kusd, kas, reserve, reserveToken, feeToken>>

PositionStep(p) ==
    \/ \E amount \in DebtAmounts \cup {position[p].debt} : Repay(p, amount)
    \/ Close(p)
    \/ \E u \in Users : StartChallenge(p, u)
    \/ InitChallenge(p)
    \/ \E u \in Users : Avert(p, u)
    \/ Activate(p)
    \/ \E u \in Users, elapsed \in 0..AuctionDuration : Settle(p, u, elapsed)
    \/ Backstop(p)

ModuleStep ==
    \/ \E u \in Users, debt \in DebtAmounts, collateral \in CollateralAmounts,
          lockTime \in 0..now : Open(u, debt, collateral, lockTime)
    \/ Expire

Next ==
    \/ Tick
    \/ ModuleStep
    \/ \E p \in Positions : PositionStep(p)
    \/ ReserveStep /\ UNCHANGED lendingVars
    \/ TokenStep /\ UNCHANGED lendingVars
    \/ \E u \in Users, f \in FeeSlots \ Positions, amount \in KusdAmounts :
          FundReserve(u, f, amount) /\ UNCHANGED lendingVars

Spec == Init /\ [][Next]_vars

(* The keepers' transactions need nobody's signature, and an interested    *)
(* party keeps submitting each one while it is valid: the challenger for   *)
(* init and activate, challenger and KPS holders for backstop.             *)
Keeper(p) == InitChallenge(p) \/ Activate(p) \/ Backstop(p)
FairSpec == Spec /\ WF_vars(Tick) /\ \A p \in Positions : WF_vars(Keeper(p))

-----------------------------------------------------------------------------
(* Properties *)

Debts == [p \in Positions |-> position[p].debt]
Collaterals == [p \in Positions |-> position[p].collateral]
Deposits == [p \in Positions |-> challenge[p].deposit]

(* All the KUSD there is: wallets, Positions, the Reserve and its fees. *)
Supply == SumTo(kusd, NumUsers) + SumTo(assignedToken, NumPositions)
              + SumTo(feeToken, NumFeeSlots) + reserveToken

(* All the KAS the covenants and the wallets hold between them. *)
AllKas == SumTo(kas, NumUsers) + SumTo(Collaterals, NumPositions)
              + SumTo(Deposits, NumPositions) + reserve.collateral

(* Every KUSD atom is owed by exactly one Position, through fees, partial  *)
(* repayments, rounding, auctions and backstops alike: whatever mints      *)
(* (open) or burns (repay, settle, backstop) moves both sides alike.       *)
SupplyEqualsDebt == Supply = SumTo(Debts, NumPositions)

(* No transaction creates or strands KAS: what a challenge locks and what  *)
(* a Position holds comes back to a wallet or to the Reserve in full.      *)
KasConserved == AllKas = SumTo(InitialKas, NumUsers)

(* A Position is challenged exactly while its challenge lineage lives, and *)
(* the copy the lineage carries is still the Position's state: the check   *)
(* requireSameChallenge makes at the end can therefore always succeed.     *)
FreshSnapshot(p) ==
    IF challenge[p].stage = "none"
    THEN position[p].stage # "challenged" /\ challenge[p].deposit = 0
    ELSE SameTerms(p) /\ challenge[p].deposit = position[p].collateral
SnapshotFresh == \A p \in Positions : FreshSnapshot(p)

(* A Position's own KUSD UTXO holds the assignedReserve its state books,   *)
(* which repay, settle and backstop require of the token they burn.        *)
AssignedBooked == \A p \in Positions : assignedToken[p] = position[p].assigned

(* SECURITY.md: "A Position cannot release collateral while debt is        *)
(* nonzero" and "Auction settlement burn[s] the exact full debt": when     *)
(* collateral leaves a Position, all of its debt leaves the supply with it. *)
CollateralLocked ==
    [][\A p \in Positions :
           position'[p].collateral < position[p].collateral =>
               /\ position'[p].debt = 0
               /\ Supply' = Supply - position[p].debt]_vars

(* The lending covenants implement the ledger of StableLedger: Position p  *)
(* is an account, remainingMint the capacity that is left.                 *)
Ledger == INSTANCE StableLedger
              WITH Accounts <- Positions, Capacity <- MintAllocation,
                   supply <- Supply, debts <- Debts, unused <- module.remaining
ImplementsLedger == Ledger!LedgerSpec

(* position.sil asserts assignedReserve <= debt in repay, and Auction and  *)
(* EquityReserve assert it again; a Position that breaks it can never be   *)
(* repaid, settled or backstopped.                                         *)
AssignedWithinDebt == \A p \in Positions : position[p].assigned <= position[p].debt

(* A challenged Position gets its answer: keepers bring every Challenge to *)
(* its Auction unless someone averts it.                                   *)
ChallengeProceeds ==
    \A p \in Positions :
        challenge[p].stage \in {"anchor", "challenge"}
            ~> challenge[p].stage \in {"auction", "none"}

(* ECONOMICS.md: "After the Auction duration, Reserve may backstop only if *)
(* it can pay the full floor amount. Otherwise the Auction remains open":  *)
(* nothing but a shortage of the Reserve, or a broken snapshot, keeps one. *)
AuctionResolves ==
    \A p \in Positions :
        LET c == challenge[p]
        IN  c.stage = "auction"
                ~> \/ c.stage = "none"
                   \/ reserve.kusd < FloorPayment(c.debt, c.assigned)
                   \/ ~Executable(c)
=============================================================================
