--------------------------- MODULE Lending_proofs ---------------------------
(***************************************************************************)
(* The lending covenants, for every value of the constants: types, the     *)
(* snapshots of challenges, and the refinement of StableLedger with what   *)
(* follows from it, that every KUSD atom is owed by one Position; with     *)
(* MC_Lending's observer of time, the notice an owner has; last, that the  *)
(* client builds what the covenants accept (LendingBuilt).                 *)
(***************************************************************************)
EXTENDS MC_Lending, LendingCalls, EquityReserve_proofs

(* A Position that is not opened yet is blank, its fee UTXO included: open *)
(* writes over it.                                                         *)
BlankUnlessOpened(p) ==
    p > module.opened =>
        /\ position[p] = NoPosition
        /\ challenge[p].stage = "none"
        /\ feeToken[p] = 0

PositionInv(p) ==
    /\ FreshSnapshot(p)
    /\ assignedToken[p] = position[p].assigned
    /\ BlankUnlessOpened(p)

(* The inductive invariant. *)
LendingInv == ReserveInv /\ LendingTypeOK /\ \A p \in Positions : PositionInv(p)

-----------------------------------------------------------------------------
(* Constants and amounts *)

LEMMA ConstantFacts ==
    /\ NumUsers \in Nat /\ NumFeeSlots \in Nat /\ NumPositions \in Nat
    /\ Positions \subseteq FeeSlots
    /\ MintAllocation \in Nat
    /\ ExpirationDaa \in Nat \ {0} /\ DaaPerYear \in Nat \ {0}
    /\ AuctionDuration \in Nat \ {0}
    /\ MaxAge \in Nat
BY EquityAssumption, LendingAssumption DEF Positions, FeeSlots, MaxAge

LEMMA RatesNat == ReserveContributionPpm \in Nat /\ RiskPremiumPpm \in Nat
<1>1. ReserveContributionPpm \in 0..(PPM - 1) /\ RiskPremiumPpm \in 0..PPM
    BY LendingAssumption
<1>2. PPM \in Int
    BY PpmPositive
<1>3. QED
    BY <1>1, <1>2

LEMMA ContributionNat ==
    ASSUME NEW debt \in Nat
    PROVE  Contribution(debt) \in Nat
BY RatesNat, MulPpmNat DEF Contribution

LEMMA FeeNat ==
    ASSUME NEW debt \in Nat, NEW lockTime \in Nat, lockTime < ExpirationDaa
    PROVE  MulPpm(debt, FeePpm(lockTime)) \in Nat
<1>1. RiskPremiumPpm \in Nat /\ ExpirationDaa - lockTime \in Nat
    BY RatesNat, ConstantFacts
<1>2. RiskPremiumPpm * (ExpirationDaa - lockTime) \in Nat
    BY <1>1, ProductNat
<1>3. FeePpm(lockTime) \in Nat
    BY <1>2, ConstantFacts, DivFloor DEF FeePpm
<1>4. QED
    BY <1>3, MulPpmNat

LEMMA ReferenceValueNat ==
    ASSUME NEW collateral \in Nat
    PROVE  ReferenceValue(collateral, LiquidationPrice) \in Nat
<1>1. LiquidationPrice \in Nat /\ SompiPerKas \in Nat \ {0}
    BY LendingAssumption, SMT DEF SompiPerKas
<1>2. QED
    BY <1>1, MulDivFloorBounds DEF ReferenceValue

(* The price of an Auction falls to its floor and never below, so settle's *)
(* surplus, and with it what the owner receives, is never negative.        *)
LEMMA AuctionPaymentCoversFloor ==
    ASSUME NEW c \in ChallengeStates, NEW elapsed \in Nat,
           elapsed <= AuctionDuration, c.assigned <= c.debt
    PROVE  /\ FloorPayment(c.debt, c.assigned) \in Nat
           /\ AuctionPayment(c, elapsed) \in Nat
           /\ AuctionPayment(c, elapsed) >= FloorPayment(c.debt, c.assigned)
<1> DEFINE floorPayment == FloorPayment(c.debt, c.assigned)
           value == ReferenceValue(c.collateral, LiquidationPrice)
           startPayment == IF value < floorPayment THEN floorPayment ELSE value
           range == startPayment - floorPayment
           fallen == MulDivFloor(elapsed, range, AuctionDuration)
<1>1. c.debt \in Nat /\ c.assigned \in Nat /\ c.collateral \in Nat
    BY DEF ChallengeStates
<1>2. value \in Nat /\ Reward(c.debt) \in Nat
    BY <1>1, ReferenceValueNat, RewardNat
<1>3. floorPayment \in Nat
    BY <1>1, <1>2 DEF FloorPayment
<1> HIDE DEF value, floorPayment
<1>4. startPayment \in Nat /\ range \in Nat
    BY <1>2, <1>3
<1> HIDE DEF startPayment
<1>5. fallen \in Nat /\ fallen <= range
    BY <1>4, ConstantFacts, MulDivFloorBounds
<1>6. AuctionPayment(c, elapsed) = startPayment - fallen
    <2>1. range * elapsed = elapsed * range
        BY <1>4
    <2>2. fallen = (range * elapsed) \div AuctionDuration
        BY <2>1 DEF MulDivFloor
    <2>3. QED
        BY <2>2 DEF AuctionPayment, startPayment, floorPayment, value
<1> HIDE DEF fallen
<1>7. startPayment - fallen \in Nat /\ startPayment - fallen >= floorPayment
    BY <1>3, <1>4, <1>5
<1>8. QED
    BY <1>3, <1>6, <1>7 DEF floorPayment

-----------------------------------------------------------------------------
(* Totals *)

(* The Positions' tokens. *)
LEMMA AssignedUpdate ==
    ASSUME NEW f \in [Positions -> Nat], NEW k \in Positions, NEW amount \in Nat
    PROVE  /\ [f EXCEPT ![k] = amount] \in [Positions -> Nat]
           /\ SumTo([f EXCEPT ![k] = amount], NumPositions) =
                  SumTo(f, NumPositions) + (amount - f[k])
<1> DEFINE g == [f EXCEPT ![k] = amount]
<1>1. g \in [Positions -> Nat] /\ g[k] = amount /\ \A i \in Positions : i # k => g[i] = f[i]
    OBVIOUS
<1> HIDE DEF g
<1>2. SumTo(g, NumPositions) = SumTo(f, NumPositions) + (g[k] - f[k])
    <2>1. NumPositions \in Nat /\ k \in 1..NumPositions
        BY ConstantFacts DEF Positions
    <2>2. \A i \in 1..NumPositions : f[i] \in Int /\ g[i] \in Int
        BY <1>1 DEF Positions
    <2>3. \A i \in 1..NumPositions : i # k => g[i] = f[i]
        BY <1>1 DEF Positions
    <2>4. QED
        BY <2>1, <2>2, <2>3, SumUpdate, ZenonT(60)
<1>3. QED
    BY <1>1, <1>2 DEF g

(* A step that changes one Position moves the total debt and the total     *)
(* collateral by that Position's change.                                   *)
LEMMA OnePositionTotals ==
    ASSUME position \in [Positions -> PositionStates],
           position' \in [Positions -> PositionStates],
           NEW p \in Positions,
           \A i \in Positions : i # p => position'[i] = position[i]
    PROVE  /\ Debts' = [Debts EXCEPT ![p] = position'[p].debt]
           /\ SumTo(Debts, NumPositions) \in Int
           /\ SumTo(Debts', NumPositions) =
                  SumTo(Debts, NumPositions) + (position'[p].debt - position[p].debt)
           /\ SumTo(Collaterals, NumPositions) \in Int
           /\ SumTo(Collaterals', NumPositions) =
                  SumTo(Collaterals, NumPositions)
                      + (position'[p].collateral - position[p].collateral)
<1>1. /\ Debts \in [Positions -> Int] /\ Debts' \in [Positions -> Int]
      /\ Collaterals \in [Positions -> Int] /\ Collaterals' \in [Positions -> Int]
    BY DEF Debts, Collaterals, PositionStates
<1>2. /\ Debts[p] = position[p].debt /\ Debts'[p] = position'[p].debt
      /\ Collaterals[p] = position[p].collateral /\ Collaterals'[p] = position'[p].collateral
    BY DEF Debts, Collaterals
<1>3. \A i \in Positions : i # p => Debts'[i] = Debts[i] /\ Collaterals'[i] = Collaterals[i]
    BY DEF Debts, Collaterals
<1>4. NumPositions \in Nat /\ p \in 1..NumPositions
    BY ConstantFacts DEF Positions
<1> DEFINE d == Debts
           e == Debts'
           c == Collaterals
           x == Collaterals'
<1>5. /\ d \in [1..NumPositions -> Int] /\ e \in [1..NumPositions -> Int]
      /\ c \in [1..NumPositions -> Int] /\ x \in [1..NumPositions -> Int]
      /\ \A i \in 1..NumPositions : i # p => e[i] = d[i]
      /\ \A i \in 1..NumPositions : i # p => x[i] = c[i]
    BY <1>1, <1>3 DEF Positions
<1> HIDE DEF d, e, c, x
<1>6. /\ SumTo(d, NumPositions) \in Int
      /\ SumTo(e, NumPositions) = SumTo(d, NumPositions) + (e[p] - d[p])
    <2>1. SumTo(d, NumPositions) \in Int
        BY <1>4, <1>5, SumInt
    <2>2. \A i \in 1..NumPositions : d[i] \in Int /\ e[i] \in Int
        BY <1>5
    <2>3. SumTo(e, NumPositions) = SumTo(d, NumPositions) + (e[p] - d[p])
        BY <1>4, <1>5, <2>2, SumUpdate, ZenonT(60)
    <2>4. QED
        BY <2>1, <2>3
<1>7. /\ SumTo(c, NumPositions) \in Int
      /\ SumTo(x, NumPositions) = SumTo(c, NumPositions) + (x[p] - c[p])
    <2>1. SumTo(c, NumPositions) \in Int
        BY <1>4, <1>5, SumInt
    <2>2. \A i \in 1..NumPositions : c[i] \in Int /\ x[i] \in Int
        BY <1>5
    <2>3. SumTo(x, NumPositions) = SumTo(c, NumPositions) + (x[p] - c[p])
        BY <1>4, <1>5, <2>2, SumUpdate, ZenonT(60)
    <2>4. QED
        BY <2>1, <2>3
<1>8. Debts' = [Debts EXCEPT ![p] = position'[p].debt]
    BY <1>1, <1>2, <1>3
<1>9. QED
    BY <1>2, <1>6, <1>7, <1>8 DEF d, e, c, x

LEMMA OneDepositTotal ==
    ASSUME challenge \in [Positions -> ChallengeStates],
           challenge' \in [Positions -> ChallengeStates],
           NEW p \in Positions,
           \A i \in Positions : i # p => challenge'[i] = challenge[i]
    PROVE  /\ SumTo(Deposits, NumPositions) \in Int
           /\ SumTo(Deposits', NumPositions) =
                  SumTo(Deposits, NumPositions)
                      + (challenge'[p].deposit - challenge[p].deposit)
<1>1. Deposits \in [Positions -> Int] /\ Deposits' \in [Positions -> Int]
    BY DEF Deposits, ChallengeStates
<1>2. Deposits[p] = challenge[p].deposit /\ Deposits'[p] = challenge'[p].deposit
    BY DEF Deposits
<1>3. \A i \in Positions : i # p => Deposits'[i] = Deposits[i]
    BY DEF Deposits
<1>4. NumPositions \in Nat /\ p \in 1..NumPositions
    BY ConstantFacts DEF Positions
<1> DEFINE d == Deposits
           e == Deposits'
<1>5. /\ d \in [1..NumPositions -> Int] /\ e \in [1..NumPositions -> Int]
      /\ \A i \in 1..NumPositions : i # p => e[i] = d[i]
    BY <1>1, <1>3 DEF Positions
<1> HIDE DEF d, e
<1>6. /\ SumTo(d, NumPositions) \in Int
      /\ SumTo(e, NumPositions) = SumTo(d, NumPositions) + (e[p] - d[p])
    <2>1. SumTo(d, NumPositions) \in Int
        BY <1>4, <1>5, SumInt
    <2>2. \A i \in 1..NumPositions : d[i] \in Int /\ e[i] \in Int
        BY <1>5
    <2>3. SumTo(e, NumPositions) = SumTo(d, NumPositions) + (e[p] - d[p])
        BY <1>4, <1>5, <2>2, SumUpdate, ZenonT(60)
    <2>4. QED
        BY <2>1, <2>3
<1>7. QED
    BY <1>2, <1>6 DEF d, e

(* The totals of the other tokens are integers. *)
LEMMA TokenTotals ==
    ASSUME EquityTypeOK, LendingTypeOK
    PROVE  /\ SumTo(kusd, NumUsers) \in Int /\ SumTo(kas, NumUsers) \in Int
           /\ SumTo(feeToken, NumFeeSlots) \in Int
           /\ SumTo(assignedToken, NumPositions) \in Int
           /\ reserveToken \in Nat /\ reserve.collateral \in Nat
<1>1. /\ NumUsers \in Nat /\ \A i \in 1..NumUsers : kusd[i] \in Int
      /\ \A i \in 1..NumUsers : kas[i] \in Int
    BY ConstantFacts DEF EquityTypeOK, Users
<1>2. NumFeeSlots \in Nat /\ \A i \in 1..NumFeeSlots : feeToken[i] \in Int
    BY ConstantFacts DEF EquityTypeOK, FeeSlots
<1>3. NumPositions \in Nat /\ \A i \in 1..NumPositions : assignedToken[i] \in Int
    BY ConstantFacts DEF LendingTypeOK, Positions
<1>4. reserveToken \in Nat /\ reserve.collateral \in Nat
    BY DEF EquityTypeOK, ReserveStates
<1>5. QED
    BY <1>1, <1>2, <1>3, <1>4, SumInt

-----------------------------------------------------------------------------
(* What LendingInv says, and what a step has to show to keep it *)

LEMMA LendingFacts ==
    ASSUME LendingInv
    PROVE  /\ now \in 0..ExpirationDaa
           /\ module \in ModuleStates
           /\ position \in [Positions -> PositionStates]
           /\ assignedToken \in [Positions -> Nat]
           /\ challenge \in [Positions -> ChallengeStates]
           /\ \A p \in Positions : PositionInv(p)
BY DEF LendingInv, LendingTypeOK

LEMMA PositionFacts ==
    ASSUME LendingInv, NEW p \in Positions
    PROVE  /\ position[p] \in PositionStates
           /\ position[p].owner \in Users /\ position[p].debt \in Nat
           /\ position[p].assigned \in Nat /\ position[p].collateral \in Nat
           /\ assignedToken[p] = position[p].assigned
           /\ PositionInv(p)
BY LendingFacts DEF PositionStates, PositionInv

LEMMA ChallengeFacts ==
    ASSUME LendingInv, NEW p \in Positions
    PROVE  /\ challenge[p] \in ChallengeStates
           /\ challenge[p].challenger \in Users /\ challenge[p].debt \in Nat
           /\ challenge[p].assigned \in Nat /\ challenge[p].collateral \in Nat
           /\ challenge[p].deposit \in Nat /\ challenge[p].age \in 0..MaxAge
           /\ challenge[p].stage # "none" =>
                  SameTerms(p) /\ challenge[p].deposit = position[p].collateral
           /\ challenge[p].stage = "none" =>
                  position[p].stage # "challenged" /\ challenge[p].deposit = 0
BY LendingFacts DEF ChallengeStates, PositionInv, FreshSnapshot

(* A step of wallets and fees leaves the Reserve's own books alone. *)
LEMMA WalletStepInv ==
    ASSUME ReserveInv, kusd' \in [Users -> Nat], kas' \in [Users -> Nat],
           feeToken' \in [FeeSlots -> Nat],
           UNCHANGED <<reserve, reserveToken, shares>>
    PROVE  ReserveInv'
BY ReserveFacts, ReserveInvNext

(* A step of one Position. *)
LEMMA OnePositionInv ==
    ASSUME LendingInv, ReserveInv', NEW p \in Positions,
           now' = now, module' \in ModuleStates,
           module'.opened >= module.opened,
           position' \in [Positions -> PositionStates],
           assignedToken' \in [Positions -> Nat],
           challenge' \in [Positions -> ChallengeStates],
           \A i \in Positions : i # p =>
               /\ position'[i] = position[i] /\ assignedToken'[i] = assignedToken[i]
               /\ challenge'[i] = challenge[i] /\ feeToken'[i] = feeToken[i],
           PositionInv(p)'
    PROVE  LendingInv'
<1>1. now' \in 0..ExpirationDaa
    BY LendingFacts
<1>2. ASSUME NEW i \in Positions, i # p
      PROVE  PositionInv(i)'
    <2>1. PositionInv(i)
        BY LendingFacts
    <2>2. i > module'.opened => i > module.opened
        BY LendingFacts DEF Positions, ModuleStates
    <2>3. QED
        BY <1>2, <2>1, <2>2 DEF PositionInv, FreshSnapshot, SameTerms, BlankUnlessOpened
<1>3. QED
    BY <1>1, <1>2 DEF LendingInv, LendingTypeOK

-----------------------------------------------------------------------------
(* One lemma per transaction: it keeps LendingInv, it is a step of the     *)
(* ledger (or leaves it alone), and it moves KAS without losing any.       *)

LedgerUnchanged == UNCHANGED <<Supply, Debts, module.remaining>>

(* A Position at another stage. *)
LEMMA PositionStage ==
    ASSUME NEW r \in PositionStates, NEW stage \in PositionStages,
           NEW next, next = [r EXCEPT !.stage = stage]
    PROVE  /\ next \in PositionStates /\ next.stage = stage
           /\ next.debt = r.debt /\ next.assigned = r.assigned
           /\ next.collateral = r.collateral
BY DEF PositionStates

LEMMA RepayStep ==
    ASSUME LendingInv, NEW p \in Positions, NEW amount, Repay(p, amount)
    PROVE  LendingInv' /\ Ledger!Retire(p, amount) /\ AllKas' = AllKas
<1> DEFINE burn == AssignedBurn(p, amount)
           owner == position[p].owner
<1>1. /\ position[p].stage = "active"
      /\ amount \in 1..position[p].debt
      /\ burn <= position[p].assigned
      /\ amount - burn > 0 /\ amount - burn <= kusd[owner]
      /\ position' = [position EXCEPT ![p].debt = @ - amount, ![p].assigned = @ - burn]
      /\ assignedToken' = Debit(assignedToken, p, burn)
      /\ kusd' = Debit(kusd, owner, amount - burn)
      /\ now' = now /\ module' = module /\ challenge' = challenge /\ kas' = kas
      /\ reserve' = reserve /\ reserveToken' = reserveToken
      /\ feeToken' = feeToken /\ shares' = shares
    BY DEF Repay
<1>2. amount \in Nat /\ amount <= position[p].debt
    BY <1>1, PositionFacts
<1>3. burn \in Nat
    BY <1>2, PositionFacts, ContributionNat DEF AssignedBurn
<1> HIDE DEF burn
<1>4. /\ position[p].debt - amount \in Nat /\ position[p].assigned - burn \in Nat
      /\ amount - burn \in Nat
    BY <1>1, <1>2, <1>3, PositionFacts
<1>5. position'[p] = [position[p] EXCEPT !.debt = @ - amount, !.assigned = @ - burn]
    BY <1>1, LendingFacts
<1>6. /\ position'[p] \in PositionStates
      /\ position'[p].debt = position[p].debt - amount
      /\ position'[p].assigned = position[p].assigned - burn
      /\ position'[p].collateral = position[p].collateral
      /\ position'[p].stage = "active"
    <2> DEFINE d == position[p].debt - amount
               a == position[p].assigned - burn
    <2>1. position'[p] = [position[p] EXCEPT !.debt = d, !.assigned = a]
        BY <1>5
    <2> HIDE DEF d, a
    <2>2. /\ position'[p] \in PositionStates
          /\ position'[p].debt = d /\ position'[p].assigned = a
          /\ position'[p].collateral = position[p].collateral
          /\ position'[p].stage = position[p].stage
        <3>1. d \in Nat /\ a \in Nat /\ position[p] \in PositionStates
            BY <1>4, PositionFacts DEF d, a
        <3>2. QED
            BY <2>1, <3>1 DEF PositionStates
    <2>3. QED
        BY <1>1, <2>2 DEF d, a
<1>7. /\ position' \in [Positions -> PositionStates]
      /\ \A i \in Positions : i # p => position'[i] = position[i]
    BY <1>1, <1>6, LendingFacts
<1>8. /\ assignedToken' \in [Positions -> Nat]
      /\ SumTo(assignedToken', NumPositions) = SumTo(assignedToken, NumPositions) - burn
      /\ assignedToken'[p] = position'[p].assigned
      /\ \A i \in Positions : i # p => assignedToken'[i] = assignedToken[i]
    <2> DEFINE rest == position[p].assigned - burn
    <2>1. assignedToken' = [assignedToken EXCEPT ![p] = rest]
        BY <1>1, PositionFacts DEF Debit
    <2>2. rest \in Nat /\ rest - assignedToken[p] = 0 - burn
        BY <1>3, <1>4, PositionFacts
    <2> HIDE DEF rest
    <2>3. /\ assignedToken' \in [Positions -> Nat]
          /\ SumTo(assignedToken', NumPositions) =
                 SumTo(assignedToken, NumPositions) + (rest - assignedToken[p])
        BY <2>1, <2>2, LendingFacts, AssignedUpdate
    <2>4. SumTo(assignedToken, NumPositions) \in Int
        BY TokenTotals DEF LendingInv, ReserveInv
    <2>5. SumTo(assignedToken', NumPositions) = SumTo(assignedToken, NumPositions) - burn
        BY <1>3, <2>2, <2>3, <2>4
    <2>6. QED
        BY <1>6, <2>1, <2>3, <2>5, LendingFacts DEF rest
<1>9. /\ kusd' \in [Users -> Nat]
      /\ SumTo(kusd', NumUsers) = SumTo(kusd, NumUsers) - (amount - burn)
    BY <1>1, <1>4, ReserveFacts, PositionFacts, WalletDebit DEF LendingInv
<1>10. ReserveInv'
    BY <1>1, <1>9, ReserveFacts, WalletStepInv DEF LendingInv
<1>11. PositionInv(p)'
    BY <1>1, <1>6, <1>8, PositionFacts
       DEF PositionInv, FreshSnapshot, SameTerms, BlankUnlessOpened, NoPosition
<1>12. LendingInv'
    BY <1>1, <1>7, <1>8, <1>10, <1>11, LendingFacts, OnePositionInv DEF ModuleStates
<1>13. QED
    <2>1. /\ Debts' = [Debts EXCEPT ![p] = position[p].debt - amount]
          /\ SumTo(Collaterals', NumPositions) = SumTo(Collaterals, NumPositions)
        BY <1>6, <1>7, LendingFacts, PositionFacts, OnePositionTotals
    <2>2. Debts[p] = position[p].debt
        BY DEF Debts
    <2>3. Supply' = Supply - amount
        BY <1>1, <1>2, <1>3, <1>8, <1>9, TokenTotals DEF Supply, LendingInv, ReserveInv
    <2>4. Ledger!Retire(p, amount)
        BY <1>1, <2>1, <2>2, <2>3 DEF Ledger!Retire
    <2>5. AllKas' = AllKas
        BY <1>1, <2>1 DEF AllKas, Deposits
    <2>6. QED
        BY <1>12, <2>4, <2>5

LEMMA CloseStep ==
    ASSUME LendingInv, NEW p \in Positions, Close(p)
    PROVE  LendingInv' /\ LedgerUnchanged /\ AllKas' = AllKas
<1> DEFINE owner == position[p].owner
           collateral == position[p].collateral
<1>1. /\ position[p].stage = "active" /\ position[p].debt = 0 /\ position[p].assigned = 0
      /\ position' = [position EXCEPT ![p].stage = "closed", ![p].collateral = 0]
      /\ kas' = Credit(kas, owner, collateral)
      /\ now' = now /\ module' = module /\ challenge' = challenge
      /\ assignedToken' = assignedToken /\ kusd' = kusd
      /\ reserve' = reserve /\ reserveToken' = reserveToken
      /\ feeToken' = feeToken /\ shares' = shares
    BY DEF Close
<1>2. position'[p] = [position[p] EXCEPT !.stage = "closed", !.collateral = 0]
    BY <1>1, LendingFacts
<1>3. /\ position'[p] \in PositionStates
      /\ position'[p].stage = "closed" /\ position'[p].collateral = 0
      /\ position'[p].debt = position[p].debt /\ position'[p].assigned = position[p].assigned
    <2> DEFINE r == position[p]
               next == position'[p]
               closed == "closed"
    <2>1. r \in PositionStates /\ closed \in PositionStages
        BY PositionFacts DEF PositionStages
    <2>2. next = [r EXCEPT !.stage = closed, !.collateral = 0]
        BY <1>2
    <2> HIDE DEF r, next, closed
    <2>3. /\ next \in PositionStates /\ next.stage = closed /\ next.collateral = 0
          /\ next.debt = r.debt /\ next.assigned = r.assigned
        BY <2>1, <2>2 DEF PositionStates
    <2>4. QED
        BY <2>3 DEF r, next, closed
<1>4. /\ position' \in [Positions -> PositionStates]
      /\ \A i \in Positions : i # p => position'[i] = position[i]
    BY <1>1, <1>3, LendingFacts
<1>5. /\ kas' \in [Users -> Nat]
      /\ SumTo(kas', NumUsers) = SumTo(kas, NumUsers) + collateral
    BY <1>1, ReserveFacts, PositionFacts, WalletCredit DEF LendingInv
<1>6. ReserveInv'
    BY <1>1, <1>5, ReserveFacts, WalletStepInv DEF LendingInv
<1>7. PositionInv(p)'
    BY <1>1, <1>3, PositionFacts
       DEF PositionInv, FreshSnapshot, SameTerms, BlankUnlessOpened, NoPosition
<1>8. LendingInv'
    BY <1>1, <1>4, <1>6, <1>7, LendingFacts, OnePositionInv DEF ModuleStates
<1>9. /\ Debts' = [Debts EXCEPT ![p] = position[p].debt]
      /\ SumTo(Collaterals', NumPositions) = SumTo(Collaterals, NumPositions) + (0 - collateral)
      /\ SumTo(Collaterals, NumPositions) \in Int
    BY <1>3, <1>4, LendingFacts, OnePositionTotals
<1>10. LedgerUnchanged
    BY <1>1, <1>9 DEF LedgerUnchanged, Supply, Debts
<1>11. AllKas' = AllKas
    BY <1>1, <1>5, <1>9, PositionFacts, TokenTotals DEF AllKas, Deposits, LendingInv, ReserveInv
<1>12. QED
    BY <1>8, <1>10, <1>11

LEMMA StartChallengeStep ==
    ASSUME LendingInv, NEW p \in Positions, NEW u \in Users, StartChallenge(p, u)
    PROVE  LendingInv' /\ LedgerUnchanged /\ AllKas' = AllKas
<1> DEFINE deposit == position[p].collateral
           anchor == [stage |-> "anchor", challenger |-> u, debt |-> position[p].debt,
                      assigned |-> position[p].assigned, collateral |-> position[p].collateral,
                      deposit |-> deposit, age |-> 0]
<1>1. /\ position[p].stage = "active" /\ deposit <= kas[u]
      /\ position' = [position EXCEPT ![p].stage = "challenged"]
      /\ challenge' = [challenge EXCEPT ![p] = anchor]
      /\ kas' = Debit(kas, u, deposit)
      /\ now' = now /\ module' = module /\ assignedToken' = assignedToken /\ kusd' = kusd
      /\ reserve' = reserve /\ reserveToken' = reserveToken
      /\ feeToken' = feeToken /\ shares' = shares
    BY DEF StartChallenge
<1>2. position'[p] = [position[p] EXCEPT !.stage = "challenged"]
    BY <1>1, LendingFacts
<1>3. /\ position'[p] \in PositionStates /\ position'[p].stage = "challenged"
      /\ position'[p].debt = position[p].debt /\ position'[p].assigned = position[p].assigned
      /\ position'[p].collateral = position[p].collateral
    <2>1. position[p] \in PositionStates /\ "challenged" \in PositionStages
        BY PositionFacts DEF PositionStages
    <2>2. QED
        BY <1>2, <2>1, PositionStage
<1>4. /\ position' \in [Positions -> PositionStates]
      /\ \A i \in Positions : i # p => position'[i] = position[i]
    BY <1>1, <1>3, LendingFacts
<1>5. anchor \in ChallengeStates
    BY PositionFacts, ConstantFacts DEF ChallengeStates, ChallengeStages
<1>6. /\ challenge' \in [Positions -> ChallengeStates]
      /\ challenge'[p] = anchor
      /\ \A i \in Positions : i # p => challenge'[i] = challenge[i]
    BY <1>1, <1>5, LendingFacts
<1>7. /\ kas' \in [Users -> Nat]
      /\ SumTo(kas', NumUsers) = SumTo(kas, NumUsers) - deposit
    BY <1>1, ReserveFacts, PositionFacts, WalletDebit DEF LendingInv
<1>8. ReserveInv'
    BY <1>1, <1>7, ReserveFacts, WalletStepInv DEF LendingInv
<1>9. PositionInv(p)'
    BY <1>1, <1>3, <1>6, PositionFacts
       DEF PositionInv, FreshSnapshot, SameTerms, BlankUnlessOpened, NoPosition
<1>10. LendingInv'
    BY <1>1, <1>4, <1>6, <1>8, <1>9, LendingFacts, OnePositionInv DEF ModuleStates
<1>11. /\ Debts' = [Debts EXCEPT ![p] = position[p].debt]
       /\ SumTo(Collaterals', NumPositions) = SumTo(Collaterals, NumPositions)
    BY <1>3, <1>4, LendingFacts, PositionFacts, OnePositionTotals
<1>12. LedgerUnchanged
    BY <1>1, <1>11 DEF LedgerUnchanged, Supply, Debts
<1>13. AllKas' = AllKas
    <2>1. challenge[p].deposit = 0
        BY <1>1, ChallengeFacts DEF SameTerms
    <2>2. /\ SumTo(Deposits', NumPositions) = SumTo(Deposits, NumPositions) + (deposit - 0)
          /\ SumTo(Deposits, NumPositions) \in Int
        BY <1>6, <2>1, LendingFacts, OneDepositTotal
    <2>3. SumTo(Collaterals, NumPositions) \in Int
        BY <1>4, LendingFacts, OnePositionTotals
    <2>4. QED
        BY <1>1, <1>7, <1>11, <2>2, <2>3, PositionFacts, TokenTotals
           DEF AllKas, LendingInv, ReserveInv
<1>14. QED
    BY <1>10, <1>12, <1>13

(* init and activate: the lineage moves on and starts a new age. *)
LEMMA NextStageStep ==
    ASSUME LendingInv, NEW p \in Positions, NEW stage \in {"challenge", "auction"},
           challenge[p].stage # "none",
           challenge' = [challenge EXCEPT ![p].stage = stage, ![p].age = 0],
           UNCHANGED <<equityVars, now, module, position, assignedToken>>
    PROVE  LendingInv' /\ LedgerUnchanged /\ AllKas' = AllKas
<1>1. /\ now' = now /\ module' = module /\ position' = position
      /\ assignedToken' = assignedToken /\ kusd' = kusd /\ kas' = kas
      /\ reserve' = reserve /\ reserveToken' = reserveToken
      /\ feeToken' = feeToken /\ shares' = shares
    BY DEF equityVars
<1>2. /\ challenge'[p] \in ChallengeStates /\ challenge'[p].stage = stage
      /\ challenge'[p].debt = challenge[p].debt
      /\ challenge'[p].assigned = challenge[p].assigned
      /\ challenge'[p].collateral = challenge[p].collateral
      /\ challenge'[p].deposit = challenge[p].deposit
    <2> DEFINE c == challenge[p]
               next == challenge'[p]
    <2>1. c \in ChallengeStates /\ stage \in ChallengeStages /\ 0 \in 0..MaxAge
        BY ChallengeFacts, ConstantFacts DEF ChallengeStages
    <2>2. next = [c EXCEPT !.stage = stage, !.age = 0]
        BY LendingFacts
    <2> HIDE DEF c, next
    <2>3. /\ next \in ChallengeStates /\ next.stage = stage /\ next.debt = c.debt
          /\ next.assigned = c.assigned /\ next.collateral = c.collateral
          /\ next.deposit = c.deposit
        BY <2>1, <2>2 DEF ChallengeStates
    <2>4. QED
        BY <2>3 DEF c, next
<1>3. /\ challenge' \in [Positions -> ChallengeStates]
      /\ \A i \in Positions : i # p => challenge'[i] = challenge[i]
    BY <1>2, LendingFacts
<1>4. ReserveInv'
    BY ReserveStutter DEF LendingInv
<1>5. PositionInv(p)'
    BY <1>1, <1>2, PositionFacts, ChallengeFacts
       DEF PositionInv, FreshSnapshot, SameTerms, BlankUnlessOpened
<1>6. LendingInv'
    BY <1>1, <1>3, <1>4, <1>5, LendingFacts, OnePositionInv DEF ModuleStates
<1>7. LedgerUnchanged
    BY <1>1 DEF LedgerUnchanged, Supply, Debts
<1>8. AllKas' = AllKas
    <2>1. /\ SumTo(Deposits, NumPositions) \in Int
          /\ SumTo(Deposits', NumPositions) =
                 SumTo(Deposits, NumPositions)
                     + (challenge'[p].deposit - challenge[p].deposit)
        BY <1>3, LendingFacts, OneDepositTotal
    <2>2. SumTo(Deposits', NumPositions) = SumTo(Deposits, NumPositions)
        BY <1>2, <2>1, ChallengeFacts
    <2>3. QED
        BY <1>1, <2>2 DEF AllKas, Collaterals
<1>9. QED
    BY <1>6, <1>7, <1>8

LEMMA InitChallengeStep ==
    ASSUME LendingInv, NEW p \in Positions, InitChallenge(p)
    PROVE  LendingInv' /\ LedgerUnchanged /\ AllKas' = AllKas
BY NextStageStep DEF InitChallenge

LEMMA ActivateStep ==
    ASSUME LendingInv, NEW p \in Positions, Activate(p)
    PROVE  LendingInv' /\ LedgerUnchanged /\ AllKas' = AllKas
BY NextStageStep DEF Activate

(* The end of a challenge: its lineage disappears with the deposit. *)
LEMMA ChallengeEnds ==
    ASSUME LendingInv, NEW p \in Positions,
           challenge' = [challenge EXCEPT ![p] = NoChallenge]
    PROVE  /\ challenge' \in [Positions -> ChallengeStates]
           /\ challenge'[p] = NoChallenge
           /\ \A i \in Positions : i # p => challenge'[i] = challenge[i]
           /\ SumTo(Deposits', NumPositions) =
                  SumTo(Deposits, NumPositions) - challenge[p].deposit
           /\ SumTo(Deposits, NumPositions) \in Int
<1>1. NoChallenge \in ChallengeStates /\ NoChallenge.deposit = 0
    BY ConstantFacts, EquityAssumption DEF NoChallenge, ChallengeStates, ChallengeStages, Users
<1>2. /\ challenge' \in [Positions -> ChallengeStates]
      /\ challenge'[p] = NoChallenge
      /\ \A i \in Positions : i # p => challenge'[i] = challenge[i]
    BY <1>1, LendingFacts
<1>3. /\ SumTo(Deposits', NumPositions) =
             SumTo(Deposits, NumPositions) + (0 - challenge[p].deposit)
      /\ SumTo(Deposits, NumPositions) \in Int
    BY <1>1, <1>2, LendingFacts, OneDepositTotal
<1>4. QED
    BY <1>2, <1>3, ChallengeFacts

LEMMA AvertStep ==
    ASSUME LendingInv, NEW p \in Positions, NEW u \in Users, Avert(p, u)
    PROVE  LendingInv' /\ LedgerUnchanged /\ AllKas' = AllKas
<1> DEFINE price == ReferenceValue(challenge[p].collateral, LiquidationPrice)
           challenger == challenge[p].challenger
           deposit == challenge[p].deposit
<1>1. /\ challenge[p].stage = "challenge" /\ price <= kusd[u]
      /\ kusd' = Credit(Debit(kusd, u, price), challenger, price)
      /\ kas' = Credit(kas, u, deposit)
      /\ position' = [position EXCEPT ![p].stage = "active"]
      /\ challenge' = [challenge EXCEPT ![p] = NoChallenge]
      /\ now' = now /\ module' = module /\ assignedToken' = assignedToken
      /\ reserve' = reserve /\ reserveToken' = reserveToken
      /\ feeToken' = feeToken /\ shares' = shares
    BY DEF Avert
<1>2. price \in Nat /\ deposit \in Nat /\ challenger \in Users
    BY ChallengeFacts, ReferenceValueNat
<1> HIDE DEF price
<1>3. position'[p] = [position[p] EXCEPT !.stage = "active"]
    BY <1>1, LendingFacts
<1>4. /\ position'[p] \in PositionStates /\ position'[p].stage = "active"
      /\ position'[p].debt = position[p].debt /\ position'[p].assigned = position[p].assigned
      /\ position'[p].collateral = position[p].collateral
    <2>1. position[p] \in PositionStates /\ "active" \in PositionStages
        BY PositionFacts DEF PositionStages
    <2>2. QED
        BY <1>3, <2>1, PositionStage
<1>5. /\ position' \in [Positions -> PositionStates]
      /\ \A i \in Positions : i # p => position'[i] = position[i]
    BY <1>1, <1>4, LendingFacts
<1>6. /\ challenge' \in [Positions -> ChallengeStates]
      /\ challenge'[p] = NoChallenge
      /\ \A i \in Positions : i # p => challenge'[i] = challenge[i]
      /\ SumTo(Deposits', NumPositions) = SumTo(Deposits, NumPositions) - deposit
      /\ SumTo(Deposits, NumPositions) \in Int
    BY <1>1, ChallengeEnds
<1>7. /\ Debit(kusd, u, price) \in [Users -> Nat]
      /\ SumTo(Debit(kusd, u, price), NumUsers) = SumTo(kusd, NumUsers) - price
    BY <1>1, <1>2, ReserveFacts, WalletDebit DEF LendingInv
<1>8. /\ kusd' \in [Users -> Nat]
      /\ SumTo(kusd', NumUsers) = SumTo(kusd, NumUsers) - price + price
    BY <1>1, <1>2, <1>7, WalletCredit
<1>9. /\ kas' \in [Users -> Nat]
      /\ SumTo(kas', NumUsers) = SumTo(kas, NumUsers) + deposit
    BY <1>1, <1>2, ReserveFacts, WalletCredit DEF LendingInv
<1>10. ReserveInv'
    BY <1>1, <1>8, <1>9, ReserveFacts, WalletStepInv DEF LendingInv
<1>11. PositionInv(p)'
    BY <1>1, <1>4, <1>6, PositionFacts
       DEF PositionInv, FreshSnapshot, SameTerms, BlankUnlessOpened, NoChallenge
<1>12. LendingInv'
    BY <1>1, <1>5, <1>6, <1>10, <1>11, LendingFacts, OnePositionInv DEF ModuleStates
<1>13. /\ Debts' = [Debts EXCEPT ![p] = position[p].debt]
       /\ SumTo(Collaterals', NumPositions) = SumTo(Collaterals, NumPositions)
       /\ SumTo(Collaterals, NumPositions) \in Int
    BY <1>4, <1>5, LendingFacts, PositionFacts, OnePositionTotals
<1>14. Supply' = Supply
    BY <1>1, <1>2, <1>8, TokenTotals DEF Supply, LendingInv, ReserveInv
<1>15. LedgerUnchanged
    BY <1>1, <1>13, <1>14 DEF LedgerUnchanged, Debts
<1>16. AllKas' = AllKas
    BY <1>1, <1>2, <1>6, <1>9, <1>13, TokenTotals DEF AllKas, LendingInv, ReserveInv
<1>17. QED
    BY <1>12, <1>15, <1>16

(* The end of a Position: its books and its token are emptied together. *)
LEMMA LiquidateFacts ==
    ASSUME LendingInv, NEW p \in Positions, Liquidate(p)
    PROVE  /\ position' \in [Positions -> PositionStates]
           /\ position'[p].stage = "liquidated" /\ position'[p].debt = 0
           /\ position'[p].assigned = 0 /\ position'[p].collateral = 0
           /\ \A i \in Positions : i # p => position'[i] = position[i]
           /\ Debts' = [Debts EXCEPT ![p] = 0]
           /\ SumTo(Collaterals, NumPositions) \in Int
           /\ SumTo(Collaterals', NumPositions) =
                  SumTo(Collaterals, NumPositions) - position[p].collateral
           /\ assignedToken' \in [Positions -> Nat]
           /\ assignedToken'[p] = 0
           /\ \A i \in Positions : i # p => assignedToken'[i] = assignedToken[i]
           /\ SumTo(assignedToken', NumPositions) =
                  SumTo(assignedToken, NumPositions) - position[p].assigned
           /\ challenge' = [challenge EXCEPT ![p] = NoChallenge]
<1> DEFINE r == position[p]
           next == position'[p]
           liquidated == "liquidated"
<1>1. r \in PositionStates /\ liquidated \in PositionStages
    BY PositionFacts DEF PositionStages
<1>2. next = [r EXCEPT !.stage = liquidated, !.debt = 0, !.assigned = 0, !.collateral = 0]
    BY LendingFacts DEF Liquidate
<1>3. /\ next \in PositionStates /\ next.stage = liquidated /\ next.debt = 0
      /\ next.assigned = 0 /\ next.collateral = 0
    <2> HIDE DEF r, next, liquidated
    <2>1. QED
        BY <1>1, <1>2 DEF PositionStates
<1> HIDE DEF r
<1>4. /\ position' \in [Positions -> PositionStates]
      /\ \A i \in Positions : i # p => position'[i] = position[i]
    BY <1>3, LendingFacts DEF Liquidate
<1>5. /\ Debts' = [Debts EXCEPT ![p] = 0]
      /\ SumTo(Collaterals, NumPositions) \in Int
      /\ SumTo(Collaterals', NumPositions) =
             SumTo(Collaterals, NumPositions) + (0 - position[p].collateral)
    BY <1>3, <1>4, LendingFacts, OnePositionTotals
<1>6. /\ assignedToken' = [assignedToken EXCEPT ![p] = 0]
      /\ challenge' = [challenge EXCEPT ![p] = NoChallenge]
    BY DEF Liquidate
<1>7. /\ assignedToken' \in [Positions -> Nat]
      /\ SumTo(assignedToken', NumPositions) =
             SumTo(assignedToken, NumPositions) + (0 - assignedToken[p])
    BY <1>6, LendingFacts, AssignedUpdate
<1>8. /\ assignedToken'[p] = 0
      /\ \A i \in Positions : i # p => assignedToken'[i] = assignedToken[i]
    BY <1>6, LendingFacts
<1>9. /\ SumTo(Collaterals', NumPositions) =
             SumTo(Collaterals, NumPositions) - position[p].collateral
      /\ SumTo(assignedToken', NumPositions) =
             SumTo(assignedToken, NumPositions) - position[p].assigned
    BY <1>5, <1>7, PositionFacts, TokenTotals DEF LendingInv, ReserveInv
<1>10. QED
    BY <1>3, <1>4, <1>5, <1>6, <1>7, <1>8, <1>9

(* Liquidation keeps every other Position, so it is enough to keep the     *)
(* Reserve.                                                                *)
LEMMA LiquidateInv ==
    ASSUME LendingInv, NEW p \in Positions, Liquidate(p), ReserveInv',
           challenge[p].stage # "none",
           UNCHANGED <<now, module, feeToken>>
    PROVE  LendingInv'
<1>1. /\ position' \in [Positions -> PositionStates]
      /\ position'[p].stage = "liquidated" /\ position'[p].assigned = 0
      /\ assignedToken' \in [Positions -> Nat] /\ assignedToken'[p] = 0
      /\ \A i \in Positions : i # p =>
             position'[i] = position[i] /\ assignedToken'[i] = assignedToken[i]
      /\ challenge' = [challenge EXCEPT ![p] = NoChallenge]
    BY LiquidateFacts
<1>2. /\ challenge' \in [Positions -> ChallengeStates] /\ challenge'[p] = NoChallenge
      /\ \A i \in Positions : i # p => challenge'[i] = challenge[i]
    BY <1>1, ChallengeEnds
<1>3. PositionInv(p)'
    BY <1>1, <1>2, PositionFacts
       DEF PositionInv, FreshSnapshot, SameTerms, BlankUnlessOpened, NoChallenge
<1>4. QED
    BY <1>1, <1>2, <1>3, LendingFacts, OnePositionInv DEF ModuleStates

LEMMA SettleStep ==
    ASSUME LendingInv, NEW p \in Positions, NEW u \in Users,
           NEW elapsed \in 0..AuctionDuration, Settle(p, u, elapsed)
    PROVE  LendingInv' /\ Ledger!Retire(p, position[p].debt) /\ AllKas' = AllKas
<1> DEFINE c == challenge[p]
           debt == c.debt
           assigned == c.assigned
           collateral == c.collateral
           deposit == c.deposit
           challenger == c.challenger
           owner == position[p].owner
           payment == AuctionPayment(c, elapsed)
           floorPayment == FloorPayment(debt, assigned)
           reward == Reward(debt)
           surplus == payment - floorPayment
           bidderPaid == Debit(kusd, u, payment)
           rewarded == Credit(bidderPaid, challenger, reward)
           collected == Credit(kas, u, collateral)
<1>1. /\ c.stage = "auction" /\ debt > 0 /\ assigned <= debt
      /\ debt = position[p].debt /\ assigned = position[p].assigned
      /\ collateral = position[p].collateral
      /\ payment <= kusd[u]
      /\ kusd' = Credit(rewarded, owner, surplus)
      /\ kas' = Credit(collected, challenger, deposit)
      /\ Liquidate(p)
      /\ now' = now /\ module' = module /\ reserve' = reserve
      /\ reserveToken' = reserveToken /\ feeToken' = feeToken /\ shares' = shares
    BY DEF Settle, Executable, SameTerms
<1>2. /\ c \in ChallengeStates /\ challenger \in Users /\ owner \in Users
      /\ debt \in Nat /\ assigned \in Nat /\ collateral \in Nat /\ deposit \in Nat
    BY ChallengeFacts, PositionFacts
<1>3. reward \in Nat /\ floorPayment = debt - assigned + reward
    BY <1>2, RewardNat DEF FloorPayment
<1>4. payment \in Nat /\ payment >= floorPayment /\ floorPayment \in Nat
    BY <1>1, <1>2, ConstantFacts, AuctionPaymentCoversFloor
<1> HIDE DEF debt, assigned, collateral, deposit, challenger, owner, payment, floorPayment,
             reward
<1>5. surplus \in Nat /\ surplus = payment - floorPayment
    BY <1>4
<1> HIDE DEF surplus
<1>6. /\ bidderPaid \in [Users -> Nat]
      /\ SumTo(bidderPaid, NumUsers) = SumTo(kusd, NumUsers) - payment
    BY <1>1, <1>4, ReserveFacts, WalletDebit DEF LendingInv
<1> HIDE DEF bidderPaid
<1>7. /\ rewarded \in [Users -> Nat]
      /\ SumTo(rewarded, NumUsers) = SumTo(kusd, NumUsers) - payment + reward
    <2>1. SumTo(rewarded, NumUsers) = SumTo(bidderPaid, NumUsers) + reward
        BY <1>2, <1>3, <1>6, WalletCredit
    <2>2. QED
        BY <1>2, <1>3, <1>6, <2>1, WalletCredit
<1> HIDE DEF rewarded
<1>8. /\ kusd' \in [Users -> Nat]
      /\ SumTo(kusd', NumUsers) = SumTo(kusd, NumUsers) - payment + reward + surplus
    BY <1>1, <1>2, <1>5, <1>7, WalletCredit
<1>9. /\ collected \in [Users -> Nat]
      /\ SumTo(collected, NumUsers) = SumTo(kas, NumUsers) + collateral
    BY <1>2, ReserveFacts, WalletCredit DEF LendingInv
<1> HIDE DEF collected
<1>10. /\ kas' \in [Users -> Nat]
       /\ SumTo(kas', NumUsers) = SumTo(kas, NumUsers) + collateral + deposit
    <2>1. /\ Credit(collected, challenger, deposit) \in [Users -> Nat]
          /\ SumTo(Credit(collected, challenger, deposit), NumUsers) =
                 SumTo(collected, NumUsers) + deposit
        BY <1>2, <1>9, WalletCredit
    <2>2. QED
        BY <1>1, <1>9, <2>1
<1>11. ReserveInv'
    BY <1>1, <1>8, <1>10, ReserveFacts, WalletStepInv DEF LendingInv
<1>12. LendingInv'
    BY <1>1, <1>11, LiquidateInv
<1>13. /\ Debts' = [Debts EXCEPT ![p] = 0]
       /\ SumTo(Collaterals, NumPositions) \in Int
       /\ SumTo(Collaterals', NumPositions) = SumTo(Collaterals, NumPositions) - collateral
       /\ SumTo(assignedToken', NumPositions) = SumTo(assignedToken, NumPositions) - assigned
       /\ challenge' = [challenge EXCEPT ![p] = NoChallenge]
    BY <1>1, LiquidateFacts
<1>14. /\ SumTo(Deposits', NumPositions) = SumTo(Deposits, NumPositions) - deposit
       /\ SumTo(Deposits, NumPositions) \in Int
    BY <1>13, ChallengeEnds DEF deposit
<1>15. /\ SumTo(kusd, NumUsers) \in Int /\ SumTo(kas, NumUsers) \in Int
       /\ SumTo(feeToken, NumFeeSlots) \in Int
       /\ SumTo(assignedToken, NumPositions) \in Int
       /\ reserveToken \in Nat /\ reserve.collateral \in Nat
    BY TokenTotals DEF LendingInv, ReserveInv
<1>16. Supply' = Supply - debt
    <2>1. SumTo(kusd', NumUsers) = SumTo(kusd, NumUsers) - (debt - assigned)
        BY <1>2, <1>3, <1>4, <1>5, <1>8, <1>15
    <2>2. QED
        BY <1>1, <1>2, <1>13, <1>15, <2>1 DEF Supply
<1>17. Ledger!Retire(p, position[p].debt)
    <2>1. Debts[p] = debt
        BY <1>1 DEF Debts
    <2>2. Debts[p] - debt = 0
        BY <1>2, <2>1
    <2>3. Debts' = [Debts EXCEPT ![p] = @ - debt]
        BY <1>13, <2>2
    <2>4. QED
        BY <1>1, <1>2, <1>16, <2>1, <2>3 DEF Ledger!Retire
<1>18. AllKas' = AllKas
    BY <1>1, <1>2, <1>10, <1>13, <1>14, <1>15 DEF AllKas
<1>19. QED
    BY <1>12, <1>17, <1>18

LEMMA BackstopStep ==
    ASSUME LendingInv, NEW p \in Positions, Backstop(p)
    PROVE  LendingInv' /\ Ledger!Retire(p, position[p].debt) /\ AllKas' = AllKas
<1> DEFINE c == challenge[p]
           debt == c.debt
           assigned == c.assigned
           collateral == c.collateral
           deposit == c.deposit
           challenger == c.challenger
           payment == FloorPayment(debt, assigned)
           reward == Reward(debt)
<1>1. /\ c.stage = "auction" /\ debt > 0 /\ assigned <= debt
      /\ debt = position[p].debt /\ assigned = position[p].assigned
      /\ collateral = position[p].collateral
      /\ ReserveBackstop(challenger, debt, assigned, collateral)
      /\ kas' = Credit(kas, challenger, deposit)
      /\ Liquidate(p) /\ now' = now /\ module' = module
    BY DEF Backstop, Executable, SameTerms
<1>2. /\ challenger \in Users /\ debt \in Nat /\ assigned \in Nat
      /\ collateral \in Nat /\ deposit \in Nat
    BY ChallengeFacts
<1>3. reward \in Nat /\ payment = debt - assigned + reward
    BY <1>2, RewardNat DEF FloorPayment
<1>4. payment \in Nat
    BY <1>1, <1>2, <1>3
<1>5. /\ reserve' = [reserve EXCEPT !.kusd = @ - payment, !.collateral = @ + collateral]
      /\ reserveToken' = reserveToken - payment
      /\ kusd' = Credit(kusd, challenger, reward)
      /\ feeToken' = feeToken /\ shares' = shares
    BY <1>1 DEF ReserveBackstop
<1> HIDE DEF debt, assigned, collateral, deposit, challenger, payment, reward
<1>6. SumTo(kusd', NumUsers) = SumTo(kusd, NumUsers) + reward
    BY <1>2, <1>3, <1>5, ReserveFacts, WalletCredit DEF LendingInv
<1>7. /\ kas' \in [Users -> Nat]
      /\ SumTo(kas', NumUsers) = SumTo(kas, NumUsers) + deposit
    BY <1>1, <1>2, ReserveFacts, WalletCredit DEF LendingInv
<1>8. ReserveInv'
    BY <1>1, <1>2, <1>7, ReserveBackstopInv DEF LendingInv
<1>9. reserve'.collateral = reserve.collateral + collateral
    BY <1>5, ReserveFacts DEF LendingInv, ReserveStates
<1>10. LendingInv'
    BY <1>1, <1>5, <1>8, LiquidateInv
<1>11. /\ Debts' = [Debts EXCEPT ![p] = 0]
       /\ SumTo(Collaterals, NumPositions) \in Int
       /\ SumTo(Collaterals', NumPositions) = SumTo(Collaterals, NumPositions) - collateral
       /\ SumTo(assignedToken', NumPositions) = SumTo(assignedToken, NumPositions) - assigned
       /\ challenge' = [challenge EXCEPT ![p] = NoChallenge]
    BY <1>1, LiquidateFacts
<1>12. /\ SumTo(Deposits', NumPositions) = SumTo(Deposits, NumPositions) - deposit
       /\ SumTo(Deposits, NumPositions) \in Int
    BY <1>11, ChallengeEnds DEF deposit
<1>13. /\ SumTo(kusd, NumUsers) \in Int /\ SumTo(kas, NumUsers) \in Int
       /\ SumTo(feeToken, NumFeeSlots) \in Int
       /\ SumTo(assignedToken, NumPositions) \in Int
       /\ reserveToken \in Nat /\ reserve.collateral \in Nat
    BY TokenTotals DEF LendingInv, ReserveInv
<1>14. Supply' = Supply - debt
    <2>1. reserveToken' = reserveToken - (debt - assigned) - reward
        BY <1>2, <1>3, <1>5, <1>13
    <2>2. QED
        BY <1>2, <1>3, <1>5, <1>6, <1>11, <1>13, <2>1 DEF Supply
<1>15. Ledger!Retire(p, position[p].debt)
    <2>1. Debts[p] = debt
        BY <1>1 DEF Debts
    <2>2. Debts[p] - debt = 0
        BY <1>2, <2>1
    <2>3. Debts' = [Debts EXCEPT ![p] = @ - debt]
        BY <1>11, <2>2
    <2>4. QED
        BY <1>1, <1>2, <1>14, <2>1, <2>3 DEF Ledger!Retire
<1>16. AllKas' = AllKas
    BY <1>2, <1>7, <1>9, <1>11, <1>12, <1>13 DEF AllKas
<1>17. QED
    BY <1>10, <1>15, <1>16

LEMMA OpenPosition ==
    ASSUME LendingInv, NEW u \in Users, NEW debt, NEW collateral, NEW lockTime,
           NEW p \in Positions, p = module.opened + 1,
           Open(u, debt, collateral, lockTime)
    PROVE  LendingInv' /\ Ledger!Mint(p, debt) /\ AllKas' = AllKas
<1> DEFINE fee == MulPpm(debt, FeePpm(lockTime))
           contribution == Contribution(debt)
           usable == debt - contribution - fee
           opened == [stage |-> "active", owner |-> u, debt |-> debt,
                      assigned |-> contribution, collateral |-> collateral]
<1>1. /\ debt \in 1..MaxDebtPerPosition /\ debt <= module.remaining
      /\ lockTime \in module.since..now /\ lockTime < ExpirationDaa /\ usable > 0
      /\ collateral \in MinimumCollateral..kas[u]
      /\ module' = [module EXCEPT !.remaining = @ - debt, !.opened = p, !.since = now]
      /\ position' = [position EXCEPT ![p] = opened]
      /\ assignedToken' = [assignedToken EXCEPT ![p] = contribution]
      /\ feeToken' = [feeToken EXCEPT ![p] = fee]
      /\ kusd' = Credit(kusd, u, usable)
      /\ kas' = Debit(kas, u, collateral)
      /\ now' = now /\ challenge' = challenge /\ reserve' = reserve
      /\ reserveToken' = reserveToken /\ shares' = shares
    BY DEF Open
<1>2. /\ module.remaining \in Nat /\ module.opened \in 0..NumPositions
      /\ module.open \in BOOLEAN /\ module.since \in Nat /\ now \in Nat
    BY LendingFacts, ConstantFacts DEF ModuleStates
<1>3. /\ debt \in Nat /\ debt > 0
      /\ collateral \in Nat /\ collateral <= kas[u] /\ lockTime \in Nat
    BY <1>1, <1>2, ReserveFacts, LendingAssumption DEF LendingInv
<1>4. fee \in Nat /\ contribution \in Nat
    BY <1>1, <1>3, FeeNat, ContributionNat
<1>5. p > module.opened /\ p \in FeeSlots /\ p \in 0..NumPositions
    BY <1>1, <1>2, ConstantFacts DEF Positions
<1>6. position[p] = NoPosition /\ challenge[p].stage = "none" /\ feeToken[p] = 0
    BY <1>1, <1>5, PositionFacts DEF PositionInv, BlankUnlessOpened
<1>7. assignedToken[p] = 0
    BY <1>1, <1>6, PositionFacts DEF NoPosition
<1> HIDE DEF fee, contribution
<1>8. usable \in Nat /\ usable = debt - contribution - fee
    BY <1>1, <1>3, <1>4
<1> HIDE DEF usable
<1>9. /\ module' \in ModuleStates /\ module'.opened = p
      /\ module'.remaining = module.remaining - debt
    <2> DEFINE rest == module.remaining - debt
    <2>1. rest \in Nat /\ module \in ModuleStates
        BY <1>1, <1>2, <1>3, LendingFacts
    <2>2. module' = [module EXCEPT !.remaining = rest, !.opened = p, !.since = now]
        BY <1>1
    <2> HIDE DEF rest
    <2>3. module' \in ModuleStates /\ module'.opened = p /\ module'.remaining = rest
        BY <1>2, <1>5, <2>1, <2>2 DEF ModuleStates
    <2>4. QED
        BY <2>3 DEF rest
<1>10. opened \in PositionStates
    BY <1>3, <1>4 DEF PositionStates, PositionStages
<1>11. /\ position' \in [Positions -> PositionStates] /\ position'[p] = opened
       /\ \A i \in Positions : i # p => position'[i] = position[i]
    BY <1>1, <1>10, LendingFacts
<1>12. /\ assignedToken' \in [Positions -> Nat] /\ assignedToken'[p] = contribution
       /\ \A i \in Positions : i # p => assignedToken'[i] = assignedToken[i]
       /\ SumTo(assignedToken', NumPositions) = SumTo(assignedToken, NumPositions) + contribution
    <2>1. /\ assignedToken' \in [Positions -> Nat]
          /\ SumTo(assignedToken', NumPositions) =
                 SumTo(assignedToken, NumPositions) + (contribution - assignedToken[p])
        BY <1>1, <1>4, LendingFacts, AssignedUpdate
    <2>2. SumTo(assignedToken, NumPositions) \in Int
        BY TokenTotals DEF LendingInv, ReserveInv
    <2>3. QED
        BY <1>1, <1>4, <1>7, <2>1, <2>2, LendingFacts
<1>13. /\ feeToken' \in [FeeSlots -> Nat]
       /\ \A i \in Positions : i # p => feeToken'[i] = feeToken[i]
       /\ SumTo(feeToken', NumFeeSlots) = SumTo(feeToken, NumFeeSlots) + fee
    <2>1. /\ feeToken' \in [FeeSlots -> Nat]
          /\ SumTo(feeToken', NumFeeSlots) =
                 SumTo(feeToken, NumFeeSlots) + (fee - feeToken[p])
        BY <1>1, <1>4, <1>5, ReserveFacts, FeeUpdate DEF LendingInv
    <2>2. SumTo(feeToken, NumFeeSlots) \in Int
        BY TokenTotals DEF LendingInv, ReserveInv
    <2>3. \A i \in Positions : i # p => feeToken'[i] = feeToken[i]
        BY <1>1, ConstantFacts, ReserveFacts DEF LendingInv
    <2>4. QED
        BY <1>4, <1>6, <2>1, <2>2, <2>3
<1>14. /\ kusd' \in [Users -> Nat]
       /\ SumTo(kusd', NumUsers) = SumTo(kusd, NumUsers) + usable
    BY <1>1, <1>8, ReserveFacts, WalletCredit DEF LendingInv
<1>15. /\ kas' \in [Users -> Nat]
       /\ SumTo(kas', NumUsers) = SumTo(kas, NumUsers) - collateral
    BY <1>1, <1>3, ReserveFacts, WalletDebit DEF LendingInv
<1>16. ReserveInv'
    BY <1>1, <1>13, <1>14, <1>15, ReserveFacts, WalletStepInv DEF LendingInv
<1>17. PositionInv(p)'
    <2>1. ~(p > p)
        BY <1>5
    <2>2. FreshSnapshot(p)'
        BY <1>1, <1>6, <1>11, ChallengeFacts DEF FreshSnapshot
    <2>3. BlankUnlessOpened(p)'
        BY <1>9, <2>1 DEF BlankUnlessOpened
    <2>4. QED
        BY <1>11, <1>12, <2>2, <2>3 DEF PositionInv
<1>18. LendingInv'
    <2>1. module'.opened >= module.opened
        BY <1>2, <1>5, <1>9
    <2>2. /\ challenge' \in [Positions -> ChallengeStates]
          /\ \A i \in Positions : i # p => challenge'[i] = challenge[i]
        BY <1>1, LendingFacts
    <2>3. QED
        BY <1>1, <1>9, <1>11, <1>12, <1>13, <1>16, <1>17, <2>1, <2>2, OnePositionInv
<1>19. /\ Debts' = [Debts EXCEPT ![p] = debt]
       /\ SumTo(Collaterals, NumPositions) \in Int
       /\ SumTo(Collaterals', NumPositions) = SumTo(Collaterals, NumPositions) + collateral
    <2>1. /\ Debts' = [Debts EXCEPT ![p] = position'[p].debt]
          /\ SumTo(Collaterals, NumPositions) \in Int
          /\ SumTo(Collaterals', NumPositions) =
                 SumTo(Collaterals, NumPositions)
                     + (position'[p].collateral - position[p].collateral)
        BY <1>1, <1>11, LendingFacts, OnePositionTotals
    <2>2. position[p].collateral = 0
        BY <1>6 DEF NoPosition
    <2>3. QED
        BY <1>3, <1>11, <2>1, <2>2
<1>20. /\ SumTo(kusd, NumUsers) \in Int /\ SumTo(kas, NumUsers) \in Int
       /\ SumTo(feeToken, NumFeeSlots) \in Int
       /\ SumTo(assignedToken, NumPositions) \in Int
       /\ reserveToken \in Nat /\ reserve.collateral \in Nat
    BY TokenTotals DEF LendingInv, ReserveInv
<1>21. Supply' = Supply + debt
    BY <1>1, <1>3, <1>4, <1>8, <1>12, <1>13, <1>14, <1>20 DEF Supply
<1>22. Ledger!Mint(p, debt)
    <2>1. Debts[p] = 0
        BY <1>1, <1>6 DEF Debts, NoPosition
    <2>2. debt \in 1..module.remaining
        BY <1>1, <1>2, <1>3
    <2>3. QED
        BY <1>9, <1>19, <1>21, <2>1, <2>2 DEF Ledger!Mint
<1>23. AllKas' = AllKas
    <2>1. SumTo(Deposits', NumPositions) = SumTo(Deposits, NumPositions)
        BY <1>1 DEF Deposits
    <2>2. SumTo(Deposits, NumPositions) \in Int
        BY <1>1, LendingFacts, OneDepositTotal
    <2>3. QED
        BY <1>1, <1>3, <1>15, <1>19, <1>20, <2>1, <2>2 DEF AllKas
<1>24. QED
    BY <1>18, <1>22, <1>23

LEMMA OpenStep ==
    ASSUME LendingInv, NEW u \in Users, NEW debt, NEW collateral, NEW lockTime,
           Open(u, debt, collateral, lockTime)
    PROVE  LendingInv' /\ (\E p \in Positions : Ledger!Mint(p, debt)) /\ AllKas' = AllKas
<1>1. PICK p \in Positions : p = module.opened + 1
    BY DEF Open
<1>2. LendingInv' /\ Ledger!Mint(p, debt) /\ AllKas' = AllKas
    BY <1>1, OpenPosition
<1>3. QED
    BY <1>2

-----------------------------------------------------------------------------
(* Transactions that touch no Position keep the totals, and the fee UTXOs  *)
(* of Positions not opened yet stay empty.                                 *)
PositionFeesKept == \A i \in Positions : feeToken'[i] \in {0, feeToken[i]}
Conserves == EquityKusd' = EquityKusd /\ EquityKas' = EquityKas /\ PositionFeesKept

LEMMA FundReserveConserves ==
    ASSUME ReserveInv, NEW u \in Users, NEW f \in FeeSlots \ Positions, NEW amount,
           FundReserve(u, f, amount)
    PROVE  Conserves
<1>1. /\ amount \in 1..kusd[u] /\ feeToken[f] = 0
      /\ kusd' = Debit(kusd, u, amount)
      /\ feeToken' = [feeToken EXCEPT ![f] = amount]
      /\ kas' = kas /\ reserve' = reserve /\ reserveToken' = reserveToken
    BY DEF FundReserve
<1>2. amount \in Nat /\ amount <= kusd[u]
    BY <1>1, ReserveFacts
<1>3. SumTo(kusd', NumUsers) = SumTo(kusd, NumUsers) - amount
    BY <1>1, <1>2, ReserveFacts, WalletDebit
<1>4. SumTo(feeToken', NumFeeSlots) = SumTo(feeToken, NumFeeSlots) + (amount - feeToken[f])
    BY <1>1, <1>2, ReserveFacts, FeeUpdate
<1>5. PositionFeesKept
    BY <1>1, ReserveFacts, ConstantFacts DEF PositionFeesKept
<1>6. QED
    BY <1>1, <1>2, <1>3, <1>4, <1>5, EquityTotals DEF Conserves, EquityKusd, EquityKas

-----------------------------------------------------------------------------
(* Steps that touch no Position *)

LEMMA QuietStepInv ==
    ASSUME LendingInv, ReserveInv', PositionFeesKept,
           now' \in 0..ExpirationDaa, module' \in ModuleStates,
           module'.opened = module.opened,
           position' = position, assignedToken' = assignedToken,
           challenge' \in [Positions -> ChallengeStates],
           \A i \in Positions :
               /\ challenge'[i].stage = challenge[i].stage
               /\ challenge'[i].debt = challenge[i].debt
               /\ challenge'[i].assigned = challenge[i].assigned
               /\ challenge'[i].collateral = challenge[i].collateral
               /\ challenge'[i].deposit = challenge[i].deposit
    PROVE  LendingInv'
<1>1. ASSUME NEW i \in Positions
      PROVE  PositionInv(i)'
    <2>1. PositionInv(i)
        BY LendingFacts
    <2>2. FreshSnapshot(i)'
        BY <2>1 DEF PositionInv, FreshSnapshot, SameTerms
    <2>3. BlankUnlessOpened(i)'
        BY <2>1 DEF PositionInv, BlankUnlessOpened, PositionFeesKept
    <2>4. QED
        BY <2>1, <2>2, <2>3 DEF PositionInv
<1>2. position' \in [Positions -> PositionStates] /\ assignedToken' \in [Positions -> Nat]
    BY LendingFacts
<1>3. QED
    BY <1>1, <1>2 DEF LendingInv, LendingTypeOK

LEMMA EquityOnlyStep ==
    ASSUME LendingInv, ReserveInv', Conserves, UNCHANGED lendingVars
    PROVE  LendingInv' /\ LedgerUnchanged /\ AllKas' = AllKas
<1>1. /\ now' = now /\ module' = module /\ position' = position
      /\ assignedToken' = assignedToken /\ challenge' = challenge
    BY DEF lendingVars
<1>2. LendingInv'
    BY <1>1, LendingFacts, QuietStepInv DEF Conserves
<1>3. /\ SumTo(kusd, NumUsers) \in Int /\ SumTo(kusd', NumUsers) \in Int
      /\ SumTo(feeToken, NumFeeSlots) \in Int /\ SumTo(feeToken', NumFeeSlots) \in Int
      /\ SumTo(kas, NumUsers) \in Int /\ SumTo(kas', NumUsers) \in Int
      /\ reserveToken \in Int /\ reserveToken' \in Int
      /\ reserve.collateral \in Int /\ reserve'.collateral \in Int
    <2>1. /\ kusd' \in [Users -> Nat] /\ kas' \in [Users -> Nat]
          /\ feeToken' \in [FeeSlots -> Nat]
          /\ reserveToken' \in Int /\ reserve'.collateral \in Int
        BY DEF ReserveInv, EquityTypeOK, ReserveStates
    <2>2. /\ NumUsers \in Nat /\ \A i \in 1..NumUsers : kusd'[i] \in Int
          /\ \A i \in 1..NumUsers : kas'[i] \in Int
          /\ NumFeeSlots \in Nat /\ \A i \in 1..NumFeeSlots : feeToken'[i] \in Int
        BY <2>1, ConstantFacts DEF Users, FeeSlots
    <2>3. /\ SumTo(kusd', NumUsers) \in Int /\ SumTo(kas', NumUsers) \in Int
          /\ SumTo(feeToken', NumFeeSlots) \in Int
        BY <2>2, SumInt
    <2>4. QED
        BY <2>1, <2>3, EquityTotals DEF LendingInv
<1>4. /\ SumTo(kusd', NumUsers) + SumTo(feeToken', NumFeeSlots) + reserveToken' =
             SumTo(kusd, NumUsers) + SumTo(feeToken, NumFeeSlots) + reserveToken
      /\ SumTo(kas', NumUsers) + reserve'.collateral =
             SumTo(kas, NumUsers) + reserve.collateral
    BY DEF Conserves, EquityKusd, EquityKas
<1>5. SumTo(assignedToken, NumPositions) \in Int
    BY TokenTotals DEF LendingInv, ReserveInv
<1>6. Supply' = Supply
    BY <1>1, <1>3, <1>4, <1>5 DEF Supply
<1>7. LedgerUnchanged
    BY <1>1, <1>6 DEF LedgerUnchanged, Debts
<1>8. AllKas' = AllKas
    <2> DEFINE locked == SumTo(Collaterals, NumPositions)
               deposits == SumTo(Deposits, NumPositions)
    <2>1. locked' = locked /\ deposits' = deposits
        BY <1>1 DEF Collaterals, Deposits
    <2>2. locked \in Int /\ deposits \in Int
        <3>1. /\ NumPositions \in Nat
              /\ \A i \in 1..NumPositions : Collaterals[i] \in Int
              /\ \A i \in 1..NumPositions : Deposits[i] \in Int
            BY ConstantFacts, LendingFacts
               DEF Collaterals, Deposits, Positions, PositionStates, ChallengeStates
        <3>2. QED
            BY <3>1, SumInt
    <2>3. AllKas = SumTo(kas, NumUsers) + locked + deposits + reserve.collateral
        BY DEF AllKas
    <2>4. AllKas' = SumTo(kas', NumUsers) + locked' + deposits' + reserve'.collateral
        BY DEF AllKas
    <2> HIDE DEF locked, deposits
    <2>5. QED
        BY <1>3, <1>4, <2>1, <2>2, <2>3, <2>4
<1>9. QED
    BY <1>2, <1>7, <1>8

LEMMA ExpireStep ==
    ASSUME LendingInv, Expire
    PROVE  LendingInv' /\ LedgerUnchanged /\ AllKas' = AllKas
<1>1. /\ module' = [module EXCEPT !.open = FALSE]
      /\ now' = now /\ position' = position
      /\ assignedToken' = assignedToken /\ challenge' = challenge
      /\ kusd' = kusd /\ kas' = kas /\ feeToken' = feeToken
      /\ reserve' = reserve /\ reserveToken' = reserveToken /\ shares' = shares
    BY DEF Expire, equityVars
<1>2. /\ module' \in ModuleStates /\ module'.opened = module.opened
      /\ module'.remaining = module.remaining
    BY <1>1, LendingFacts DEF ModuleStates
<1>3. ReserveInv'
    BY <1>1, ReserveStutter DEF LendingInv, equityVars
<1>4. LendingInv'
    BY <1>1, <1>2, <1>3, LendingFacts, QuietStepInv DEF PositionFeesKept
<1>5. LedgerUnchanged /\ AllKas' = AllKas
    BY <1>1, <1>2 DEF LedgerUnchanged, Supply, Debts, AllKas, Collaterals, Deposits
<1>6. QED
    BY <1>4, <1>5

LEMMA TickStep ==
    ASSUME LendingInv, Tick
    PROVE  LendingInv' /\ LedgerUnchanged /\ AllKas' = AllKas
<1>1. /\ now' = IF now < ExpirationDaa THEN now + 1 ELSE now
      /\ AgeShares
      /\ module' = module /\ position' = position
      /\ assignedToken' = assignedToken /\ kusd' = kusd /\ kas' = kas
      /\ reserve' = reserve /\ reserveToken' = reserveToken /\ feeToken' = feeToken
    BY DEF Tick
<1>2. now' \in 0..ExpirationDaa
    BY <1>1, LendingFacts, ConstantFacts
<1>3. ASSUME NEW i \in Positions
      PROVE  /\ challenge'[i] \in ChallengeStates
             /\ challenge'[i].stage = challenge[i].stage
             /\ challenge'[i].debt = challenge[i].debt
             /\ challenge'[i].assigned = challenge[i].assigned
             /\ challenge'[i].collateral = challenge[i].collateral
             /\ challenge'[i].deposit = challenge[i].deposit
    <2> DEFINE c == challenge[i]
               next == challenge'[i]
               older == IF c.stage \in {"challenge", "auction"} /\ c.age < MaxAge
                        THEN c.age + 1 ELSE c.age
    <2>1. next = [c EXCEPT !.age = older]
        BY DEF Tick
    <2>2. c \in ChallengeStates /\ c.age \in 0..MaxAge
        BY ChallengeFacts
    <2>3. older \in 0..MaxAge
        BY <2>2, ConstantFacts
    <2> HIDE DEF c, next, older
    <2>4. /\ next \in ChallengeStates /\ next.stage = c.stage /\ next.debt = c.debt
          /\ next.assigned = c.assigned /\ next.collateral = c.collateral
          /\ next.deposit = c.deposit
        BY <2>1, <2>2, <2>3 DEF ChallengeStates
    <2>5. QED
        BY <2>4 DEF c, next
<1>4. challenge' \in [Positions -> ChallengeStates]
    <2>1. challenge' = [i \in Positions |-> challenge'[i]]
        BY DEF Tick
    <2>2. QED
        BY <1>3, <2>1
<1>5. ReserveInv'
    BY <1>1, AgeSharesInv DEF LendingInv
<1>6. LendingInv'
    BY <1>1, <1>2, <1>3, <1>4, <1>5, LendingFacts, QuietStepInv DEF PositionFeesKept
<1>7. Deposits' = Deposits
    BY <1>3 DEF Deposits
<1>8. LedgerUnchanged /\ AllKas' = AllKas
    BY <1>1, <1>7 DEF LedgerUnchanged, Supply, Debts, AllKas, Collaterals
<1>9. QED
    BY <1>6, <1>8

-----------------------------------------------------------------------------
(* Every step *)

LEMMA PositionStepLedger ==
    ASSUME LendingInv, NEW p \in Positions, PositionStep(p)
    PROVE  LendingInv' /\ (Ledger!LedgerNext \/ LedgerUnchanged) /\ AllKas' = AllKas
<1>1. ASSUME NEW amount, Ledger!Retire(p, amount)
      PROVE  Ledger!LedgerNext
    BY <1>1 DEF Ledger!LedgerNext, Ledger!Retire
<1>2. QED
    BY <1>1, RepayStep, CloseStep, StartChallengeStep, InitChallengeStep, AvertStep,
       ActivateStep, SettleStep, BackstopStep DEF PositionStep

LEMMA LendingStep ==
    ASSUME LendingInv, [Next]_vars
    PROVE  LendingInv' /\ (Ledger!LedgerNext \/ LedgerUnchanged) /\ AllKas' = AllKas
<1>1. CASE Tick
    BY <1>1, TickStep
<1>2. CASE ModuleStep
    <2>1. ASSUME NEW u \in Users, NEW debt \in DebtAmounts,
                 NEW collateral \in CollateralAmounts, NEW lockTime \in 0..now,
                 Open(u, debt, collateral, lockTime)
          PROVE  LendingInv' /\ Ledger!LedgerNext /\ AllKas' = AllKas
        <3>1. PICK p \in Positions : Ledger!Mint(p, debt)
            BY <2>1, OpenStep
        <3>2. Ledger!LedgerNext
            BY <3>1 DEF Ledger!LedgerNext, Ledger!Mint
        <3>3. QED
            BY <2>1, <3>2, OpenStep
    <2>2. QED
        BY <1>2, <2>1, ExpireStep DEF ModuleStep
<1>3. ASSUME NEW p \in Positions, PositionStep(p)
      PROVE  LendingInv' /\ (Ledger!LedgerNext \/ LedgerUnchanged) /\ AllKas' = AllKas
    BY <1>3, PositionStepLedger
<1>4. CASE (ReserveStep \/ TokenStep) /\ UNCHANGED lendingVars
    <2>1. ReserveInv' /\ Conserves
        BY <1>4, ReserveStepInv, TokenStepInv, EquityStepConserves, ConstantFacts
           DEF LendingInv, Conserves, EquityConserves, FeesKept, PositionFeesKept
    <2>2. QED
        BY <1>4, <2>1, EquityOnlyStep
<1>5. ASSUME NEW u \in Users, NEW f \in FeeSlots \ Positions, NEW amount \in KusdAmounts,
             FundReserve(u, f, amount), UNCHANGED lendingVars
      PROVE  LendingInv' /\ LedgerUnchanged /\ AllKas' = AllKas
    <2>1. ReserveInv' /\ Conserves
        BY <1>5, FundReserveInv, FundReserveConserves DEF LendingInv
    <2>2. QED
        BY <1>5, <2>1, EquityOnlyStep
<1>6. CASE UNCHANGED vars
    <2>1. UNCHANGED equityVars /\ UNCHANGED lendingVars
        BY <1>6 DEF vars
    <2>2. ReserveInv' /\ Conserves
        BY <2>1, ReserveStutter
           DEF LendingInv, equityVars, Conserves, EquityKusd, EquityKas, PositionFeesKept
    <2>3. QED
        BY <2>1, <2>2, EquityOnlyStep
<1>7. QED
    BY <1>1, <1>2, <1>3, <1>4, <1>5, <1>6 DEF Next

-----------------------------------------------------------------------------
(* Where collateral goes *)

Releases(p) ==
    /\ position'[p].debt = 0
    /\ Supply' = Supply - position[p].debt

(* Only the Position a transaction spends can lose collateral, and only by *)
(* close, settle and backstop.                                             *)
LEMMA CollateralStep ==
    ASSUME LendingInv, [Next]_vars, NEW p \in Positions,
           position'[p].collateral < position[p].collateral
    PROVE  Releases(p)
<1>0. position[p].collateral \in Nat /\ position[p] \in PositionStates
    BY PositionFacts
<1>1. ASSUME position' = position
      PROVE  Releases(p)
    BY <1>0, <1>1
<1>2. ASSUME NEW u \in Users, NEW debt, NEW collateral, NEW lockTime,
             Open(u, debt, collateral, lockTime)
      PROVE  Releases(p)
    <2>1. PICK q \in Positions : q = module.opened + 1
        BY <1>2 DEF Open
    <2>2. CASE q = p
        <3>1. position[p].collateral = 0
            BY <2>1, <2>2, PositionFacts, LendingFacts
               DEF PositionInv, BlankUnlessOpened, NoPosition, ModuleStates
        <3>2. position'[p].collateral = collateral /\ collateral \in Nat
            <4>1. collateral \in MinimumCollateral..kas[u]
                BY <1>2 DEF Open
            <4>2. collateral \in Nat
                BY <4>1, LendingAssumption, ReserveFacts DEF LendingInv
            <4>3. position'[p].collateral = collateral
                BY <1>2, <2>1, <2>2, LendingFacts DEF Open
            <4>4. QED
                BY <4>2, <4>3
        <3>3. QED
            BY <3>1, <3>2
    <2>3. CASE q # p
        <3>1. position'[p] = position[p]
            BY <1>2, <2>1, <2>3, LendingFacts DEF Open
        <3>2. QED
            BY <1>0, <3>1
    <2>4. QED
        BY <2>2, <2>3
<1>3. ASSUME NEW q \in Positions, q # p, PositionStep(q)
      PROVE  Releases(p)
    <2>1. position'[p] = position[p]
        BY <1>3, LendingFacts
           DEF PositionStep, Repay, Close, StartChallenge, InitChallenge, Avert, Activate,
               Settle, Backstop, Liquidate
    <2>2. QED
        BY <1>0, <2>1
<1>4. ASSUME PositionStep(p)
      PROVE  Releases(p)
    <2>1. ASSUME NEW amount, Repay(p, amount)
          PROVE  Releases(p)
        <3>1. position'[p].collateral = position[p].collateral
            BY <1>0, <2>1, LendingFacts DEF Repay, PositionStates
        <3>2. QED
            BY <1>0, <3>1
    <2>2. CASE Close(p)
        <3>1. position[p].debt = 0 /\ position'[p].debt = 0
            BY <1>0, <2>2, LendingFacts DEF Close, PositionStates
        <3>2. Supply' = Supply /\ Supply \in Int
            BY <2>2, CloseStep, TokenTotals
               DEF LedgerUnchanged, Supply, LendingInv, ReserveInv
        <3>3. QED
            BY <3>1, <3>2 DEF Releases
    <2>3. ASSUME NEW u \in Users, StartChallenge(p, u) \/ Avert(p, u)
          PROVE  Releases(p)
        <3>1. position'[p].collateral = position[p].collateral
            BY <1>0, <2>3, LendingFacts DEF StartChallenge, Avert, PositionStates
        <3>2. QED
            BY <1>0, <3>1
    <2>4. CASE InitChallenge(p) \/ Activate(p)
        BY <1>1, <2>4 DEF InitChallenge, Activate
    <2>5. ASSUME Ledger!Retire(p, position[p].debt), Liquidate(p)
          PROVE  Releases(p)
        BY <2>5, LiquidateFacts DEF Releases, Ledger!Retire
    <2>6. ASSUME NEW u \in Users, NEW elapsed \in 0..AuctionDuration, Settle(p, u, elapsed)
          PROVE  Releases(p)
        BY <2>5, <2>6, SettleStep DEF Settle
    <2>7. CASE Backstop(p)
        BY <2>5, <2>7, BackstopStep DEF Backstop
    <2>8. QED
        BY <1>4, <2>1, <2>2, <2>3, <2>4, <2>6, <2>7 DEF PositionStep
<1>5. ASSUME NEW q \in Positions, PositionStep(q)
      PROVE  Releases(p)
    BY <1>3, <1>4, <1>5
<1>6. CASE Tick \/ Expire \/ UNCHANGED lendingVars \/ UNCHANGED vars
    BY <1>1, <1>6 DEF Tick, Expire, lendingVars, vars
<1>7. QED
    BY <1>2, <1>5, <1>6 DEF Next, ModuleStep

-----------------------------------------------------------------------------
(* Theorems *)

LEMMA InitialInv ==
    ASSUME Init
    PROVE  LendingInv /\ Ledger!LedgerInit /\ SupplyEqualsDebt /\ KasConserved
<1>1. /\ kusd = [u \in Users |-> 0] /\ kas = InitialKas /\ InitReserve
      /\ now = 0
      /\ module = [open |-> TRUE, remaining |-> MintAllocation, opened |-> 0, since |-> 0]
      /\ position = [p \in Positions |-> NoPosition]
      /\ assignedToken = [p \in Positions |-> 0]
      /\ challenge = [p \in Positions |-> NoChallenge]
    BY DEF Init
<1>2. ReserveInv
    <2>1. kusd \in [Users -> Nat] /\ kas \in [Users -> Nat]
        BY <1>1, LendingAssumption
    <2>2. QED
        BY <1>1, <2>1, InitReserveInv
<1>3. LendingTypeOK
    <2>1. NoPosition \in PositionStates
        BY EquityAssumption DEF NoPosition, PositionStates, PositionStages, Users
    <2>2. NoChallenge \in ChallengeStates
        BY EquityAssumption, ConstantFacts
           DEF NoChallenge, ChallengeStates, ChallengeStages, Users
    <2>3. now \in 0..ExpirationDaa /\ module \in ModuleStates
        BY <1>1, ConstantFacts DEF ModuleStates
    <2>4. QED
        BY <1>1, <2>1, <2>2, <2>3 DEF LendingTypeOK
<1>4. ASSUME NEW p \in Positions
      PROVE  PositionInv(p)
    <2>1. feeToken[p] = 0
        BY <1>1, ConstantFacts DEF InitReserve
    <2>2. position[p] = NoPosition /\ challenge[p] = NoChallenge /\ assignedToken[p] = 0
        BY <1>1
    <2>3. QED
        BY <2>1, <2>2 DEF PositionInv, FreshSnapshot, BlankUnlessOpened, NoPosition, NoChallenge
<1>5. /\ SumTo(kusd, NumUsers) = 0 /\ SumTo(feeToken, NumFeeSlots) = 0
      /\ SumTo(assignedToken, NumPositions) = 0 /\ SumTo(Debts, NumPositions) = 0
      /\ SumTo(Collaterals, NumPositions) = 0 /\ SumTo(Deposits, NumPositions) = 0
    <2>1. \A i \in 1..NumUsers : kusd[i] = 0
        BY <1>1 DEF Users
    <2>2. \A i \in 1..NumFeeSlots : feeToken[i] = 0
        BY <1>1 DEF InitReserve, FeeSlots
    <2>3. /\ \A i \in 1..NumPositions : assignedToken[i] = 0
          /\ \A i \in 1..NumPositions : Debts[i] = 0
          /\ \A i \in 1..NumPositions : Collaterals[i] = 0
          /\ \A i \in 1..NumPositions : Deposits[i] = 0
        BY <1>1 DEF Positions, Debts, Collaterals, Deposits, NoPosition, NoChallenge
    <2>4. QED
        BY <2>1, <2>2, <2>3, ConstantFacts, SumOfZeros
<1>6. Supply = 0 /\ reserve.collateral = 0
    BY <1>1, <1>5 DEF InitReserve, Supply
<1>7. SupplyEqualsDebt
    BY <1>5, <1>6 DEF SupplyEqualsDebt
<1>8. KasConserved
    <2>1. SumTo(kas, NumUsers) \in Int
        BY <1>2, EquityTotals
    <2>2. QED
        BY <1>1, <1>5, <1>6, <2>1 DEF KasConserved, AllKas
<1>9. Ledger!LedgerInit
    <2>1. Debts = [a \in Positions |-> 0] /\ module.remaining = MintAllocation
        BY <1>1 DEF Debts, NoPosition
    <2>2. QED
        BY <1>6, <2>1 DEF Ledger!LedgerInit
<1>10. QED
    BY <1>2, <1>3, <1>4, <1>7, <1>8, <1>9 DEF LendingInv

LEMMA LendingInvariant == Spec => []LendingInv
<1>1. Init => LendingInv
    BY InitialInv
<1>2. LendingInv /\ [Next]_vars => LendingInv'
    BY LendingStep
<1>3. QED
    BY <1>1, <1>2, PTL DEF Spec

(* Every field the covenants serialize stays in its domain: no repayment,  *)
(* payment, surplus, fee or reward is ever negative.                       *)
THEOREM LendingTyped == Spec => []TypeOK
<1>1. LendingInv => TypeOK
    BY DEF LendingInv, ReserveInv, TypeOK
<1>2. QED
    BY <1>1, LendingInvariant, PTL

(* The copy of a Position that its Challenge and its Auction carry is the  *)
(* Position's state for as long as the challenge lives.                    *)
THEOREM SnapshotsStayFresh == Spec => []SnapshotFresh
<1>1. LendingInv => SnapshotFresh
    BY DEF LendingInv, PositionInv, SnapshotFresh
<1>2. QED
    BY <1>1, LendingInvariant, PTL

(* A Position's KUSD UTXO always holds the assignedReserve it books.       *)
THEOREM AssignedStaysBooked == Spec => []AssignedBooked
<1>1. LendingInv => AssignedBooked
    BY DEF LendingInv, PositionInv, AssignedBooked
<1>2. QED
    BY <1>1, LendingInvariant, PTL

(* Whatever order owners, challengers, bidders, keepers and the Reserve    *)
(* act in, KUSD is only minted by opening a fresh Position within the      *)
(* Module's capacity and only burned with as much debt.                    *)
THEOREM LedgerImplemented == Spec => ImplementsLedger
<1>1. Init => Ledger!LedgerInit
    BY InitialInv
<1>2. LendingInv /\ [Next]_vars => [Ledger!LedgerNext]_(Ledger!ledgerVars)
    BY LendingStep DEF LedgerUnchanged, Ledger!ledgerVars
<1>3. QED
    BY <1>1, <1>2, LendingInvariant, PTL DEF Spec, ImplementsLedger, Ledger!LedgerSpec

(* A step of the ledger moves the total debt by what it moves the supply.  *)
LEMMA LedgerStepBalances ==
    ASSUME LendingInv, SupplyEqualsDebt, Ledger!LedgerNext \/ LedgerUnchanged
    PROVE  SupplyEqualsDebt'
<1>1. Debts \in [1..NumPositions -> Int] /\ NumPositions \in Nat
    BY ConstantFacts, LendingFacts DEF Debts, Positions, PositionStates
<1>2. SumTo(Debts, NumPositions) \in Int /\ Supply = SumTo(Debts, NumPositions)
    BY <1>1, SumInt DEF SupplyEqualsDebt
<1>3. module.remaining \in Nat
    BY LendingFacts DEF ModuleStates
<1>4. ASSUME NEW p \in Positions, NEW amount \in 1..module.remaining, Ledger!Mint(p, amount)
      PROVE  Supply' = SumTo(Debts', NumPositions)
    <2>1. /\ Debts[p] = 0 /\ Debts' = [Debts EXCEPT ![p] = amount]
          /\ Supply' = Supply + amount
        BY <1>4 DEF Ledger!Mint
    <2>2. Debts' = Credit(Debts, p, amount)
        BY <1>3, <2>1 DEF Credit
    <2>3. p \in 1..NumPositions /\ amount \in Int
        BY DEF Positions
    <2>4. SumTo(Debts', NumPositions) = SumTo(Debts, NumPositions) + amount
        BY <1>1, <2>2, <2>3, SumCredit
    <2>5. QED
        BY <1>2, <2>1, <2>4
<1>5. ASSUME NEW p \in Positions, NEW amount \in 1..Debts[p], Ledger!Retire(p, amount)
      PROVE  Supply' = SumTo(Debts', NumPositions)
    <2>1. Debts' = Debit(Debts, p, amount) /\ Supply' = Supply - amount
        BY <1>5 DEF Ledger!Retire, Debit
    <2>2. p \in 1..NumPositions /\ amount \in Int
        BY DEF Positions
    <2>3. SumTo(Debts', NumPositions) = SumTo(Debts, NumPositions) - amount
        BY <1>1, <2>1, <2>2, SumDebit
    <2>4. QED
        BY <1>2, <2>1, <2>3
<1>6. CASE LedgerUnchanged
    BY <1>2, <1>6 DEF LedgerUnchanged, SupplyEqualsDebt
<1>7. QED
    BY <1>4, <1>5, <1>6 DEF Ledger!LedgerNext, SupplyEqualsDebt

(* The KUSD in wallets, Positions and the Reserve is the debt of the       *)
(* Positions, atom for atom.                                               *)
THEOREM SupplyIsOwed == Spec => []SupplyEqualsDebt
<1>1. Init => SupplyEqualsDebt
    BY InitialInv
<1>2. LendingInv /\ SupplyEqualsDebt /\ [Next]_vars => SupplyEqualsDebt'
    BY LendingStep, LedgerStepBalances
<1>3. QED
    BY <1>1, <1>2, LendingInvariant, PTL DEF Spec

(* The KAS that owners and challengers lock is never lost or multiplied.   *)
THEOREM KasIsConserved == Spec => []KasConserved
<1>1. Init => KasConserved
    BY InitialInv
<1>2. LendingInv /\ KasConserved /\ [Next]_vars => KasConserved'
    BY LendingStep DEF KasConserved
<1>3. QED
    BY <1>1, <1>2, LendingInvariant, PTL DEF Spec

(* Collateral leaves a Position only together with all of its debt.        *)
THEOREM CollateralStaysLocked == Spec => CollateralLocked
<1>1. LendingInv /\ [Next]_vars =>
          [\A p \in Positions :
               position'[p].collateral < position[p].collateral =>
                   /\ position'[p].debt = 0
                   /\ Supply' = Supply - position[p].debt]_vars
    BY CollateralStep DEF Releases
<1>2. QED
    BY <1>1, LendingInvariant, PTL DEF Spec, CollateralLocked

-----------------------------------------------------------------------------
(* Every step of a Position, told by the stages it moves between *)

(* A step moves the Position and its lineage from one stage to another. *)
Moves(p, before, after, from, to) ==
    /\ position[p].stage = before /\ position'[p].stage = after
    /\ challenge[p].stage = from /\ challenge'[p].stage = to

PositionMoves(p) ==
    \/ position'[p] = position[p] /\ challenge'[p].stage = challenge[p].stage
    \/ /\ Moves(p, "unopened", "active", "none", "none")
       /\ p = module.opened + 1
       /\ \E u \in Users : \E debt, collateral, lockTime : Open(u, debt, collateral, lockTime)
    \/ /\ Moves(p, "active", "active", "none", "none")
       /\ \E amount : Repay(p, amount)
    \/ Moves(p, "active", "closed", "none", "none") /\ Close(p)
    \/ /\ Moves(p, "active", "challenged", "none", "anchor")
       /\ \E u \in Users : StartChallenge(p, u)
    \/ Moves(p, "challenged", "challenged", "anchor", "challenge") /\ InitChallenge(p)
    \/ /\ Moves(p, "challenged", "active", "challenge", "none")
       /\ \E u \in Users : Avert(p, u)
    \/ Moves(p, "challenged", "challenged", "challenge", "auction") /\ Activate(p)
    \/ /\ Moves(p, "challenged", "liquidated", "auction", "none")
       /\ \E u \in Users : \E elapsed : Settle(p, u, elapsed)
    \/ Moves(p, "challenged", "liquidated", "auction", "none") /\ Backstop(p)

LEMMA OpenMoves ==
    ASSUME LendingInv, NEW p \in Positions, NEW u \in Users, NEW debt, NEW collateral,
           NEW lockTime, Open(u, debt, collateral, lockTime)
    PROVE  PositionMoves(p)
<1>1. PICK q \in Positions : q = module.opened + 1
    BY DEF Open
<1>2. challenge' = challenge
    BY DEF Open
<1>3. CASE q # p
    <2>1. position'[p] = position[p]
        BY <1>1, <1>3, LendingFacts DEF Open
    <2>2. QED
        BY <1>2, <2>1 DEF PositionMoves
<1>4. CASE q = p
    <2>1. position[p] = NoPosition /\ challenge[p].stage = "none"
        BY <1>1, <1>4, PositionFacts, LendingFacts DEF PositionInv, BlankUnlessOpened, ModuleStates
    <2>2. position[p].stage = "unopened"
        BY <2>1 DEF NoPosition
    <2>3. position'[p].stage = "active"
        BY <1>1, <1>4, LendingFacts DEF Open
    <2>4. Moves(p, "unopened", "active", "none", "none")
        BY <1>2, <2>1, <2>2, <2>3 DEF Moves
    <2>5. QED
        BY <1>1, <1>4, <2>4 DEF PositionMoves
<1>5. QED
    BY <1>3, <1>4

LEMMA OtherPosition ==
    ASSUME LendingInv, NEW p \in Positions, NEW q \in Positions, q # p, PositionStep(q)
    PROVE  PositionMoves(p)
<1>1. position'[p] = position[p] /\ challenge'[p] = challenge[p]
    BY LendingFacts
       DEF PositionStep, Repay, Close, StartChallenge, InitChallenge, Avert, Activate,
           Settle, Backstop, Liquidate
<1>2. QED
    BY <1>1 DEF PositionMoves

LEMMA OwnMoves ==
    ASSUME LendingInv, NEW p \in Positions, PositionStep(p)
    PROVE  PositionMoves(p)
<1>1. /\ position[p] \in PositionStates /\ challenge[p] \in ChallengeStates
      /\ position \in [Positions -> PositionStates] /\ challenge \in [Positions -> ChallengeStates]
    BY LendingFacts
<1>2. position[p].stage = "active" => challenge[p].stage = "none"
    BY ChallengeFacts DEF SameTerms
<1>3. challenge[p].stage # "none" => position[p].stage = "challenged"
    BY ChallengeFacts DEF SameTerms
<1>4. ASSUME NEW amount, Repay(p, amount)
      PROVE  Moves(p, "active", "active", "none", "none")
    <2>1. challenge' = challenge /\ position[p].stage = "active"
        BY <1>4 DEF Repay
    <2>2. position'[p].stage = position[p].stage
        BY <1>1, <1>4 DEF Repay, PositionStates
    <2>3. QED
        BY <1>2, <2>1, <2>2 DEF Moves
<1>5. ASSUME Close(p)
      PROVE  Moves(p, "active", "closed", "none", "none")
    <2>1. challenge' = challenge /\ position[p].stage = "active"
        BY <1>5 DEF Close
    <2>2. position'[p].stage = "closed"
        BY <1>1, <1>5 DEF Close, PositionStates
    <2>3. QED
        BY <1>2, <2>1, <2>2 DEF Moves
<1>6. ASSUME NEW u \in Users, StartChallenge(p, u)
      PROVE  Moves(p, "active", "challenged", "none", "anchor")
    <2>1. position[p].stage = "active"
        BY <1>6 DEF StartChallenge
    <2>2. position'[p].stage = "challenged"
        BY <1>1, <1>6 DEF StartChallenge, PositionStates
    <2>3. challenge'[p].stage = "anchor"
        BY <1>1, <1>6 DEF StartChallenge
    <2>4. QED
        BY <1>2, <2>1, <2>2, <2>3 DEF Moves
<1>7. ASSUME InitChallenge(p)
      PROVE  Moves(p, "challenged", "challenged", "anchor", "challenge")
    <2>1. position' = position /\ challenge[p].stage = "anchor"
        BY <1>7 DEF InitChallenge
    <2>2. challenge'[p].stage = "challenge"
        BY <1>1, <1>7 DEF InitChallenge, ChallengeStates
    <2>3. QED
        BY <1>3, <2>1, <2>2 DEF Moves
<1>8. ASSUME NEW u \in Users, Avert(p, u)
      PROVE  Moves(p, "challenged", "active", "challenge", "none")
    <2>1. challenge[p].stage = "challenge"
        BY <1>8 DEF Avert
    <2>2. position'[p].stage = "active"
        BY <1>1, <1>8 DEF Avert, PositionStates
    <2>3. challenge'[p].stage = "none"
        BY <1>1, <1>8 DEF Avert, NoChallenge
    <2>4. QED
        BY <1>3, <2>1, <2>2, <2>3 DEF Moves
<1>9. ASSUME Activate(p)
      PROVE  Moves(p, "challenged", "challenged", "challenge", "auction")
    <2>1. position' = position /\ challenge[p].stage = "challenge"
        BY <1>9 DEF Activate
    <2>2. challenge'[p].stage = "auction"
        BY <1>1, <1>9 DEF Activate, ChallengeStates
    <2>3. QED
        BY <1>3, <2>1, <2>2 DEF Moves
<1>10. ASSUME Liquidate(p), challenge[p].stage = "auction"
       PROVE  Moves(p, "challenged", "liquidated", "auction", "none")
    <2>1. position'[p].stage = "liquidated"
        BY <1>1, <1>10, LiquidateFacts DEF Liquidate
    <2>2. challenge'[p].stage = "none"
        BY <1>1, <1>10 DEF Liquidate, NoChallenge
    <2>3. QED
        BY <1>3, <1>10, <2>1, <2>2 DEF Moves
<1>11. ASSUME NEW u \in Users, NEW elapsed, Settle(p, u, elapsed)
       PROVE  Moves(p, "challenged", "liquidated", "auction", "none")
    BY <1>10, <1>11 DEF Settle
<1>12. ASSUME Backstop(p)
       PROVE  Moves(p, "challenged", "liquidated", "auction", "none")
    BY <1>10, <1>12 DEF Backstop
<1>13. QED
    <2>1. (\E amount : Repay(p, amount)) => PositionMoves(p)
        BY <1>4 DEF PositionMoves
    <2>2. Close(p) => PositionMoves(p)
        BY <1>5 DEF PositionMoves
    <2>3. (\E u \in Users : StartChallenge(p, u)) => PositionMoves(p)
        BY <1>6 DEF PositionMoves
    <2>4. InitChallenge(p) => PositionMoves(p)
        BY <1>7 DEF PositionMoves
    <2>5. (\E u \in Users : Avert(p, u)) => PositionMoves(p)
        BY <1>8 DEF PositionMoves
    <2>6. Activate(p) => PositionMoves(p)
        BY <1>9 DEF PositionMoves
    <2>7. (\E u \in Users : \E elapsed : Settle(p, u, elapsed)) => PositionMoves(p)
        BY <1>11 DEF PositionMoves
    <2>8. Backstop(p) => PositionMoves(p)
        BY <1>12 DEF PositionMoves
    <2>9. QED
        BY <2>1, <2>2, <2>3, <2>4, <2>5, <2>6, <2>7, <2>8 DEF PositionStep

LEMMA EveryMove ==
    ASSUME LendingInv, [Next]_vars, NEW p \in Positions
    PROVE  PositionMoves(p)
<1>1. CASE Tick
    <2>1. position'[p] = position[p]
        BY <1>1 DEF Tick
    <2>2. challenge'[p] = [challenge[p] EXCEPT !.age =
              IF challenge[p].stage \in {"challenge", "auction"} /\ @ < MaxAge THEN @ + 1 ELSE @]
        BY <1>1 DEF Tick
    <2>3. challenge'[p].stage = challenge[p].stage
        BY <2>2, LendingFacts DEF ChallengeStates
    <2>4. QED
        BY <2>1, <2>3 DEF PositionMoves
<1>2. CASE Expire \/ UNCHANGED lendingVars \/ UNCHANGED vars
    BY <1>2 DEF Expire, lendingVars, vars, PositionMoves
<1>3. QED
    BY <1>1, <1>2, OpenMoves, OtherPosition, OwnMoves DEF Next, ModuleStep

-----------------------------------------------------------------------------
(* The notice an owner has, for the observer of MC_Lending *)

(* What anchor, Challenge and Auction have lasted together is no longer    *)
(* than the Position has been challenged: the age of each starts at zero,  *)
(* and an Auction stands for a whole warning period.                       *)
NoticeCounted(p) ==
    /\ warned[p] \in Nat
    /\ \/ warned[p] >= FullNotice
       \/ /\ challenge[p].stage = "challenge" => challenge[p].age <= warned[p]
          /\ challenge[p].stage = "auction" =>
                 ChallengePeriod + challenge[p].age <= warned[p]

WarningInv ==
    /\ LendingInv
    /\ warned \in [Positions -> Nat]
    /\ \A p \in Positions : NoticeCounted(p)

LEMMA NoticeNat ==
    /\ ChallengePeriod \in Nat /\ AuctionDuration \in Nat
    /\ FullNotice = ChallengePeriod + AuctionDuration
BY LendingAssumption DEF FullNotice

(* What a step does to one Position's challenge lineage. *)
LEMMA LineageMoves ==
    ASSUME LendingInv, [Next]_vars, NEW p \in Positions
    PROVE  \/ challenge'[p] = challenge[p] /\ position'[p].stage = position[p].stage
           \/ Tick
           \/ challenge'[p].stage \in {"none", "anchor"}
           \/ InitChallenge(p) \/ Activate(p)
<1> DEFINE Expected ==
               \/ challenge'[p] = challenge[p] /\ position'[p].stage = position[p].stage
               \/ Tick
               \/ challenge'[p].stage \in {"none", "anchor"}
               \/ InitChallenge(p) \/ Activate(p)
<1>1. ASSUME NEW u \in Users, NEW debt, NEW collateral, NEW lockTime,
             Open(u, debt, collateral, lockTime)
      PROVE  Expected
    <2>1. PICK q \in Positions : q = module.opened + 1
        BY <1>1 DEF Open
    <2>2. challenge'[p] = challenge[p]
        BY <1>1 DEF Open
    <2>3. CASE q = p
        <3>1. challenge[p].stage = "none"
            BY <2>1, <2>3, PositionFacts, LendingFacts
               DEF PositionInv, BlankUnlessOpened, ModuleStates
        <3>2. QED
            BY <2>2, <3>1
    <2>4. CASE q # p
        <3>1. position'[p] = position[p]
            BY <1>1, <2>1, <2>4, LendingFacts DEF Open
        <3>2. QED
            BY <2>2, <3>1
    <2>5. QED
        BY <2>3, <2>4
<1>2. ASSUME NEW q \in Positions, q # p, PositionStep(q)
      PROVE  Expected
    <2>1. position'[p] = position[p] /\ challenge'[p] = challenge[p]
        BY <1>2, LendingFacts
           DEF PositionStep, Repay, Close, StartChallenge, InitChallenge, Avert, Activate,
               Settle, Backstop, Liquidate
    <2>2. QED
        BY <2>1
<1>3. ASSUME PositionStep(p)
      PROVE  Expected
    <2>1. ASSUME position[p].stage = "active", challenge' = challenge
          PROVE  Expected
        <3>1. challenge[p].stage = "none"
            BY <2>1, ChallengeFacts DEF SameTerms
        <3>2. QED
            BY <2>1, <3>1
    <2>2. ASSUME NEW amount, Repay(p, amount)
          PROVE  Expected
        BY <2>1, <2>2 DEF Repay
    <2>3. CASE Close(p)
        BY <2>1, <2>3 DEF Close
    <2>4. ASSUME NEW u \in Users, StartChallenge(p, u)
          PROVE  Expected
        BY <2>4, LendingFacts DEF StartChallenge
    <2>5. ASSUME NEW u \in Users, Avert(p, u)
          PROVE  Expected
        BY <2>5, LendingFacts DEF Avert, NoChallenge
    <2>6. ASSUME Liquidate(p)
          PROVE  Expected
        BY <2>6, LendingFacts DEF Liquidate, NoChallenge
    <2>7. ASSUME NEW u \in Users, NEW elapsed \in 0..AuctionDuration, Settle(p, u, elapsed)
          PROVE  Expected
        BY <2>6, <2>7 DEF Settle
    <2>8. CASE Backstop(p)
        BY <2>6, <2>8 DEF Backstop
    <2>9. QED
        BY <1>3, <2>2, <2>3, <2>4, <2>5, <2>7, <2>8 DEF PositionStep
<1>4. CASE Expire \/ UNCHANGED lendingVars \/ UNCHANGED vars
    BY <1>4 DEF Expire, lendingVars, vars
<1>5. QED
    BY <1>1, <1>2, <1>3, <1>4 DEF Next, ModuleStep

(* The age of a Challenge or an Auction grows with the observer's count.   *)
LEMMA NoticeStep ==
    ASSUME WarningInv, [Next]_vars, Observe, NEW p \in Positions
    PROVE  NoticeCounted(p)'
<1> DEFINE c == challenge[p]
           d == challenge'[p]
           w == warned[p]
           v == warned'[p]
<1>1. /\ w \in Nat /\ NoticeCounted(p)
      /\ c \in ChallengeStates /\ c.age \in Nat
    <2>1. c.age \in 0..MaxAge /\ MaxAge \in Nat /\ c \in ChallengeStates
        BY ChallengeFacts, ConstantFacts DEF WarningInv
    <2>2. c.age \in Nat
        BY <2>1
    <2>3. QED
        BY <2>1, <2>2 DEF WarningInv
<1>2. LendingInv'
    BY LendingStep DEF WarningInv
<1>3. d.stage # "none" => position'[p].stage = "challenged"
    BY <1>2 DEF LendingInv, PositionInv, FreshSnapshot, SameTerms
<1>4. c.stage # "none" => position[p].stage = "challenged"
    BY DEF WarningInv, LendingInv, PositionInv, FreshSnapshot, SameTerms
<1>5. v = IF position'[p].stage # "challenged" THEN 0
          ELSE IF position[p].stage = "challenged" /\ Tick /\ w < FullNotice THEN w + 1 ELSE w
    BY DEF Observe
<1>6. v \in Nat
    BY <1>1, <1>5
<1>7. CASE d.stage \in {"none", "anchor"}
    BY <1>6, <1>7 DEF NoticeCounted
<1>8. CASE d.stage \notin {"none", "anchor"} /\ d = c /\ position'[p].stage = position[p].stage
    <2>1. v >= w
        BY <1>1, <1>3, <1>5, <1>8
    <2>2. QED
        BY <1>1, <1>6, <1>8, <2>1, NoticeNat DEF NoticeCounted
<1>9. CASE d.stage \notin {"none", "anchor"} /\ Tick
    <2>1. d = [c EXCEPT !.age = IF c.stage \in {"challenge", "auction"} /\ @ < MaxAge
                                THEN @ + 1 ELSE @]
        BY <1>9 DEF Tick
    <2>2. d.stage = c.stage /\ d.age \in {c.age, c.age + 1}
        BY <1>1, <2>1 DEF ChallengeStates
    <2>3. v = IF w < FullNotice THEN w + 1 ELSE w
        BY <1>3, <1>4, <1>5, <1>9, <2>2
    <2>4. QED
        BY <1>1, <1>6, <2>2, <2>3, NoticeNat DEF NoticeCounted
<1>10. CASE InitChallenge(p)
    <2>1. d.stage = "challenge" /\ d.age = 0
        BY <1>1, <1>10 DEF InitChallenge, WarningInv, LendingInv, LendingTypeOK, ChallengeStates
    <2>2. QED
        BY <1>6, <2>1 DEF NoticeCounted
<1>11. CASE Activate(p)
    <2>1. d.stage = "auction" /\ d.age = 0 /\ c.stage = "challenge" /\ c.age >= ChallengePeriod
        BY <1>1, <1>11 DEF Activate, WarningInv, LendingInv, LendingTypeOK, ChallengeStates
    <2>2. w >= ChallengePeriod
        BY <1>1, <2>1, NoticeNat DEF NoticeCounted
    <2>3. v >= w
        BY <1>1, <1>3, <1>4, <1>5, <2>1
    <2>4. QED
        BY <1>1, <1>6, <2>1, <2>2, <2>3, NoticeNat DEF NoticeCounted
<1>12. QED
    BY <1>7, <1>8, <1>9, <1>10, <1>11, LineageMoves DEF WarningInv

(* Only settle and backstop liquidate. *)
LEMMA Liquidation ==
    ASSUME WarningInv, [Next]_vars, NEW p \in Positions,
           position[p].stage = "challenged", position'[p].stage = "liquidated"
    PROVE  /\ challenge[p].stage = "auction"
           /\ reserve' = reserve \/ challenge[p].age >= AuctionDuration
<1>1. PositionMoves(p)
    BY EveryMove DEF WarningInv
<1>2. (\E u \in Users : \E elapsed : Settle(p, u, elapsed)) \/ Backstop(p)
    BY <1>1 DEF PositionMoves, Moves
<1>3. QED
    BY <1>2 DEF Settle, Backstop

LEMMA WarningStep ==
    ASSUME WarningInv, [MCNext]_mcVars
    PROVE  WarningInv'
<1>1. CASE MCNext
    <2>1. LendingInv' /\ [Next]_vars /\ Observe
        BY <1>1, LendingStep DEF WarningInv, MCNext
    <2>2. \A p \in Positions : NoticeCounted(p)'
        BY <2>1, NoticeStep
    <2>3. warned' \in [Positions -> Nat]
        <3>1. warned' = [p \in Positions |-> warned'[p]]
            BY <2>1 DEF Observe
        <3>2. \A p \in Positions : warned'[p] \in Nat
            BY <2>2 DEF NoticeCounted
        <3>3. QED
            BY <3>1, <3>2
    <2>4. QED
        BY <2>1, <2>2, <2>3 DEF WarningInv
<1>2. CASE UNCHANGED mcVars
    <2>1. UNCHANGED vars /\ warned' = warned
        BY <1>2 DEF mcVars
    <2>2. LendingInv'
        BY <2>1, LendingStep DEF WarningInv
    <2>3. challenge' = challenge
        BY <2>1 DEF vars, lendingVars
    <2>4. QED
        BY <2>1, <2>2, <2>3 DEF WarningInv, NoticeCounted
<1>3. QED
    BY <1>1, <1>2

(* An owner is never liquidated sooner than challengePeriodDaa after the   *)
(* challenge, nor by the Reserve sooner than auctionDurationDaa after      *)
(* that, however long anchor and Challenge were left lying.                *)
THEOREM OwnerIsWarned == MCSpec => OwnerWarned
<1>1. MCInit => WarningInv
    <2> SUFFICES ASSUME MCInit PROVE WarningInv
        OBVIOUS
    <2>1. LendingInv /\ warned = [p \in Positions |-> 0]
        BY InitialInv DEF MCInit
    <2>2. \A p \in Positions : challenge[p].stage = "none"
        BY DEF MCInit, Init, NoChallenge
    <2>3. QED
        BY <2>1, <2>2 DEF WarningInv, NoticeCounted
<1>2. WarningInv /\ [MCNext]_mcVars => WarningInv'
    BY WarningStep
<1>3. WarningInv /\ [MCNext]_mcVars =>
          [\A p \in Positions :
               position[p].stage = "challenged" /\ position'[p].stage = "liquidated" =>
                   /\ warned[p] >= ChallengePeriod
                   /\ reserve'.collateral > reserve.collateral =>
                          warned[p] >= FullNotice]_mcVars
    <2> SUFFICES ASSUME WarningInv, MCNext, NEW p \in Positions,
                        position[p].stage = "challenged", position'[p].stage = "liquidated"
                 PROVE  /\ warned[p] >= ChallengePeriod
                        /\ reserve'.collateral > reserve.collateral => warned[p] >= FullNotice
        OBVIOUS
    <2>1. /\ challenge[p].stage = "auction"
          /\ reserve' = reserve \/ challenge[p].age >= AuctionDuration
        BY Liquidation DEF MCNext
    <2>2. challenge[p].age \in Nat /\ NoticeCounted(p)
        <3>1. challenge[p].age \in 0..MaxAge /\ MaxAge \in Nat
            BY ChallengeFacts, ConstantFacts DEF WarningInv
        <3>2. QED
            BY <3>1 DEF WarningInv
    <2>3. warned[p] >= FullNotice \/ ChallengePeriod + challenge[p].age <= warned[p]
        BY <2>1, <2>2 DEF NoticeCounted
    <2>4. warned[p] >= ChallengePeriod
        BY <2>2, <2>3, NoticeNat DEF NoticeCounted
    <2>5. ASSUME reserve'.collateral > reserve.collateral
          PROVE  warned[p] >= FullNotice
        <3>1. reserve.collateral \in Nat
            BY ReserveFacts DEF WarningInv, LendingInv
        <3>2. challenge[p].age >= AuctionDuration
            BY <2>1, <2>5, <3>1
        <3>3. QED
            BY <2>2, <2>3, <3>2, NoticeNat DEF NoticeCounted
    <2>6. QED
        BY <2>4, <2>5
<1>4. QED
    BY <1>1, <1>2, <1>3, PTL DEF MCSpec, OwnerWarned

-----------------------------------------------------------------------------
(* What the client builds *)

(* What validate asks of the parameters, beyond the types: a Position is   *)
(* as large as a Module may mint it, and is challenged only when indebted. *)
Sized(p) ==
    /\ position[p].stage \in {"active", "challenged"} =>
           /\ position[p].collateral >= MinimumCollateral
           /\ position[p].debt <= MaxDebtPerPosition
    /\ position[p].stage = "challenged" => position[p].debt > 0

BuiltInv == LendingInv /\ \A p \in Positions : Sized(p)

LEMMA OpenWrites ==
    ASSUME LendingInv, NEW p \in Positions, p = module.opened + 1,
           NEW u, NEW debt, NEW collateral, NEW lockTime,
           Open(u, debt, collateral, lockTime)
    PROVE  /\ position'[p].stage = "active"
           /\ position'[p].owner = u /\ position'[p].debt = debt
           /\ position'[p].assigned = Contribution(debt)
           /\ position'[p].collateral = collateral
BY LendingFacts DEF Open

LEMMA RepayWrites ==
    ASSUME LendingInv, NEW p \in Positions, NEW amount, Repay(p, amount)
    PROVE  /\ position'[p].owner = position[p].owner
           /\ position'[p].debt = position[p].debt - amount
           /\ position'[p].assigned = position[p].assigned - AssignedBurn(p, amount)
           /\ position'[p].collateral = position[p].collateral
<1> DEFINE r == position[p]
           d == position[p].debt - amount
           a == position[p].assigned - AssignedBurn(p, amount)
<1>1. r \in PositionStates /\ position \in [Positions -> PositionStates]
    BY LendingFacts
<1>2. position'[p] = [r EXCEPT !.debt = d, !.assigned = a]
    BY <1>1 DEF Repay
<1> HIDE DEF r, d, a
<1>3. /\ position'[p].owner = r.owner /\ position'[p].debt = d
      /\ position'[p].assigned = a /\ position'[p].collateral = r.collateral
    BY <1>1, <1>2 DEF PositionStates
<1>4. QED
    BY <1>3 DEF r, d, a

(* A challenge and its end by avert leave the Position's state as it is. *)
LEMMA StageOnly ==
    ASSUME LendingInv, NEW p \in Positions, NEW stage,
           position' = [position EXCEPT ![p].stage = stage]
    PROVE  /\ position'[p].owner = position[p].owner /\ position'[p].debt = position[p].debt
           /\ position'[p].assigned = position[p].assigned
           /\ position'[p].collateral = position[p].collateral
<1> DEFINE r == position[p]
<1>1. r \in PositionStates /\ position \in [Positions -> PositionStates]
    BY LendingFacts
<1>2. position'[p] = [r EXCEPT !.stage = stage]
    BY <1>1
<1> HIDE DEF r
<1>3. /\ position'[p].owner = r.owner /\ position'[p].debt = r.debt
      /\ position'[p].assigned = r.assigned /\ position'[p].collateral = r.collateral
    BY <1>1, <1>2 DEF PositionStates
<1>4. QED
    BY <1>3 DEF r

LEMMA SizedStep ==
    ASSUME LendingInv, [Next]_vars, NEW p \in Positions, Sized(p)
    PROVE  Sized(p)'
<1>1. PositionMoves(p)
    BY EveryMove
<1>2. position[p].debt \in Nat
    BY PositionFacts
<1>3. ASSUME p = module.opened + 1, NEW u, NEW debt, NEW collateral, NEW lockTime,
             Open(u, debt, collateral, lockTime)
      PROVE  Sized(p)'
    <2>1. debt \in 1..MaxDebtPerPosition /\ collateral >= MinimumCollateral
        BY <1>3, LendingAssumption DEF Open
    <2>2. QED
        BY <1>3, <2>1, OpenWrites, LendingAssumption DEF Sized
<1>4. ASSUME NEW amount, Repay(p, amount), Moves(p, "active", "active", "none", "none")
      PROVE  Sized(p)'
    <2>1. amount \in 1..position[p].debt
        BY <1>4 DEF Repay
    <2>2. QED
        BY <1>2, <1>4, <2>1, RepayWrites, LendingAssumption DEF Sized, Moves
<1>5. ASSUME NEW u, StartChallenge(p, u), Moves(p, "active", "challenged", "none", "anchor")
      PROVE  Sized(p)'
    BY <1>5, StageOnly DEF Sized, Moves, StartChallenge
<1>6. ASSUME NEW u, Avert(p, u), Moves(p, "challenged", "active", "challenge", "none")
      PROVE  Sized(p)'
    BY <1>6, StageOnly DEF Sized, Moves, Avert
<1>7. ASSUME position'[p].stage \in {"closed", "liquidated"} \/ position'[p] = position[p]
      PROVE  Sized(p)'
    BY <1>7 DEF Sized
<1>8. InitChallenge(p) \/ Activate(p) => position'[p] = position[p]
    BY DEF InitChallenge, Activate
<1>9. QED
    BY <1>1, <1>3, <1>4, <1>5, <1>6, <1>7, <1>8 DEF PositionMoves, Moves

LEMMA BuiltInvariant == Spec => []BuiltInv
<1>1. Init => BuiltInv
    <2>1. ASSUME Init, NEW p \in Positions
          PROVE  Sized(p)
        BY <2>1 DEF Init, Sized, NoPosition
    <2>2. QED
        BY <2>1, InitialInv DEF BuiltInv
<1>2. BuiltInv /\ [Next]_vars => BuiltInv'
    BY LendingStep, SizedStep DEF BuiltInv
<1>3. QED
    BY <1>1, <1>2, PTL DEF Spec

(* Parameters that validate accepts. *)
LEMMA Validated ==
    ASSUME NEW c, c.debt \in Nat, c.assigned \in Nat, c.collateral \in Nat, c.remaining \in Nat,
           0 < c.debt, c.debt <= MaxDebtPerPosition, c.debt <= c.remaining,
           c.assigned <= c.debt, c.collateral >= MinimumCollateral
    PROVE  Valid(c)
BY DEF Valid

(* The parameters a script finds for a Position it can transact. *)
LEMMA ParamsFacts ==
    ASSUME BuiltInv, NEW p \in Positions, NEW c, c = ParamsOf(p)
    PROVE  /\ c.owner = position[p].owner /\ c.challenger = challenge[p].challenger
           /\ c.debt = position[p].debt /\ c.assigned = position[p].assigned
           /\ c.collateral = position[p].collateral /\ c.reserve = reserve
           /\ PositionArgs(c) = PositionOf(position[p])
           /\ PositionState(c) = PositionOf(position[p])
           /\ /\ position[p].stage \in {"active", "challenged"}
              /\ position[p].debt > 0 /\ position[p].assigned <= position[p].debt
              => Valid(c)
<1>1. /\ c.owner = position[p].owner /\ c.challenger = challenge[p].challenger
      /\ c.debt = position[p].debt /\ c.assigned = position[p].assigned
      /\ c.collateral = position[p].collateral /\ c.reserve = reserve
      /\ c.remaining = MintAllocation
    BY DEF ParamsOf
<1>2. PositionArgs(c) = PositionOf(position[p]) /\ PositionState(c) = PositionOf(position[p])
    BY <1>1 DEF PositionArgs, PositionState, PositionOf
<1>3. ASSUME position[p].stage \in {"active", "challenged"},
             position[p].debt > 0, position[p].assigned <= position[p].debt
      PROVE  Valid(c)
    <2>1. /\ position[p].collateral >= MinimumCollateral
          /\ position[p].debt <= MaxDebtPerPosition
          /\ LendingInv
        BY <1>3 DEF BuiltInv, Sized
    <2>2. /\ position[p].debt \in Nat /\ position[p].assigned \in Nat
          /\ position[p].collateral \in Nat
        BY <2>1, PositionFacts
    <2>3. /\ MaxDebtPerPosition \in Nat /\ MintAllocation \in Nat
          /\ MaxDebtPerPosition <= MintAllocation
        BY LendingAssumption
    <2>4. c.debt <= c.remaining /\ c.remaining \in Nat
        BY <1>1, <2>1, <2>2, <2>3
    <2>5. QED
        BY <1>1, <1>3, <2>1, <2>2, <2>4, Validated
<1>4. QED
    BY <1>1, <1>2, <1>3

(* ProtocolParams, and what a builder does with its own copy of them. *)
Params ==
    [owner : Users, challenger : Users, debt : Nat, assigned : Nat, collateral : Nat,
     remaining : Nat, opened : Nat, reserve : ReserveStates]

LEMMA ParamsType ==
    ASSUME LendingInv, NEW p \in Positions
    PROVE  ParamsOf(p) \in Params
<1>1. /\ module.opened \in Nat /\ reserve \in ReserveStates /\ MintAllocation \in Nat
    <2>1. module.opened \in 0..NumPositions
        BY LendingFacts DEF ModuleStates
    <2>2. reserve \in ReserveStates
        BY DEF LendingInv, ReserveInv, EquityTypeOK
    <2>3. QED
        BY <2>1, <2>2, ConstantFacts
<1>2. QED
    BY <1>1, PositionFacts, ChallengeFacts DEF ParamsOf, Params

LEMMA RepayIsBuilt ==
    ASSUME BuiltInv, [Next]_vars, NEW p \in Positions
    PROVE  RepayBuilt(p)
<1> DEFINE c == ParamsOf(p)
           amount == position[p].debt - position'[p].debt
           burn == IF amount = c.debt THEN c.assigned ELSE MulPpm(amount, ReserveContributionPpm)
           after == [c EXCEPT !.debt = @ - amount, !.assigned = @ - burn]
<1> SUFFICES ASSUME Becomes(p, "active", "active"), position'[p].debt < position[p].debt
             PROVE  /\ PositionRepayCall(c, amount) =
                           Call(TRUE, PositionOf(position[p]), PositionOf(position'[p]),
                                [position |-> assignedToken'[p]])
                    /\ CompilePositionState(c, position'[p].debt, position'[p].assigned)
                           = Artifact(TRUE, PositionOf(position'[p]))
    BY DEF RepayBuilt
<1>1. LendingInv /\ c \in Params
    BY ParamsType DEF BuiltInv
<1>2. PICK amt : Repay(p, amt)
    <2>1. PositionMoves(p) /\ position[p].debt \in Nat
        BY <1>1, EveryMove, PositionFacts
    <2>2. position'[p] # position[p] /\ position'[p] # position[p]
        BY <2>1
    <2>3. position' # position
        BY <2>2
    <2>4. ~ InitChallenge(p) /\ ~ Activate(p)
        BY <2>3 DEF InitChallenge, Activate
    <2>5. QED
        BY <2>1, <2>2, <2>4 DEF PositionMoves, Moves, Becomes
<1>3. /\ position'[p].owner = position[p].owner
      /\ position'[p].debt = position[p].debt - amt
      /\ position'[p].assigned = position[p].assigned - AssignedBurn(p, amt)
    BY <1>1, <1>2, RepayWrites
<1>4. /\ amt \in 1..position[p].debt /\ position[p].assigned <= position[p].debt
      /\ assignedToken' = Debit(assignedToken, p, AssignedBurn(p, amt))
      /\ position[p].stage = "active"
    BY <1>2 DEF Repay
<1>5. /\ position[p].debt \in Nat /\ position[p].assigned \in Nat
      /\ assignedToken[p] = position[p].assigned /\ assignedToken \in [Positions -> Nat]
    BY <1>1, PositionFacts, LendingFacts
<1>6. amount = amt
    BY <1>3, <1>4, <1>5
<1>7. /\ c.debt = position[p].debt /\ c.assigned = position[p].assigned
      /\ c.owner = position[p].owner
      /\ PositionArgs(c) = PositionOf(position[p]) /\ Valid(c)
    BY <1>4, <1>5, ParamsFacts
<1>8. burn = AssignedBurn(p, amt)
    BY <1>6, <1>7 DEF AssignedBurn, Contribution
<1>9. assignedToken'[p] = position'[p].assigned
    BY <1>3, <1>4, <1>5 DEF Debit
<1>10. /\ after.owner = c.owner /\ after.debt = c.debt - amount
       /\ after.assigned = c.assigned - burn
    <2> HIDE DEF c, amount, burn
    <2>1. QED
        BY <1>1 DEF Params
<1> HIDE DEF after
<1>11. PositionRepayCall(c, amount) =
           Call(amount \in 1..c.debt /\ Valid(c), PositionArgs(c), PositionState(after),
                [position |-> after.assigned])
    BY DEF PositionRepayCall, after
<1>12. amount \in 1..c.debt
    BY <1>4, <1>6, <1>7
<1> DEFINE d == position'[p].debt
           a == position'[p].assigned
           same == [c EXCEPT !.debt = d, !.assigned = a]
<1>13. CompilePositionState(c, d, a) = Artifact(Valid(c), PositionArgs(same))
    BY DEF CompilePositionState
<1> HIDE DEF c, amount, burn, d, a
<1>14. same.owner = c.owner /\ same.debt = d /\ same.assigned = a
    BY <1>1 DEF Params
<1> HIDE DEF same
<1>15. PositionState(after) = PositionOf(position'[p]) /\ after.assigned = a
    BY <1>3, <1>6, <1>7, <1>8, <1>10 DEF PositionState, PositionOf, a
<1>16. PositionArgs(same) = PositionOf(position'[p])
    BY <1>3, <1>7, <1>14 DEF PositionArgs, PositionOf, a, d
<1>17. QED
    BY <1>7, <1>9, <1>11, <1>12, <1>13, <1>15, <1>16 DEF d, a

LEMMA CloseIsBuilt ==
    ASSUME BuiltInv, [Next]_vars, NEW p \in Positions
    PROVE  CloseBuilt(p)
<1> DEFINE c == ParamsOf(p)
           once == [c EXCEPT !.debt = 1]
<1> SUFFICES ASSUME Becomes(p, "active", "closed")
             PROVE  PositionCloseCall(once) = Call(TRUE, PositionOf(position[p]), <<>>, <<>>)
    BY DEF CloseBuilt
<1>1. LendingInv /\ c \in Params
    BY ParamsType DEF BuiltInv
<1>2. Close(p)
    <2>1. PositionMoves(p)
        BY <1>1, EveryMove
    <2>2. QED
        BY <2>1 DEF PositionMoves, Moves, Becomes
<1>3. position[p].debt = 0 /\ position[p].assigned = 0 /\ position[p].stage = "active"
    BY <1>2 DEF Close
<1>4. /\ c.assigned = 0 /\ c.owner = position[p].owner
      /\ c.collateral = position[p].collateral /\ c.remaining = MintAllocation
    BY <1>3 DEF ParamsOf
<1> HIDE DEF c
<1>5. /\ once.debt = 1 /\ once.assigned = 0 /\ once.owner = position[p].owner
      /\ once.collateral = position[p].collateral /\ once.remaining = MintAllocation
      /\ once \in Params
    BY <1>1, <1>4 DEF Params
<1> HIDE DEF once
<1>6. Valid(once)
    <2>1. position[p].collateral >= MinimumCollateral /\ position[p].collateral \in Nat
        BY <1>1, <1>3, PositionFacts DEF BuiltInv, Sized
    <2>2. 1 <= MaxDebtPerPosition /\ 1 <= MintAllocation /\ MintAllocation \in Nat
        BY LendingAssumption
    <2>3. QED
        BY <1>5, <2>1, <2>2, Validated
<1> DEFINE repaid == [once EXCEPT !.debt = 0, !.assigned = 0]
<1>7. repaid.owner = once.owner /\ repaid.debt = 0 /\ repaid.assigned = 0
    BY <1>5 DEF Params
<1>8. PositionCloseCall(once) = Call(Valid(once), PositionArgs(repaid), <<>>, <<>>)
    BY DEF PositionCloseCall
<1> HIDE DEF repaid
<1>9. PositionArgs(repaid) = PositionOf(position[p])
    BY <1>3, <1>5, <1>7 DEF PositionArgs, PositionOf
<1>10. QED
    BY <1>6, <1>8, <1>9

LEMMA ChallengeIsBuilt ==
    ASSUME BuiltInv, [Next]_vars, NEW p \in Positions
    PROVE  ChallengeBuilt(p)
<1> DEFINE c == ParamsOf(p)
           challenger == challenge'[p].challenger
           lineage == LineageOf(position[p], challenge[p])
           next == LineageOf(position'[p], challenge'[p])
           copied == [owner |-> position[p].owner, challenger |-> challenger,
                      debt |-> position[p].debt, assigned |-> position[p].assigned,
                      collateral |-> position[p].collateral]
<1> SUFFICES ASSUME c.assigned <= c.debt
             PROVE  /\ Becomes(p, "active", "challenged") =>
                          StartChallengeCall(c, challenger)
                              = Call(TRUE, PositionOf(position[p]),
                                     [position |-> PositionOf(position'[p]),
                                      challenge |-> next], <<>>)
                    /\ LineageBecomes(p, "anchor", "challenge") =>
                          AnchorInitCall(c, challenger) = Call(TRUE, lineage, next, <<>>)
                    /\ LineageBecomes(p, "challenge", "auction") =>
                          ChallengeActivateCall(c, challenger) = Call(TRUE, lineage, next, <<>>)
    BY DEF ChallengeBuilt
<1>1. LendingInv /\ Sized(p) /\ PositionMoves(p)
    BY EveryMove DEF BuiltInv
<1>2. /\ c.owner = position[p].owner /\ c.debt = position[p].debt
      /\ c.assigned = position[p].assigned /\ c.collateral = position[p].collateral
      /\ c.challenger = challenge[p].challenger
      /\ PositionArgs(c) = PositionOf(position[p]) /\ PositionState(c) = PositionOf(position[p])
      /\ position[p].stage \in {"active", "challenged"} /\ position[p].debt > 0 => Valid(c)
    BY ParamsFacts
<1>3. ChallengeState(c, challenger) = copied /\ AuctionState(c, challenger) = copied
    BY <1>2 DEF ChallengeState, AuctionState
<1>4. ASSUME Becomes(p, "active", "challenged")
      PROVE  StartChallengeCall(c, challenger)
                 = Call(TRUE, PositionOf(position[p]),
                        [position |-> PositionOf(position'[p]), challenge |-> next], <<>>)
    <2>1. PICK u \in Users : StartChallenge(p, u)
        BY <1>1, <1>4 DEF PositionMoves, Moves, Becomes
    <2>2. /\ position'[p].owner = position[p].owner /\ position'[p].debt = position[p].debt
          /\ position'[p].assigned = position[p].assigned
        BY <1>1, <2>1, StageOnly DEF StartChallenge
    <2>3. position[p].debt > 0 /\ position[p].stage = "active"
        BY <2>1 DEF StartChallenge
    <2>4. /\ challenge'[p].debt = position[p].debt
          /\ challenge'[p].assigned = position[p].assigned
          /\ challenge'[p].collateral = position[p].collateral
        BY <1>1, <2>1, LendingFacts DEF StartChallenge
    <2>5. next = copied
        BY <2>2, <2>4 DEF LineageOf
    <2>6. PositionOf(position'[p]) = PositionOf(position[p])
        BY <2>2 DEF PositionOf
    <2> HIDE DEF c, next, copied
    <2>7. QED
        BY <1>2, <1>3, <2>3, <2>5, <2>6 DEF StartChallengeCall
<1>5. ASSUME NEW from, NEW to, Moves(p, "challenged", "challenged", from, to),
             InitChallenge(p) \/ Activate(p)
      PROVE  /\ next = copied /\ lineage = copied /\ Valid(c)
             /\ ChallengeArgs(c) = copied
    <2>1. position' = position /\ challenge[p] \in ChallengeStates
        BY <1>1, <1>5, ChallengeFacts DEF InitChallenge, Activate
    <2>2. \E stage : challenge'[p] = [challenge[p] EXCEPT !.stage = stage, !.age = 0]
        BY <1>1, <1>5, LendingFacts DEF InitChallenge, Activate
    <2>3. /\ challenge'[p].challenger = challenge[p].challenger
          /\ challenge'[p].debt = challenge[p].debt
          /\ challenge'[p].assigned = challenge[p].assigned
          /\ challenge'[p].collateral = challenge[p].collateral
        BY <2>1, <2>2 DEF ChallengeStates
    <2>4. /\ challenge[p].debt = position[p].debt /\ challenge[p].assigned = position[p].assigned
          /\ challenge[p].collateral = position[p].collateral
        <3>1. challenge[p].stage # "none"
            BY <1>5 DEF InitChallenge, Activate
        <3>2. QED
            BY <1>1, <3>1, ChallengeFacts DEF SameTerms
    <2>5. next = copied /\ lineage = copied
        BY <2>1, <2>3, <2>4 DEF LineageOf
    <2>6. position[p].stage = "challenged" /\ position[p].debt > 0
        BY <1>1, <1>5 DEF Moves, Sized
    <2>7. ChallengeArgs(c) = copied
        BY <1>2, <2>3 DEF ChallengeArgs
    <2> HIDE DEF c, next, copied, lineage
    <2>8. QED
        BY <1>2, <2>5, <2>6, <2>7
<1>6. ASSUME LineageBecomes(p, "anchor", "challenge")
      PROVE  AnchorInitCall(c, challenger) = Call(TRUE, lineage, next, <<>>)
    <2>1. InitChallenge(p) /\ Moves(p, "challenged", "challenged", "anchor", "challenge")
        BY <1>1, <1>6 DEF PositionMoves, Moves, LineageBecomes
    <2>2. next = copied /\ lineage = copied /\ Valid(c) /\ ChallengeArgs(c) = copied
        BY <1>5, <2>1
    <2> HIDE DEF c, next, copied, lineage
    <2>3. QED
        BY <1>3, <2>2 DEF AnchorInitCall, AnchorArgs
<1>7. ASSUME LineageBecomes(p, "challenge", "auction")
      PROVE  ChallengeActivateCall(c, challenger) = Call(TRUE, lineage, next, <<>>)
    <2>1. Activate(p) /\ Moves(p, "challenged", "challenged", "challenge", "auction")
        BY <1>1, <1>7 DEF PositionMoves, Moves, LineageBecomes
    <2>2. next = copied /\ lineage = copied /\ Valid(c) /\ ChallengeArgs(c) = copied
        BY <1>5, <2>1
    <2> HIDE DEF c, next, copied, lineage
    <2>3. QED
        BY <1>3, <2>2 DEF ChallengeActivateCall
<1>8. QED
    BY <1>4, <1>6, <1>7

LEMMA AvertIsBuilt ==
    ASSUME BuiltInv, [Next]_vars, NEW p \in Positions
    PROVE  AvertBuilt(p)
<1> DEFINE c == ParamsOf(p)
           lineage == LineageOf(position[p], challenge[p])
           price == (c.collateral * LiquidationPrice) \div SompiPerKas
           ch == c.challenger
<1> SUFFICES ASSUME Becomes(p, "challenged", "active"), c.assigned <= c.debt
             PROVE  /\ ChallengedPositionAvertCall(c, ch)
                           = Call(TRUE, PositionOf(position[p]),
                                  [position |-> PositionOf(position'[p]),
                                   challenge |-> lineage], <<>>)
                    /\ ChallengeAvertCall(c) = Call(TRUE, lineage, <<>>, [challenger |-> price])
                    /\ Received(ch) \in {0, price}
    BY DEF AvertBuilt, Call
<1>1. LendingInv /\ Sized(p) /\ PositionMoves(p)
    BY EveryMove DEF BuiltInv
<1>2. PICK u \in Users : Avert(p, u)
    BY <1>1 DEF PositionMoves, Moves, Becomes
<1>3. /\ c.owner = position[p].owner /\ c.debt = position[p].debt
      /\ c.assigned = position[p].assigned /\ c.collateral = position[p].collateral
      /\ ch = challenge[p].challenger
      /\ PositionArgs(c) = PositionOf(position[p]) /\ PositionState(c) = PositionOf(position[p])
      /\ Valid(c)
    BY <1>1, ParamsFacts DEF Becomes, Sized
<1>4. PositionOf(position'[p]) = PositionOf(position[p])
    BY <1>1, <1>2, StageOnly DEF Avert, PositionOf
<1>5. /\ challenge[p].debt = position[p].debt /\ challenge[p].assigned = position[p].assigned
      /\ challenge[p].collateral = position[p].collateral
    BY <1>2 DEF Avert, SameTerms
<1>6. ChallengeState(c, ch) = lineage /\ ChallengeArgs(c) = lineage
    BY <1>3, <1>5 DEF ChallengeState, ChallengeArgs, LineageOf
<1>7. /\ price \in Nat
      /\ kusd' = Credit(Debit(kusd, u, price), ch, price)
    <2>1. ReferenceValue(challenge[p].collateral, LiquidationPrice) = price
        BY <1>3, <1>5 DEF ReferenceValue, MulDivFloor
    <2>2. ReferenceValue(challenge[p].collateral, LiquidationPrice) \in Nat
        BY <1>1, ChallengeFacts, ReferenceValueNat
    <2>3. QED
        BY <1>2, <1>3, <2>1, <2>2 DEF Avert
<1>8. Received(ch) \in {0, price}
    <2>1. kusd \in [Users -> Nat] /\ ch \in Users
        BY <1>1, <1>3, ChallengeFacts DEF LendingInv, ReserveInv, EquityTypeOK
    <2> HIDE DEF price, ch
    <2>2. QED
        BY <1>7, <2>1 DEF Credit, Debit, Received
<1>9. ChallengedPositionArgs(c) = PositionArgs(c)
    BY DEF ChallengedPositionArgs, PositionArgs
<1>10. ChallengeAvertCall(c) = Call(Valid(c), ChallengeArgs(c), <<>>, [challenger |-> price])
    BY DEF ChallengeAvertCall
<1> HIDE DEF c, lineage, ch, price
<1>11. QED
    BY <1>3, <1>4, <1>6, <1>8, <1>9, <1>10 DEF ChallengedPositionAvertCall

(* Three payments, each to its receiver. *)
LEMMA ThreePayments ==
    ASSUME NEW u, NEW a, NEW x \in Int, NEW b, NEW y \in Int, NEW d, NEW z \in Int
    PROVE  Together(u, <<<<a, x>>, <<b, y>>, <<d, z>>>>)
               = (IF a = u THEN x ELSE 0) + (IF b = u THEN y ELSE 0) + (IF d = u THEN z ELSE 0)
<1> DEFINE payments == <<<<a, x>>, <<b, y>>, <<d, z>>>>
           f == [i \in 1..3 |-> IF payments[i][1] = u THEN payments[i][2] ELSE 0]
<1>1. /\ f[1] = IF a = u THEN x ELSE 0
      /\ f[2] = IF b = u THEN y ELSE 0
      /\ f[3] = IF d = u THEN z ELSE 0
    OBVIOUS
<1>2. Together(u, payments) = SumTo(f, 3)
    <2>1. Len(payments) = 3
        OBVIOUS
    <2>2. QED
        BY <2>1 DEF Together
<1> HIDE DEF f
<1>3. /\ SumTo(f, 0) = 0 /\ SumTo(f, 0 + 1) = SumTo(f, 0) + f[0 + 1]
      /\ SumTo(f, 1 + 1) = SumTo(f, 1) + f[1 + 1] /\ SumTo(f, 2 + 1) = SumTo(f, 2) + f[2 + 1]
    BY SumZero, SumStep
<1>4. SumTo(f, 3) = f[1] + f[2] + f[3]
    BY <1>1, <1>3
<1>5. QED
    BY <1>1, <1>2, <1>4

(* The builder's price of an Auction is the covenant's. *)
LEMMA SettleCallPays ==
    ASSUME NEW c, NEW k \in ChallengeStates, NEW elapsed \in 0..AuctionDuration, Valid(c),
           k.debt = c.debt, k.assigned = c.assigned, k.collateral = c.collateral,
           c.debt \in Nat, c.assigned \in Nat, c.collateral \in Nat, k.assigned <= k.debt
    PROVE  AuctionSettleCall(c, elapsed)
               = Call(TRUE, AuctionArgs(c), <<>>,
                      [challenger |-> Reward(k.debt),
                       owner |-> AuctionPayment(k, elapsed) - FloorPayment(k.debt, k.assigned)])
<1> DEFINE floorPayment == FloorPayment(k.debt, k.assigned)
           value == ReferenceValue(k.collateral, LiquidationPrice)
           start == IF value < floorPayment THEN floorPayment ELSE value
           first == IF value > floorPayment THEN value ELSE floorPayment
           discount == ((start - floorPayment) * elapsed) \div AuctionDuration
<1>1. value \in Nat /\ floorPayment \in Nat /\ AuctionPayment(k, elapsed) \in Nat
    BY ReferenceValueNat, AuctionPaymentCoversFloor
<1>2. /\ Reward(k.debt) = MulPpm(c.debt, RewardPpm)
      /\ floorPayment = c.debt - c.assigned + MulPpm(c.debt, RewardPpm)
      /\ value = (c.collateral * LiquidationPrice) \div SompiPerKas
    BY DEF Reward, FloorPayment, ReferenceValue, MulDivFloor
<1>3. AuctionPayment(k, elapsed) = start - discount
    BY DEF AuctionPayment
<1>4. AuctionSettleCall(c, elapsed)
          = Call(Valid(c) /\ elapsed \in 0..AuctionDuration, AuctionArgs(c), <<>>,
                 [challenger |-> Reward(k.debt),
                  owner |-> first - MulDivFloor(first - floorPayment, elapsed, AuctionDuration)
                                - floorPayment])
    BY <1>2 DEF AuctionSettleCall
<1> HIDE DEF value, floorPayment
<1>5. first = start
    BY <1>1
<1>6. MulDivFloor(first - floorPayment, elapsed, AuctionDuration) = discount
    BY <1>5 DEF MulDivFloor
<1> HIDE DEF discount, first, start
<1>7. QED
    BY <1>3, <1>4, <1>5, <1>6 DEF floorPayment

(* What a Position and the copy in its lineage agree on when both are spent. *)
LEMMA SpentTogether ==
    ASSUME BuiltInv, NEW p \in Positions, NEW c, c = ParamsOf(p), SameTerms(p),
           position[p].assigned <= position[p].debt
    PROVE  /\ Valid(c)
           /\ PositionArgs(c) = PositionOf(position[p])
           /\ AuctionArgs(c) = LineageOf(position[p], challenge[p])
           /\ AuctionState(c, c.challenger) = LineageOf(position[p], challenge[p])
           /\ c.owner = position[p].owner /\ c.owner \in Users
           /\ c.challenger = challenge[p].challenger /\ c.challenger \in Users
           /\ c.debt = challenge[p].debt /\ c.debt \in Nat
           /\ c.assigned = challenge[p].assigned /\ c.assigned \in Nat
           /\ c.collateral = challenge[p].collateral /\ c.collateral \in Nat
<1>1. LendingInv /\ Sized(p)
    BY DEF BuiltInv
<1>2. /\ c.owner = position[p].owner /\ c.challenger = challenge[p].challenger
      /\ c.debt = position[p].debt /\ c.assigned = position[p].assigned
      /\ c.collateral = position[p].collateral
      /\ PositionArgs(c) = PositionOf(position[p])
    BY ParamsFacts
<1>3. Valid(c)
    <2>1. position[p].stage = "challenged" /\ position[p].debt > 0
        BY <1>1 DEF SameTerms, Sized
    <2>2. QED
        BY <2>1, ParamsFacts
<1>4. /\ challenge[p].debt = position[p].debt /\ challenge[p].assigned = position[p].assigned
      /\ challenge[p].collateral = position[p].collateral
    BY DEF SameTerms
<1>5. /\ AuctionArgs(c) = LineageOf(position[p], challenge[p])
      /\ AuctionState(c, c.challenger) = LineageOf(position[p], challenge[p])
    BY <1>2, <1>4 DEF AuctionArgs, AuctionState, LineageOf
<1>6. QED
    BY <1>1, <1>2, <1>3, <1>4, <1>5, PositionFacts, ChallengeFacts

(* Which of the two ends of an Auction it was shows in the Reserve. *)
LEMMA BackstopChangesReserve ==
    ASSUME BuiltInv, NEW p \in Positions, Backstop(p)
    PROVE  /\ reserve' # reserve
           /\ challenge[p].collateral \in Nat
<1>1. /\ LendingInv /\ SameTerms(p) /\ reserve \in ReserveStates
      /\ reserve' = [reserve EXCEPT
             !.kusd = @ - FloorPayment(challenge[p].debt, challenge[p].assigned),
             !.collateral = @ + challenge[p].collateral]
    BY DEF Backstop, ReserveBackstop, BuiltInv, LendingInv, ReserveInv, EquityTypeOK
<1>2. challenge[p].collateral = position[p].collateral /\ position[p].stage = "challenged"
    BY <1>1 DEF SameTerms
<1>3. position[p].collateral >= MinimumCollateral /\ position[p].collateral \in Nat
    BY <1>1, <1>2, PositionFacts DEF BuiltInv, Sized
<1>4. challenge[p].collateral > 0 /\ challenge[p].collateral \in Nat
    BY <1>2, <1>3, LendingAssumption
<1>5. reserve'.collateral = reserve.collateral + challenge[p].collateral
    BY <1>1 DEF ReserveStates
<1>6. reserve.collateral \in Nat
    BY <1>1 DEF ReserveStates
<1>7. QED
    BY <1>4, <1>5, <1>6

(* What a wallet gains when one of the wallets is paid. *)
LEMMA CreditAt ==
    ASSUME NEW f \in [Users -> Int], NEW k \in Users, NEW amount \in Int, NEW u \in Users
    PROVE  /\ Credit(f, k, amount) \in [Users -> Int]
           /\ Credit(f, k, amount)[u] = f[u] + (IF k = u THEN amount ELSE 0)
BY DEF Credit

LEMMA DebitAt ==
    ASSUME NEW f \in [Users -> Int], NEW k \in Users, NEW amount \in Int, NEW u \in Users
    PROVE  /\ Debit(f, k, amount) \in [Users -> Int]
           /\ Debit(f, k, amount)[u] = f[u] - (IF k = u THEN amount ELSE 0)
BY DEF Debit

LEMMA SettleIsBuilt ==
    ASSUME BuiltInv, [Next]_vars, NEW p \in Positions
    PROVE  SettleBuilt(p)
<1> DEFINE c == ParamsOf(p)
           k == challenge[p]
<1> SUFFICES ASSUME Becomes(p, "challenged", "liquidated"), reserve' = reserve
             PROVE  /\ PositionSettleCall(c) = Call(TRUE, PositionOf(position[p]), <<>>, <<>>)
                    /\ \E elapsed \in 0..AuctionDuration, bidder \in Users :
                          LET call == AuctionSettleCall(c, elapsed)
                              payment == FloorPayment(c.debt, c.assigned) + call.paid.owner
                          IN  /\ call.built
                              /\ call.spent = LineageOf(position[p], k)
                              /\ \A u \in Users :
                                    Received(u) = Together(u,
                                        <<<<bidder, 0 - payment>>,
                                          <<c.owner, call.paid.owner>>,
                                          <<c.challenger, call.paid.challenger>>>>)
    BY DEF SettleBuilt
<1>1. LendingInv /\ PositionMoves(p)
    BY EveryMove DEF BuiltInv
<1>2. PICK bidder \in Users : \E elapsed : Settle(p, bidder, elapsed)
    BY <1>1, BackstopChangesReserve DEF PositionMoves, Moves, Becomes
<1>3. PICK elapsed : Settle(p, bidder, elapsed)
    BY <1>2
<1>4. SameTerms(p) /\ k.assigned <= k.debt /\ position[p].assigned <= position[p].debt
    BY <1>3 DEF Settle, Executable, SameTerms
<1>5. /\ Valid(c)
      /\ PositionArgs(c) = PositionOf(position[p])
      /\ AuctionArgs(c) = LineageOf(position[p], k)
      /\ c.owner = position[p].owner /\ c.owner \in Users
      /\ c.challenger = k.challenger /\ c.challenger \in Users
      /\ c.debt = k.debt /\ c.debt \in Nat
      /\ c.assigned = k.assigned /\ c.assigned \in Nat
      /\ c.collateral = k.collateral /\ c.collateral \in Nat
      /\ k \in ChallengeStates
    BY <1>1, <1>4, SpentTogether, ChallengeFacts
<1>6. elapsed \in 0..AuctionDuration
    <2>1. k.age \in 0..MaxAge /\ MaxAge \in Nat /\ AuctionDuration \in Nat
        BY <1>1, ChallengeFacts, ConstantFacts
    <2>2. elapsed \in 0..k.age /\ elapsed <= AuctionDuration
        BY <1>3 DEF Settle
    <2>3. QED
        BY <2>1, <2>2
<1> DEFINE payment == AuctionPayment(k, elapsed)
           floorPayment == FloorPayment(k.debt, k.assigned)
           surplus == payment - floorPayment
           reward == Reward(k.debt)
           call == AuctionSettleCall(c, elapsed)
<1>7. payment \in Nat /\ floorPayment \in Nat /\ surplus \in Nat /\ reward \in Nat
    <2>1. payment \in Nat /\ floorPayment \in Nat /\ payment >= floorPayment
        BY <1>4, <1>5, <1>6, AuctionPaymentCoversFloor
    <2>2. reward \in Nat
        BY <1>5, RewardNat
    <2> HIDE DEF payment, floorPayment, reward
    <2>3. QED
        BY <2>1, <2>2
<1>8. kusd' = Credit(Credit(Debit(kusd, bidder, payment), c.challenger, reward), c.owner, surplus)
    BY <1>3, <1>5 DEF Settle
<1>9. call = Call(TRUE, AuctionArgs(c), <<>>, [challenger |-> reward, owner |-> surplus])
    BY <1>4, <1>5, <1>6, SettleCallPays
<1>10. FloorPayment(c.debt, c.assigned) = floorPayment
    BY <1>5
<1>11. PositionSettleCall(c) = Call(TRUE, PositionOf(position[p]), <<>>, <<>>)
    BY <1>5 DEF PositionSettleCall, ChallengedPositionArgs, PositionArgs
<1>12. kusd \in [Users -> Nat]
    BY <1>1 DEF LendingInv, ReserveInv, EquityTypeOK
<1> HIDE DEF c, k, call, payment, floorPayment, surplus, reward
<1>13. /\ call.built /\ call.spent = LineageOf(position[p], k)
       /\ call.paid.owner = surplus /\ call.paid.challenger = reward
    BY <1>5, <1>9 DEF Call
<1>14. floorPayment + surplus = payment
    BY <1>7 DEF surplus
<1>15. ASSUME NEW u \in Users
       PROVE  Received(u) = Together(u, <<<<bidder, 0 - payment>>, <<c.owner, surplus>>,
                                          <<c.challenger, reward>>>>)
    <2> DEFINE owner == c.owner
               challenger == c.challenger
               paid == Debit(kusd, bidder, payment)
               rewarded == Credit(paid, challenger, reward)
               settled == Credit(rewarded, owner, surplus)
    <2>0. kusd' = settled
        BY <1>8
    <2>1. owner \in Users /\ challenger \in Users
        BY <1>5
    <2>2. /\ kusd \in [Users -> Int]
          /\ payment \in Int /\ 0 - payment \in Int /\ reward \in Int /\ surplus \in Int
        BY <1>7, <1>12
    <2> HIDE DEF owner, challenger
    <2>3. paid \in [Users -> Int] /\ paid[u] = kusd[u] - (IF bidder = u THEN payment ELSE 0)
        BY <2>2, DebitAt
    <2> HIDE DEF paid
    <2>4. /\ rewarded \in [Users -> Int]
          /\ rewarded[u] = paid[u] + (IF challenger = u THEN reward ELSE 0)
        BY <2>1, <2>2, <2>3, CreditAt
    <2> HIDE DEF rewarded
    <2>5. settled[u] = rewarded[u] + (IF owner = u THEN surplus ELSE 0)
        BY <2>1, <2>2, <2>4, CreditAt
    <2> HIDE DEF settled
    <2>6. Together(u, <<<<bidder, 0 - payment>>, <<owner, surplus>>, <<challenger, reward>>>>)
              = (IF bidder = u THEN 0 - payment ELSE 0) + (IF owner = u THEN surplus ELSE 0)
                    + (IF challenger = u THEN reward ELSE 0)
        BY <2>2, ThreePayments
    <2>7. kusd[u] \in Int /\ paid[u] \in Int /\ rewarded[u] \in Int
        BY <2>2, <2>3, <2>4
    <2> DEFINE together ==
            Together(u, <<<<bidder, 0 - payment>>, <<owner, surplus>>, <<challenger, reward>>>>)
    <2> HIDE DEF together
    <2>8. settled[u] - kusd[u] = together
        BY <2>2, <2>3, <2>4, <2>5, <2>6, <2>7 DEF together
    <2>9. Received(u) = together
        BY <2>0, <2>8 DEF Received
    <2>10. QED
        BY <2>9 DEF together, owner, challenger
<1>16. QED
    BY <1>6, <1>10, <1>11, <1>13, <1>14, <1>15 DEF call, k

LEMMA BackstopIsBuilt ==
    ASSUME BuiltInv, [Next]_vars, NEW p \in Positions
    PROVE  BackstopBuilt(p)
<1> DEFINE c == ParamsOf(p)
           k == challenge[p]
           reward == Received(c.challenger)
           lineage == LineageOf(position[p], k)
           next == [c EXCEPT !.reserve.kusd = reserve'.kusd,
                             !.reserve.collateral = reserve'.collateral]
<1> SUFFICES ASSUME Becomes(p, "challenged", "liquidated"), reserve' # reserve
             PROVE  /\ AuctionBackstopCall(c, c.challenger, reserve'.kusd, reserve'.collateral)
                           = Call(TRUE, lineage, ReserveOf(reserve'), [challenger |-> reward])
                    /\ ReserveBackstopCall(c, c.challenger, reserve'.kusd, reserve'.collateral)
                           = Call(TRUE, ReserveOf(reserve),
                                  [reserve |-> ReserveOf(reserve'), auction |-> lineage],
                                  [reserve |-> reserveToken', challenger |-> reward])
    BY DEF BackstopBuilt
<1>1. LendingInv /\ PositionMoves(p)
    BY EveryMove DEF BuiltInv
<1>2. Backstop(p)
    BY <1>1 DEF PositionMoves, Moves, Becomes, Settle
<1>3. SameTerms(p) /\ k.assigned <= k.debt /\ position[p].assigned <= position[p].debt
    BY <1>2 DEF Backstop, Executable, SameTerms
<1>4. /\ Valid(c)
      /\ AuctionArgs(c) = lineage /\ AuctionState(c, c.challenger) = lineage
      /\ c.challenger = k.challenger /\ c.challenger \in Users
      /\ c.debt = k.debt /\ c.debt \in Nat
    BY <1>3, SpentTogether
<1>5. c \in Params /\ c.reserve = reserve /\ reserve \in ReserveStates
    BY <1>1, ParamsType, ParamsFacts DEF LendingInv, ReserveInv, EquityTypeOK
<1> DEFINE payment == FloorPayment(k.debt, k.assigned)
<1>6. /\ reserve' = [reserve EXCEPT !.kusd = @ - payment, !.collateral = @ + k.collateral]
      /\ reserveToken' = reserveToken - payment /\ reserveToken = reserve.kusd
      /\ kusd' = Credit(kusd, k.challenger, Reward(k.debt))
    BY <1>2 DEF Backstop, ReserveBackstop
<1>7. reserve'.kps = reserve.kps /\ reserveToken' = reserve'.kusd
    <2> HIDE DEF payment
    <2> QED BY <1>5, <1>6 DEF ReserveStates
<1>8. /\ next.reserve.kusd = reserve'.kusd /\ next.reserve.kps = reserve.kps
      /\ next.reserve.collateral = reserve'.collateral
    <2> HIDE DEF c
    <2>1. QED
        BY <1>5 DEF Params, ReserveStates
<1>9. reward = (c.debt * RewardPpm) \div PPM
    <2>1. kusd \in [Users -> Nat] /\ Reward(k.debt) \in Nat
        BY <1>1, <1>4, RewardNat DEF LendingInv, ReserveInv, EquityTypeOK
    <2>2. reward = Reward(k.debt)
        BY <1>4, <1>6, <2>1 DEF Received, Credit
    <2>3. RewardPpm \in Nat
        BY RewardPpmNat
    <2>4. QED
        BY <1>4, <2>2, <2>3, SharesExact DEF Reward, MulDivFloor
<1>10. /\ AuctionBackstopCall(c, c.challenger, reserve'.kusd, reserve'.collateral)
              = Call(Valid(c), AuctionArgs(c), ReserveState(next),
                     [challenger |-> (c.debt * RewardPpm) \div PPM])
       /\ ReserveBackstopCall(c, c.challenger, reserve'.kusd, reserve'.collateral)
              = Call(Valid(c), ReserveArgs(c.reserve.kusd, c.reserve.kps, c.reserve.collateral),
                     [reserve |-> ReserveState(next), auction |-> AuctionState(c, c.challenger)],
                     [reserve |-> reserve'.kusd, challenger |-> (c.debt * RewardPpm) \div PPM])
    BY DEF AuctionBackstopCall, ReserveBackstopCall
<1> HIDE DEF c, k, reward, next, lineage
<1>11. /\ ReserveState(next) = ReserveOf(reserve')
       /\ ReserveArgs(c.reserve.kusd, c.reserve.kps, c.reserve.collateral) = ReserveOf(reserve)
    BY <1>5, <1>7, <1>8 DEF ReserveState, ReserveArgs, ReserveOf
<1>12. QED
    BY <1>4, <1>7, <1>9, <1>10, <1>11

(* What ModuleOpenCall announces when the parameters are those of an Open. *)
LEMMA OpenCallPays ==
    ASSUME NEW c \in Params, NEW lockTime \in Nat, lockTime < ExpirationDaa,
           Valid(c), c.assigned = Contribution(c.debt),
           ReserveContributionPpm + FeePpm(lockTime) < PPM,
           c.debt - Contribution(c.debt) - MulPpm(c.debt, FeePpm(lockTime)) > 0
    PROVE  ModuleOpenCall(c, ExpirationDaa - lockTime)
               = Call(TRUE, [remaining |-> c.remaining, opened |-> c.opened],
                      [module |-> [remaining |-> c.remaining - c.debt, opened |-> c.opened + 1],
                       position |-> [owner |-> c.owner, debt |-> c.debt, assigned |-> c.assigned]],
                      [owner |-> c.debt - Contribution(c.debt) - MulPpm(c.debt, FeePpm(lockTime)),
                       position |-> c.assigned, reserve |-> MulPpm(c.debt, FeePpm(lockTime))])
<1> DEFINE term == ExpirationDaa - lockTime
           fee == FeePpm(lockTime)
           next == [c EXCEPT !.remaining = @ - c.debt, !.opened = @ + 1]
<1>1. term \in Nat /\ c.debt \in Nat
    BY ConstantFacts DEF Params
<1>2. fee \in Nat /\ fee = (RiskPremiumPpm * term) \div DaaPerYear
    <2>1. RiskPremiumPpm * term \in Nat
        BY <1>1, RatesNat, ProductNat
    <2>2. QED
        BY <2>1, ConstantFacts, DivFloor DEF FeePpm
<1>3. /\ MulDivFloor(c.debt, ReserveContributionPpm, PPM) = Contribution(c.debt)
      /\ MulDivFloor(c.debt, fee, PPM) = MulPpm(c.debt, fee)
    BY <1>1, <1>2, RatesNat, SharesExact DEF Contribution
<1>4. /\ next.remaining = c.remaining - c.debt /\ next.opened = c.opened + 1
    BY DEF Params
<1>5. /\ ModuleState(next) = [remaining |-> c.remaining - c.debt, opened |-> c.opened + 1]
      /\ ModuleArgs(c) = [remaining |-> c.remaining, opened |-> c.opened]
      /\ NewPositionState(c) = [owner |-> c.owner, debt |-> c.debt, assigned |-> c.assigned]
    <2> HIDE DEF next
    <2> QED BY <1>4 DEF ModuleState, ModuleArgs, NewPositionState
<1>6. ModuleOpenCall(c, term)
          = Call(/\ Valid(c)
                 /\ term >= 0
                 /\ ReserveContributionPpm + fee < PPM
                 /\ Contribution(c.debt) = c.assigned
                 /\ c.debt - Contribution(c.debt) - MulPpm(c.debt, fee) > 0,
                 ModuleArgs(c),
                 [module |-> ModuleState(next), position |-> NewPositionState(c)],
                 [owner |-> c.debt - Contribution(c.debt) - MulPpm(c.debt, fee),
                  position |-> Contribution(c.debt), reserve |-> MulPpm(c.debt, fee)])
    <2> HIDE DEF term, fee
    <2>1. QED
        BY <1>2, <1>3 DEF ModuleOpenCall
<1> HIDE DEF next, term
<1>7. term >= 0
    BY <1>1
<1>8. QED
    BY <1>5, <1>6, <1>7 DEF term

LEMMA OpenIsBuilt ==
    ASSUME BuiltInv, [Next]_vars, NEW p \in Positions
    PROVE  OpenBuilt(p)
<1> DEFINE r == position'[p]
           c == [ParamsOf(p) EXCEPT !.owner = r.owner, !.debt = r.debt, !.assigned = r.assigned,
                                    !.collateral = r.collateral, !.remaining = module.remaining]
           state == [c EXCEPT !.remaining = module'.remaining, !.opened = module'.opened]
<1> SUFFICES ASSUME Becomes(p, "unopened", "active")
             PROVE  /\ \E lockTime \in module.since..now :
                          LET call == ModuleOpenCall(c, ExpirationDaa - lockTime)
                          IN  /\ call.built
                              /\ call.spent = ModuleOf(module)
                              /\ call.next = [module |-> ModuleOf(module'),
                                              position |-> PositionOf(r)]
                              /\ call.paid = [owner |-> Received(c.owner),
                                              position |-> assignedToken'[p],
                                              reserve |-> feeToken'[p]]
                    /\ module'.remaining >= c.debt =>
                          Artifact(Valid(state), ModuleArgs(state))
                              = Artifact(TRUE, ModuleOf(module'))
    BY DEF OpenBuilt, CompileModuleState
<1>1. LendingInv /\ PositionMoves(p)
    BY EveryMove DEF BuiltInv
<1>2. p = module.opened + 1 /\ \E u \in Users : \E debt, collateral, lockTime :
          Open(u, debt, collateral, lockTime)
    BY <1>1 DEF PositionMoves, Moves, Becomes
<1>3. PICK u \in Users : \E debt, collateral, lockTime : Open(u, debt, collateral, lockTime)
    BY <1>2
<1>4. PICK debt, collateral, lockTime : Open(u, debt, collateral, lockTime)
    BY <1>3
<1>5. /\ r.owner = u /\ r.debt = debt /\ r.assigned = Contribution(debt)
      /\ r.collateral = collateral
    BY <1>1, <1>2, <1>4, OpenWrites
<1> DEFINE fee == MulPpm(debt, FeePpm(lockTime))
           usable == debt - Contribution(debt) - fee
<1>6. /\ debt \in 1..MaxDebtPerPosition /\ debt <= module.remaining
      /\ lockTime \in module.since..now /\ lockTime < ExpirationDaa
      /\ ReserveContributionPpm + FeePpm(lockTime) < PPM
      /\ usable > 0 /\ collateral \in MinimumCollateral..kas[u]
      /\ module' = [module EXCEPT !.remaining = @ - debt, !.opened = p, !.since = now]
      /\ assignedToken' = [assignedToken EXCEPT ![p] = Contribution(debt)]
      /\ feeToken' = [feeToken EXCEPT ![p] = fee]
      /\ kusd' = Credit(kusd, u, usable)
    BY <1>2, <1>4 DEF Open
<1>7. /\ module \in ModuleStates /\ now \in 0..ExpirationDaa
      /\ kusd \in [Users -> Nat] /\ kas \in [Users -> Nat] /\ feeToken \in [FeeSlots -> Nat]
      /\ assignedToken \in [Positions -> Nat]
    BY <1>1, LendingFacts DEF LendingInv, ReserveInv, EquityTypeOK
<1>8. /\ debt \in Nat /\ collateral \in Nat /\ lockTime \in Nat /\ module.remaining \in Nat
      /\ collateral >= MinimumCollateral /\ debt > 0 /\ debt <= MaxDebtPerPosition
      /\ module'.remaining = module.remaining - debt /\ module'.opened = module.opened + 1
      /\ module.opened \in Nat
    <2>1. MinimumCollateral \in Nat /\ MaxDebtPerPosition \in Nat /\ kas[u] \in Nat
        BY <1>7, LendingAssumption
    <2>2. /\ module.since \in Nat /\ now \in Nat /\ module.opened \in Nat
          /\ module.remaining \in Nat
        BY <1>7, ConstantFacts DEF ModuleStates
    <2>3. module'.remaining = module.remaining - debt /\ module'.opened = p
        BY <1>6, <1>7 DEF ModuleStates
    <2>4. QED
        BY <1>2, <1>6, <2>1, <2>2, <2>3
<1>9. Contribution(debt) \in Nat /\ fee \in Nat /\ Contribution(debt) <= debt
    <2>1. Contribution(debt) \in Nat /\ fee \in Nat
        BY <1>6, <1>8, ContributionNat, FeeNat
    <2> HIDE DEF fee
    <2>2. QED
        BY <1>6, <1>8, <2>1
<1>10. /\ c \in Params /\ c.owner = u /\ c.debt = debt /\ c.assigned = Contribution(debt)
       /\ c.collateral = collateral /\ c.remaining = module.remaining
       /\ c.opened = module.opened
    <2> DEFINE b == ParamsOf(p)
               a == Contribution(debt)
               m == module.remaining
    <2>1. b \in Params /\ b.opened = module.opened
        BY <1>1, ParamsType DEF ParamsOf
    <2>2. a \in Nat /\ m \in Nat
        BY <1>8, <1>9
    <2>3. c = [b EXCEPT !.owner = u, !.debt = debt, !.assigned = a, !.collateral = collateral,
                        !.remaining = m]
        BY <1>5
    <2> HIDE DEF b, a, m, c
    <2>4. /\ c \in Params /\ c.owner = u /\ c.debt = debt /\ c.assigned = a
          /\ c.collateral = collateral /\ c.remaining = m /\ c.opened = b.opened
        BY <1>8, <2>1, <2>2, <2>3 DEF Params
    <2>5. QED
        BY <2>1, <2>4 DEF a, m
<1> HIDE DEF c
<1>11. Valid(c)
    BY <1>6, <1>8, <1>9, <1>10, Validated
<1>12. ModuleOpenCall(c, ExpirationDaa - lockTime)
           = Call(TRUE, [remaining |-> module.remaining, opened |-> module.opened],
                  [module |-> [remaining |-> module.remaining - debt, opened |-> module.opened + 1],
                   position |-> [owner |-> u, debt |-> debt, assigned |-> Contribution(debt)]],
                  [owner |-> usable, position |-> Contribution(debt), reserve |-> fee])
    BY <1>6, <1>8, <1>10, <1>11, OpenCallPays
<1>13. /\ Received(u) = usable /\ assignedToken'[p] = Contribution(debt) /\ feeToken'[p] = fee
    <2>1. p \in FeeSlots
        BY ConstantFacts
    <2>2. usable \in Int
        BY <1>8, <1>9
    <2> HIDE DEF fee, usable
    <2>3. QED
        BY <1>6, <1>7, <2>1, <2>2 DEF Received, Credit
<1>14. /\ ModuleOf(module) = [remaining |-> module.remaining, opened |-> module.opened]
       /\ ModuleOf(module') = [remaining |-> module.remaining - debt, opened |-> module.opened + 1]
       /\ PositionOf(r) = [owner |-> u, debt |-> debt, assigned |-> Contribution(debt)]
    BY <1>5, <1>8 DEF ModuleOf, PositionOf
<1>15. ASSUME module'.remaining >= c.debt
       PROVE  Artifact(Valid(state), ModuleArgs(state)) = Artifact(TRUE, ModuleOf(module'))
    <2> DEFINE m == module'.remaining
               o == module'.opened
    <2>1. m \in Nat /\ o \in Nat
        BY <1>6, <1>8
    <2>2. state = [c EXCEPT !.remaining = m, !.opened = o]
        OBVIOUS
    <2> HIDE DEF m, o, state
    <2>3. /\ state.debt = c.debt /\ state.assigned = c.assigned
          /\ state.collateral = c.collateral /\ state.remaining = m /\ state.opened = o
        BY <1>10, <2>1, <2>2 DEF Params
    <2>4. Valid(state)
        BY <1>8, <1>9, <1>10, <1>15, <2>1, <2>3, Validated DEF m
    <2>5. ModuleArgs(state) = ModuleOf(module')
        BY <2>3 DEF ModuleArgs, ModuleOf, m, o
    <2>6. QED
        BY <2>4, <2>5
<1> HIDE DEF state, usable, fee, r
<1>16. LET call == ModuleOpenCall(c, ExpirationDaa - lockTime)
       IN  /\ call.built
           /\ call.spent = ModuleOf(module)
           /\ call.next = [module |-> ModuleOf(module'), position |-> PositionOf(r)]
           /\ call.paid = [owner |-> Received(c.owner), position |-> assignedToken'[p],
                           reserve |-> feeToken'[p]]
    BY <1>10, <1>12, <1>13, <1>14 DEF Call
<1>17. QED
    BY <1>6, <1>15, <1>16

(* Parameters that name no Position are accepted too. *)
LEMMA AnyParamsFacts ==
    ASSUME LendingInv
    PROVE  /\ AnyParams \in Params /\ AnyParams.reserve = reserve
           /\ AnyParams.debt = 1 /\ AnyParams.assigned = 0
           /\ AnyParams.collateral = MinimumCollateral /\ AnyParams.remaining = MintAllocation
<1>1. /\ module.opened \in Nat /\ reserve \in ReserveStates /\ MintAllocation \in Nat
      /\ MinimumCollateral \in Nat /\ 1 \in Users
    <2>1. module.opened \in 0..NumPositions
        BY LendingFacts DEF ModuleStates
    <2>2. reserve \in ReserveStates
        BY DEF LendingInv, ReserveInv, EquityTypeOK
    <2>3. 1 \in Users
        BY EquityAssumption DEF Users
    <2>4. QED
        BY <2>1, <2>2, <2>3, ConstantFacts, LendingAssumption
<1>2. QED
    BY <1>1 DEF AnyParams, Params

LEMMA AnyParamsValid ==
    ASSUME NEW c, c.debt = 1, c.assigned = 0, c.collateral = MinimumCollateral,
           c.remaining = MintAllocation
    PROVE  Valid(c)
<1>1. /\ 1 <= MaxDebtPerPosition /\ 1 <= MintAllocation /\ MintAllocation \in Nat
      /\ MinimumCollateral \in Nat
    BY LendingAssumption
<1>2. QED
    BY <1>1, Validated

(* Only the first deposit initializes the Reserve, and only redeem burns KPS. *)
LEMMA ReserveMoves ==
    ASSUME LendingInv, [Next]_vars
    PROVE  /\ reserve'.initialized /\ ~reserve.initialized =>
                  \E u \in Users : \E amount, s : InitializeReserve(u, amount, s)
           /\ reserve'.kps < reserve.kps => \E s \in ShareSlots : Redeem(s)
<1> DEFINE Keeps == /\ reserve'.initialized = reserve.initialized
                    /\ reserve'.kps >= reserve.kps
           Goal == /\ reserve'.initialized /\ ~reserve.initialized =>
                          \E u \in Users : \E amount, s : InitializeReserve(u, amount, s)
                   /\ reserve'.kps < reserve.kps => \E s \in ShareSlots : Redeem(s)
<1>1. /\ reserve \in ReserveStates /\ reserve.kps \in Nat /\ ReserveInv
    BY DEF LendingInv, ReserveInv, EquityTypeOK, ReserveStates
<1>2. LendingInv'
    BY LendingStep
<1>3. reserve'.kps \in Nat
    BY <1>2 DEF LendingInv, ReserveInv, EquityTypeOK, ReserveStates
<1>4. Keeps => Goal
    BY <1>1, <1>3
<1>5. ASSUME reserve' = reserve PROVE Goal
    BY <1>1, <1>4, <1>5
<1>6. ASSUME NEW u \in Users, NEW amount, NEW s, InitializeReserve(u, amount, s)
      PROVE  Goal
    <2>1. reserve.kps = 0
        BY <1>6 DEF InitializeReserve
    <2>2. QED
        BY <1>3, <1>6, <2>1
<1>7. ASSUME NEW u \in Users, NEW amount \in KusdAmounts, NEW s, Deposit(u, amount, s)
      PROVE  Goal
    <2>1. /\ reserve' = [reserve EXCEPT !.kusd = @ + amount, !.kps = @ + SharesFor(amount)]
          /\ amount \in Nat
        BY <1>7, EquityAssumption DEF Deposit
    <2>2. /\ reserve'.initialized = reserve.initialized
          /\ reserve'.kps = reserve.kps + SharesFor(amount)
        BY <1>1, <2>1 DEF ReserveStates
    <2>3. SharesFor(amount) \in Nat
        BY <1>1, <1>7, <2>1, SharesForNat DEF Deposit
    <2>4. QED
        BY <1>1, <1>4, <2>2, <2>3
<1>8. ASSUME NEW f \in FeeSlots, CollectFee(f)
      PROVE  Goal
    <2>1. reserve' = [reserve EXCEPT !.kusd = @ + feeToken[f]]
        BY <1>8 DEF CollectFee
    <2>2. QED
        BY <1>1, <1>4, <2>1 DEF ReserveStates
<1>9. ASSUME NEW s \in ShareSlots, Redeem(s)
      PROVE  Goal
    <2>1. reserve.initialized
        BY <1>9 DEF Redeem
    <2>2. QED
        BY <1>9, <2>1
<1>10. ASSUME ReserveStep PROVE Goal
    BY <1>6, <1>7, <1>8, <1>9, <1>10 DEF ReserveStep
<1>11. ASSUME NEW p \in Positions, PositionStep(p)
       PROVE  Goal
    <2>1. ASSUME Backstop(p) PROVE Goal
        <3>1. \E less, more : reserve' = [reserve EXCEPT !.kusd = less, !.collateral = more]
            BY <2>1 DEF Backstop, ReserveBackstop
        <3>2. QED
            BY <1>1, <1>4, <3>1 DEF ReserveStates
    <2>2. ASSUME ~Backstop(p) PROVE reserve' = reserve
        BY <1>11, <2>2
           DEF PositionStep, Repay, Close, StartChallenge, InitChallenge, Avert, Activate,
               Settle, equityVars
    <2>3. QED
        BY <1>5, <2>1, <2>2
<1>12. ASSUME Tick \/ ModuleStep \/ TokenStep \/ UNCHANGED vars
              \/ \E u \in Users, f \in FeeSlots \ Positions, amount \in KusdAmounts :
                     FundReserve(u, f, amount)
       PROVE  reserve' = reserve
    <2>1. Tick \/ UNCHANGED vars => reserve' = reserve
        BY DEF Tick, vars, equityVars
    <2>2. ASSUME ModuleStep PROVE reserve' = reserve
        <3>1. ASSUME NEW u \in Users, NEW debt \in DebtAmounts,
                     NEW collateral \in CollateralAmounts, NEW lockTime \in 0..now,
                     Open(u, debt, collateral, lockTime)
              PROVE  reserve' = reserve
            BY <3>1 DEF Open
        <3>2. Expire => reserve' = reserve
            BY DEF Expire, equityVars
        <3>3. QED
            BY <2>2, <3>1, <3>2 DEF ModuleStep
    <2>3. TokenStep => reserve' = reserve
        BY DEF TokenStep, TransferShares, MergeShares, TransferKusd
    <2>4. ASSUME NEW u \in Users, NEW f \in FeeSlots \ Positions, NEW amount \in KusdAmounts,
                 FundReserve(u, f, amount)
          PROVE  reserve' = reserve
        BY <2>4 DEF FundReserve
    <2>5. QED
        BY <1>12, <2>1, <2>2, <2>3, <2>4
<1> HIDE DEF Goal
<1>13. Goal
    BY <1>5, <1>10, <1>11, <1>12 DEF Next
<1>14. QED
    BY <1>13 DEF Goal

LEMMA InitializeIsBuilt ==
    ASSUME LendingInv, NEW u \in Users, NEW amount, NEW s, InitializeReserve(u, amount, s)
    PROVE  ReserveInitializeCall([AnyParams EXCEPT !.reserve = reserve'], reserve'.kusd)
               = Call(TRUE, ReserveOf(reserve), ReserveOf(reserve'),
                      [reserve |-> reserveToken', depositor |-> 0 - Received(u)])
<1> DEFINE r == reserve'
           c == [AnyParams EXCEPT !.reserve = r]
<1>1. /\ reserve.kusd = 0 /\ reserve.kps = 0 /\ reserve.collateral = 0
      /\ amount \in 1..kusd[u]
      /\ reserve' = [initialized |-> TRUE, kusd |-> amount, kps |-> amount, collateral |-> 0]
      /\ reserveToken' = amount /\ kusd' = Debit(kusd, u, amount)
    BY DEF InitializeReserve
<1>2. kusd \in [Users -> Nat] /\ amount \in Nat
    BY <1>1 DEF LendingInv, ReserveInv, EquityTypeOK
<1>3. 0 - Received(u) = amount
    BY <1>1, <1>2 DEF Received, Debit
<1>4. r.kusd = amount
    BY <1>1
<1> HIDE DEF r
<1>5. /\ c.reserve = r /\ c.debt = 1 /\ c.assigned = 0
      /\ c.collateral = MinimumCollateral /\ c.remaining = MintAllocation
    BY AnyParamsFacts DEF Params
<1> HIDE DEF c
<1>6. Valid(c)
    BY <1>5, AnyParamsValid
<1>7. ReserveArgs(0, 0, 0) = ReserveOf(reserve) /\ ReserveState(c) = ReserveOf(r)
    BY <1>1, <1>5 DEF ReserveArgs, ReserveOf, ReserveState
<1>8. ReserveInitializeCall(c, amount)
          = Call(TRUE, ReserveOf(reserve), ReserveOf(r), [reserve |-> amount, depositor |-> amount])
    BY <1>6, <1>7 DEF ReserveInitializeCall
<1>9. QED
    BY <1>1, <1>3, <1>4, <1>8 DEF c, r

LEMMA RedeemIsBuilt ==
    ASSUME LendingInv, NEW s \in ShareSlots, Redeem(s)
    PROVE  ReserveRedeemCall(AnyParams, reserve.kps - reserve'.kps)
               = Call(TRUE, ReserveOf(reserve), ReserveOf(reserve'),
                      [reserve |-> reserveToken', redeemer |-> Received(shares[s].owner)])
<1> DEFINE c == AnyParams
           u == shares[s].owner
           burned == shares[s].amount
           payout == (burned * reserve.kusd) \div reserve.kps
           payoutKas == (burned * reserve.collateral) \div reserve.kps
           after == [c EXCEPT !.reserve.kusd = @ - payout, !.reserve.kps = @ - burned,
                              !.reserve.collateral = @ - payoutKas]
<1>1. /\ burned > 0 /\ burned <= reserve.kps
      /\ payout > 0 \/ payoutKas > 0
      /\ reserveToken = reserve.kusd
      /\ reserve' = [reserve EXCEPT !.kusd = @ - payout, !.kps = @ - burned,
                                    !.collateral = @ - payoutKas]
      /\ reserveToken' = reserveToken - payout
      /\ kusd' = Credit(kusd, u, payout)
    BY DEF Redeem, MulDivFloor
<1>2. /\ kusd \in [Users -> Nat] /\ reserve \in ReserveStates
      /\ burned \in Nat /\ u \in Users
    BY DEF LendingInv, ReserveInv, EquityTypeOK, Share
<1>3. reserve.kusd \in Nat /\ reserve.kps \in Nat /\ reserve.collateral \in Nat
    BY <1>2 DEF ReserveStates
<1>4. payout \in Nat /\ payoutKas \in Nat
    <2>1. reserve.kps \in Nat \ {0}
        BY <1>1, <1>2, <1>3
    <2>2. burned * reserve.kusd \in Nat /\ burned * reserve.collateral \in Nat
        BY <1>2, <1>3, ProductNat
    <2>3. QED
        BY <2>1, <2>2, DivFloor
<1>5. /\ c \in Params /\ c.reserve = reserve /\ Valid(c)
    BY AnyParamsFacts, AnyParamsValid
<1> HIDE DEF c, payout, payoutKas, u, burned
<1>6. /\ reserve'.kusd = reserve.kusd - payout /\ reserve'.kps = reserve.kps - burned
      /\ reserve'.collateral = reserve.collateral - payoutKas
    BY <1>1, <1>2 DEF ReserveStates
<1>7. /\ after.reserve.kusd = reserve.kusd - payout /\ after.reserve.kps = reserve.kps - burned
      /\ after.reserve.collateral = reserve.collateral - payoutKas
    BY <1>5 DEF Params, ReserveStates
<1>8. reserve.kps - reserve'.kps = burned /\ burned \in 1..c.reserve.kps
    BY <1>1, <1>2, <1>3, <1>5, <1>6
<1>9. ReserveRedeemCall(c, burned)
          = Call(/\ burned \in 1..c.reserve.kps
                 /\ Valid(c)
                 /\ payout # 0 \/ payoutKas # 0,
                 ReserveArgs(c.reserve.kusd, c.reserve.kps, c.reserve.collateral),
                 ReserveState(after),
                 [reserve |-> after.reserve.kusd, redeemer |-> payout])
    BY <1>5 DEF ReserveRedeemCall, payout, payoutKas
<1> HIDE DEF after
<1>10. /\ ReserveState(after) = ReserveOf(reserve')
       /\ ReserveArgs(c.reserve.kusd, c.reserve.kps, c.reserve.collateral) = ReserveOf(reserve)
    BY <1>5, <1>6, <1>7 DEF ReserveState, ReserveArgs, ReserveOf
<1>11. Received(u) = payout /\ after.reserve.kusd = reserveToken'
    BY <1>1, <1>2, <1>4, <1>7 DEF Received, Credit
<1>12. payout # 0 \/ payoutKas # 0
    BY <1>1, <1>4
<1>13. QED
    BY <1>5, <1>8, <1>9, <1>10, <1>11, <1>12 DEF c, u

LEMMA ReserveIsBuilt ==
    ASSUME BuiltInv, [Next]_vars
    PROVE  ReserveBuilt
<1>1. LendingInv
    BY DEF BuiltInv
<1>2. ASSUME NEW s \in ShareSlots
      PROVE  shares[s].owner \in Users
    BY <1>1 DEF LendingInv, ReserveInv, EquityTypeOK, Share
<1>3. QED
    BY <1>1, <1>2, ReserveMoves, InitializeIsBuilt, RedeemIsBuilt DEF ReserveBuilt

(* Whatever transaction the covenants accept, for all the terms of a       *)
(* Module and from every state that can be reached, the builders of        *)
(* protocol.rs build it from what is found on the chain, and announce to   *)
(* every covenant the states and the amounts that the covenants create.    *)
THEOREM ClientAgrees == Spec => LendingBuilt
<1>1. BuiltInv /\ [Next]_vars =>
          [/\ \A p \in Positions :
                /\ OpenBuilt(p) /\ RepayBuilt(p) /\ CloseBuilt(p) /\ ChallengeBuilt(p)
                /\ AvertBuilt(p) /\ SettleBuilt(p) /\ BackstopBuilt(p)
           /\ ReserveBuilt]_vars
    BY OpenIsBuilt, RepayIsBuilt, CloseIsBuilt, ChallengeIsBuilt, AvertIsBuilt, SettleIsBuilt,
       BackstopIsBuilt, ReserveIsBuilt
<1>2. QED
    BY <1>1, BuiltInvariant, PTL DEF Spec, LendingBuilt
=============================================================================
