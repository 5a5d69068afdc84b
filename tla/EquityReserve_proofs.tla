------------------------ MODULE EquityReserve_proofs ------------------------
(***************************************************************************)
(* Step lemmas of EquityReserve: what each of its transactions preserves.  *)
(* EquityMarket, Lending and Governance use them.                          *)
(***************************************************************************)
EXTENDS EquityReserve, Sums_proofs

-----------------------------------------------------------------------------
(* Wallets *)

LEMMA CreditNat ==
    ASSUME NEW S, NEW f \in [S -> Nat], NEW k \in S, NEW amount \in Nat
    PROVE  Credit(f, k, amount) \in [S -> Nat]
BY DEF Credit

LEMMA DebitNat ==
    ASSUME NEW S, NEW f \in [S -> Nat], NEW k \in S, NEW amount \in Nat, amount <= f[k]
    PROVE  Debit(f, k, amount) \in [S -> Nat]
BY DEF Debit

-----------------------------------------------------------------------------
(* Floored products *)

LEMMA DivFloor ==
    ASSUME NEW a \in Nat, NEW d \in Nat \ {0}
    PROVE  /\ a \div d \in Nat
           /\ (a \div d) * d <= a
           /\ a < (a \div d) * d + d
OBVIOUS

LEMMA ProductNat ==
    ASSUME NEW x \in Nat, NEW y \in Nat
    PROVE  x * y \in Nat
OBVIOUS

LEMMA ProductMonotone ==
    ASSUME NEW x \in Nat, NEW y \in Nat, NEW z \in Nat, x <= y
    PROVE  x * z <= y * z
OBVIOUS

(* mulDivFloor rounds down, and a part of d yields a part of y. *)
LEMMA MulDivFloorBounds ==
    ASSUME NEW x \in Nat, NEW y \in Nat, NEW d \in Nat \ {0}
    PROVE  /\ MulDivFloor(x, y, d) \in Nat
           /\ MulDivFloor(x, y, d) * d <= x * y
           /\ x <= d => MulDivFloor(x, y, d) <= y
<1> DEFINE q == MulDivFloor(x, y, d)
<1>1. q \in Nat /\ q * d <= x * y
    BY ProductNat, DivFloor DEF MulDivFloor
<1>2. ASSUME x <= d PROVE q <= y
    <2> HIDE DEF q
    <2>1. x * y <= d * y
        BY <1>2, ProductMonotone
    <2>2. SUFFICES ASSUME q >= y + 1 PROVE FALSE
        BY <1>1
    <2>3. (y + 1) * d <= q * d
        BY <1>1, <2>2, ProductMonotone
    <2>4. (y + 1) * d = d * y + d
        OBVIOUS
    <2>5. QED
        BY <1>1, <2>1, <2>3, <2>4, ProductNat
<1>3. QED
    BY <1>1, <1>2

LEMMA PpmPositive == PPM \in Nat \ {0}
BY SMT DEF PPM

LEMMA MulPpmNat ==
    ASSUME NEW amount \in Nat, NEW rate \in Nat
    PROVE  MulPpm(amount, rate) \in Nat
<1>1. amount \div PPM \in Nat /\ amount % PPM \in Nat
    BY DivFloor, PpmPositive
<1>2. (amount \div PPM) * rate \in Nat /\ (amount % PPM) * rate \in Nat
    BY <1>1, ProductNat
<1>3. ((amount % PPM) * rate) \div PPM \in Nat
    BY <1>2, DivFloor, PpmPositive
<1>4. QED
    BY <1>2, <1>3 DEF MulPpm

LEMMA RewardPpmNat == RewardPpm \in Nat
BY EquityAssumption

LEMMA RewardNat ==
    ASSUME NEW debt \in Nat
    PROVE  Reward(debt) \in Nat
BY RewardPpmNat, MulPpmNat DEF Reward

-----------------------------------------------------------------------------
(* KPS UTXOs *)

LEMMA NewShareType ==
    ASSUME NEW u \in Users, NEW amount \in Nat
    PROVE  /\ NewShare(u, amount) \in Share
           /\ NewShare(u, amount).amount = amount
BY EquityAssumption DEF NewShare, NoShare, Share, Users

LEMMA NoShareType == NoShare \in Share /\ NoShare.amount = 0
BY EquityAssumption DEF NoShare, Share, Users

(* Replacing one UTXO moves the circulating KPS by the difference. *)
LEMMA UpdateShare ==
    ASSUME NEW utxos \in [ShareSlots -> Share], NEW s \in ShareSlots, NEW r \in Share
    PROVE  /\ [utxos EXCEPT ![s] = r] \in [ShareSlots -> Share]
           /\ SumTo(AmountsOf([utxos EXCEPT ![s] = r]), NumShareSlots) =
                  SumTo(AmountsOf(utxos), NumShareSlots) + (r.amount - utxos[s].amount)
<1> DEFINE next == [utxos EXCEPT ![s] = r]
           f == AmountsOf(utxos)
           g == AmountsOf(next)
<1>1. next \in [ShareSlots -> Share]
    OBVIOUS
<1>2. NumShareSlots \in Nat /\ s \in 1..NumShareSlots
    BY EquityAssumption DEF ShareSlots
<1>3. /\ \A i \in 1..NumShareSlots : f[i] \in Int /\ g[i] \in Int
      /\ \A i \in 1..NumShareSlots : i # s => g[i] = f[i]
    BY DEF ShareSlots, Share, AmountsOf
<1>4. f[s] = utxos[s].amount /\ g[s] = r.amount
    BY DEF AmountsOf
<1> HIDE DEF f, g
<1>5. SumTo(g, NumShareSlots) = SumTo(f, NumShareSlots) + (g[s] - f[s])
    BY <1>2, <1>3, SumUpdate
<1>6. QED
    BY <1>1, <1>4, <1>5 DEF f, g

LEMMA SharesInt ==
    ASSUME NEW utxos \in [ShareSlots -> Share]
    PROVE  SumTo(AmountsOf(utxos), NumShareSlots) \in Int
<1>1. \A i \in 1..NumShareSlots : AmountsOf(utxos)[i] \in Int
    BY DEF ShareSlots, Share, AmountsOf
<1>2. QED
    BY <1>1, SumInt, EquityAssumption

(* The same of the variable, as the transactions use it. *)
LEMMA ReplaceShare ==
    ASSUME shares \in [ShareSlots -> Share], NEW s \in ShareSlots, NEW r \in Share,
           shares' = [shares EXCEPT ![s] = r]
    PROVE  /\ shares' \in [ShareSlots -> Share]
           /\ SumTo(AmountsOf(shares), NumShareSlots) \in Int
           /\ SumTo(AmountsOf(shares'), NumShareSlots) =
                  SumTo(AmountsOf(shares), NumShareSlots) + (r.amount - shares[s].amount)
<1>1. SumTo(AmountsOf(shares), NumShareSlots) \in Int
    BY SharesInt
<1>2. /\ [shares EXCEPT ![s] = r] \in [ShareSlots -> Share]
      /\ SumTo(AmountsOf([shares EXCEPT ![s] = r]), NumShareSlots) =
             SumTo(AmountsOf(shares), NumShareSlots) + (r.amount - shares[s].amount)
    BY UpdateShare
<1>3. QED
    BY <1>1, <1>2

(* Two UTXOs move it by both differences; their new contents are read off  *)
(* the next state.                                                         *)
LEMMA ReplaceTwoShares ==
    ASSUME shares \in [ShareSlots -> Share], shares' \in [ShareSlots -> Share],
           NEW s \in ShareSlots, NEW t \in ShareSlots, s # t,
           \A i \in ShareSlots : i # s /\ i # t => shares'[i] = shares[i]
    PROVE  SumTo(AmountsOf(shares'), NumShareSlots) =
               SumTo(AmountsOf(shares), NumShareSlots)
                   + (shares'[s].amount - shares[s].amount)
                   + (shares'[t].amount - shares[t].amount)
<1> DEFINE r == shares'[s]
           q == shares'[t]
           middle == [shares EXCEPT ![s] = r]
<1>1. r \in Share /\ q \in Share
    OBVIOUS
<1>2. middle[t] = shares[t] /\ shares' = [middle EXCEPT ![t] = q]
    OBVIOUS
<1> HIDE DEF r, q
<1>3. /\ middle \in [ShareSlots -> Share]
      /\ SumTo(AmountsOf(middle), NumShareSlots) =
             SumTo(AmountsOf(shares), NumShareSlots) + (r.amount - shares[s].amount)
    BY <1>1, UpdateShare
<1> HIDE DEF middle
<1>4. SumTo(AmountsOf([middle EXCEPT ![t] = q]), NumShareSlots) =
          SumTo(AmountsOf(middle), NumShareSlots) + (q.amount - middle[t].amount)
    BY <1>1, <1>3, UpdateShare, ZenonT(60)
<1>5. QED
    BY <1>2, <1>3, <1>4 DEF r, q

-----------------------------------------------------------------------------
(* Transactions.  ReserveInv is inductive: the policies compare the booked *)
(* amounts with the tokens they spend, and totalKps with what they mint    *)
(* and burn.                                                               *)

ReserveInv == EquityTypeOK /\ ReserveBooked /\ SharesBacked

LEMMA InitReserveInv ==
    ASSUME InitReserve, kusd \in [Users -> Nat], kas \in [Users -> Nat]
    PROVE  ReserveInv
<1>1. EquityTypeOK
    BY NoShareType DEF InitReserve, EquityTypeOK, ReserveStates
<1>2. \A i \in 1..NumShareSlots : AmountsOf(shares)[i] = 0
    BY DEF InitReserve, AmountsOf, ShareSlots, NoShare
<1>3. SumTo(AmountsOf(shares), NumShareSlots) = 0
    BY <1>2, SumOfZeros, EquityAssumption
<1>4. QED
    BY <1>1, <1>3 DEF InitReserve, ReserveInv, ReserveBooked, SharesBacked
(* What ReserveInv says of each variable. *)
LEMMA ReserveFacts ==
    ASSUME ReserveInv
    PROVE  /\ kusd \in [Users -> Nat] /\ kas \in [Users -> Nat]
           /\ feeToken \in [FeeSlots -> Nat]
           /\ shares \in [ShareSlots -> Share]
           /\ reserve \in ReserveStates
           /\ reserve.kusd \in Nat /\ reserve.kps \in Nat /\ reserve.collateral \in Nat
           /\ reserveToken = reserve.kusd
           /\ SumTo(AmountsOf(shares), NumShareSlots) = reserve.kps
BY DEF ReserveInv, EquityTypeOK, ReserveBooked, SharesBacked, ReserveStates

(* And what is left to show of the next state. *)
LEMMA ReserveInvNext ==
    ASSUME kusd' \in [Users -> Nat], kas' \in [Users -> Nat],
           feeToken' \in [FeeSlots -> Nat],
           shares' \in [ShareSlots -> Share],
           reserve' \in ReserveStates,
           reserveToken' = reserve'.kusd,
           SumTo(AmountsOf(shares'), NumShareSlots) = reserve'.kps
    PROVE  ReserveInv'
<1>1. reserveToken' \in Nat
    BY DEF ReserveStates
<1>2. QED
    BY <1>1 DEF ReserveInv, EquityTypeOK, ReserveBooked, SharesBacked

(* The Reserve's state with new amounts. *)
LEMMA ReserveAmounts ==
    ASSUME reserve \in ReserveStates,
           NEW k \in Nat, NEW n \in Nat, NEW c \in Nat,
           reserve' = [reserve EXCEPT !.kusd = k, !.kps = n, !.collateral = c]
    PROVE  /\ reserve' \in ReserveStates
           /\ reserve'.kusd = k /\ reserve'.kps = n /\ reserve'.collateral = c
BY DEF ReserveStates

(* The same when the collateral stays. *)
LEMMA ReserveKusdKps ==
    ASSUME reserve \in ReserveStates, NEW k \in Nat, NEW n \in Nat,
           reserve' = [reserve EXCEPT !.kusd = k, !.kps = n]
    PROVE  /\ reserve' \in ReserveStates
           /\ reserve'.kusd = k /\ reserve'.kps = n
           /\ reserve'.collateral = reserve.collateral
BY DEF ReserveStates

LEMMA InitializeReserveInv ==
    ASSUME ReserveInv, NEW u \in Users, NEW amount, NEW s \in ShareSlots,
           InitializeReserve(u, amount, s)
    PROVE  ReserveInv'
<1>1. /\ reserve.kps = 0 /\ amount \in 1..kusd[u] /\ shares[s].amount = 0
      /\ reserve' = [initialized |-> TRUE, kusd |-> amount, kps |-> amount, collateral |-> 0]
      /\ reserveToken' = amount
      /\ kusd' = Debit(kusd, u, amount)
      /\ shares' = [shares EXCEPT ![s] = NewShare(u, amount)]
      /\ kas' = kas /\ feeToken' = feeToken
    BY DEF InitializeReserve, FreeSlot
<1>2. amount \in Nat /\ amount <= kusd[u]
    BY <1>1, ReserveFacts
<1>3. NewShare(u, amount) \in Share /\ NewShare(u, amount).amount = amount
    BY <1>2, NewShareType
<1>4. /\ shares' \in [ShareSlots -> Share]
      /\ SumTo(AmountsOf(shares'), NumShareSlots) = 0 + (amount - 0)
    BY <1>1, <1>3, ReserveFacts, ReplaceShare
<1>5. kusd' \in [Users -> Nat]
    BY <1>1, <1>2, ReserveFacts, DebitNat
<1>6. reserve' \in ReserveStates /\ reserve'.kusd = amount /\ reserve'.kps = amount
    BY <1>1, <1>2 DEF ReserveStates
<1>7. QED
    BY <1>1, <1>2, <1>4, <1>5, <1>6, ReserveFacts, ReserveInvNext

LEMMA SharesForNat ==
    ASSUME ReserveInv, NEW amount \in Nat, reserve.kps > 0 <=> reserve.kusd > 0
    PROVE  SharesFor(amount) \in Nat
<1>1. CASE reserve.kps = 0
    BY <1>1 DEF SharesFor
<1>2. CASE reserve.kps # 0
    <2>1. reserve.kps \in Nat /\ reserve.kusd \in Nat \ {0}
        BY <1>2, ReserveFacts
    <2>2. MulDivFloor(amount, reserve.kps, reserve.kusd) \in Nat
        BY <2>1, MulDivFloorBounds
    <2>3. QED
        BY <1>2, <2>2 DEF SharesFor
<1>3. QED
    BY <1>1, <1>2

LEMMA DepositInv ==
    ASSUME ReserveInv, NEW u \in Users, NEW amount, NEW s \in ShareSlots,
           Deposit(u, amount, s)
    PROVE  ReserveInv'
<1> DEFINE minted == SharesFor(amount)
<1>1. /\ amount \in 1..kusd[u] /\ shares[s].amount = 0
      /\ reserve.kps > 0 <=> reserve.kusd > 0
      /\ reserve' = [reserve EXCEPT !.kusd = @ + amount, !.kps = @ + minted]
      /\ reserveToken' = reserveToken + amount
      /\ kusd' = Debit(kusd, u, amount)
      /\ shares' = [shares EXCEPT ![s] = NewShare(u, minted)]
      /\ kas' = kas /\ feeToken' = feeToken
    BY DEF Deposit, FreeSlot
<1>2. amount \in Nat /\ amount <= kusd[u]
    BY <1>1, ReserveFacts
<1>3. minted \in Nat
    BY <1>1, <1>2, SharesForNat
<1> HIDE DEF minted
<1>4. NewShare(u, minted) \in Share /\ NewShare(u, minted).amount = minted
    BY <1>3, NewShareType
<1>5. /\ shares' \in [ShareSlots -> Share]
      /\ SumTo(AmountsOf(shares'), NumShareSlots) = reserve.kps + (minted - 0)
    BY <1>1, <1>4, ReserveFacts, ReplaceShare
<1>6. kusd' \in [Users -> Nat]
    BY <1>1, <1>2, ReserveFacts, DebitNat
<1>7. /\ reserve' \in ReserveStates /\ reserve'.kusd = reserve.kusd + amount
      /\ reserve'.kps = reserve.kps + minted
    <2>1. reserve.kusd + amount \in Nat /\ reserve.kps + minted \in Nat
        BY <1>2, <1>3, ReserveFacts
    <2>2. QED
        BY <1>1, <2>1, ReserveFacts, ReserveKusdKps
<1>8. /\ reserveToken' = reserve'.kusd
      /\ SumTo(AmountsOf(shares'), NumShareSlots) = reserve'.kps
    BY <1>1, <1>3, <1>5, <1>7, ReserveFacts
<1>9. QED
    BY <1>1, <1>5, <1>6, <1>7, <1>8, ReserveFacts, ReserveInvNext

LEMMA CollectFeeInv ==
    ASSUME ReserveInv, NEW f \in FeeSlots, CollectFee(f)
    PROVE  ReserveInv'
<1>1. /\ reserve' = [reserve EXCEPT !.kusd = @ + feeToken[f]]
      /\ reserveToken' = reserveToken + feeToken[f]
      /\ feeToken' = [feeToken EXCEPT ![f] = 0]
      /\ kusd' = kusd /\ kas' = kas /\ shares' = shares
    BY DEF CollectFee
<1>2. feeToken[f] \in Nat /\ feeToken' \in [FeeSlots -> Nat]
    BY <1>1, ReserveFacts
<1>3. /\ reserve' \in ReserveStates /\ reserve'.kusd = reserve.kusd + feeToken[f]
      /\ reserve'.kps = reserve.kps
    BY <1>1, <1>2, ReserveFacts DEF ReserveStates
<1>4. QED
    BY <1>1, <1>2, <1>3, ReserveFacts, ReserveInvNext

(* What a redemption of slot s pays out is there to be paid. *)
LEMMA RedeemPays ==
    ASSUME ReserveInv, NEW s \in ShareSlots, Redeem(s)
    PROVE  /\ shares[s].owner \in Users
           /\ shares[s].amount \in Nat \ {0} /\ shares[s].amount <= reserve.kps
           /\ reserve.kps \in Nat \ {0}
           /\ MulDivFloor(shares[s].amount, reserve.kusd, reserve.kps) \in 0..reserve.kusd
           /\ MulDivFloor(shares[s].amount, reserve.collateral, reserve.kps)
                  \in 0..reserve.collateral
<1>1. /\ shares[s].owner \in Users
      /\ shares[s].amount \in Nat \ {0} /\ shares[s].amount <= reserve.kps
      /\ reserve.kps \in Nat \ {0}
    BY ReserveFacts DEF Share, Redeem
<1>2. /\ MulDivFloor(shares[s].amount, reserve.kusd, reserve.kps) \in Nat
      /\ MulDivFloor(shares[s].amount, reserve.kusd, reserve.kps) <= reserve.kusd
    BY <1>1, ReserveFacts, MulDivFloorBounds
<1>3. /\ MulDivFloor(shares[s].amount, reserve.collateral, reserve.kps) \in Nat
      /\ MulDivFloor(shares[s].amount, reserve.collateral, reserve.kps) <= reserve.collateral
    BY <1>1, ReserveFacts, MulDivFloorBounds
<1>4. QED
    BY <1>1, <1>2, <1>3, ReserveFacts

LEMMA RedeemInv ==
    ASSUME ReserveInv, NEW s \in ShareSlots, Redeem(s)
    PROVE  ReserveInv'
<1> DEFINE burned == shares[s].amount
           payout == MulDivFloor(burned, reserve.kusd, reserve.kps)
           payoutKas == MulDivFloor(burned, reserve.collateral, reserve.kps)
<1>1. /\ reserve' = [reserve EXCEPT !.kusd = @ - payout, !.kps = @ - burned,
                                    !.collateral = @ - payoutKas]
      /\ reserveToken' = reserveToken - payout
      /\ kusd' = Credit(kusd, shares[s].owner, payout)
      /\ kas' = Credit(kas, shares[s].owner, payoutKas)
      /\ shares' = [shares EXCEPT ![s] = NoShare]
      /\ feeToken' = feeToken
    BY DEF Redeem
<1>2. /\ burned \in Nat /\ burned <= reserve.kps
      /\ payout \in Nat /\ payout <= reserve.kusd
      /\ payoutKas \in Nat /\ payoutKas <= reserve.collateral
      /\ shares[s].owner \in Users
    BY RedeemPays, ReserveFacts
<1> HIDE DEF payout, payoutKas
<1>3. /\ shares' \in [ShareSlots -> Share]
      /\ SumTo(AmountsOf(shares'), NumShareSlots) = reserve.kps + (0 - burned)
    BY <1>1, NoShareType, ReserveFacts, ReplaceShare
<1>4. kusd' \in [Users -> Nat] /\ kas' \in [Users -> Nat]
    BY <1>1, <1>2, ReserveFacts, CreditNat
<1>5. /\ reserve.kusd - payout \in Nat /\ reserve.kps - burned \in Nat
      /\ reserve.collateral - payoutKas \in Nat
    BY <1>2, ReserveFacts
<1>6. /\ reserve' \in ReserveStates /\ reserve'.kusd = reserve.kusd - payout
      /\ reserve'.kps = reserve.kps - burned
    BY <1>1, <1>5, ReserveFacts, ReserveAmounts, ZenonT(60)
<1>7. /\ reserveToken' = reserve'.kusd
      /\ SumTo(AmountsOf(shares'), NumShareSlots) = reserve'.kps
    BY <1>1, <1>2, <1>3, <1>6, ReserveFacts
<1>8. QED
    BY <1>1, <1>3, <1>4, <1>6, <1>7, ReserveFacts, ReserveInvNext

LEMMA ReserveBackstopInv ==
    ASSUME ReserveInv, NEW u \in Users, NEW debt \in Nat, NEW assigned \in Nat,
           NEW collateral \in Nat,
           ReserveBackstop(u, debt, assigned, collateral), kas' \in [Users -> Nat]
    PROVE  ReserveInv'
<1> DEFINE payment == FloorPayment(debt, assigned)
<1>1. /\ assigned <= debt /\ reserve.kusd >= payment
      /\ reserve' = [reserve EXCEPT !.kusd = @ - payment, !.collateral = @ + collateral]
      /\ reserveToken' = reserveToken - payment
      /\ kusd' = Credit(kusd, u, Reward(debt))
      /\ feeToken' = feeToken /\ shares' = shares
    BY DEF ReserveBackstop
<1>2. Reward(debt) \in Nat /\ payment \in Nat
    BY <1>1, RewardNat DEF FloorPayment
<1> HIDE DEF payment
<1>3. reserve.kusd - payment \in Nat /\ reserve.collateral + collateral \in Nat
    BY <1>1, <1>2, ReserveFacts
<1>4. /\ reserve' \in ReserveStates /\ reserve'.kusd = reserve.kusd - payment
      /\ reserve'.kps = reserve.kps
    BY <1>1, <1>3, ReserveFacts DEF ReserveStates
<1>5. kusd' \in [Users -> Nat]
    BY <1>1, <1>2, ReserveFacts, CreditNat
<1>6. QED
    BY <1>1, <1>4, <1>5, ReserveFacts, ReserveInvNext

LEMMA TransferSharesInv ==
    ASSUME ReserveInv, NEW s \in ShareSlots, NEW t \in ShareSlots, NEW v \in Users, NEW amount,
           TransferShares(s, t, v, amount)
    PROVE  ReserveInv'
<1> DEFINE change == NewShare(shares[s].owner, shares[s].amount - amount)
           sent == NewShare(v, amount)
<1>1. /\ amount \in 1..shares[s].amount
      /\ amount = shares[s].amount => t = s
      /\ amount # shares[s].amount => shares[t].amount = 0
      /\ shares' = [shares EXCEPT ![s] = change, ![t] = sent]
      /\ kusd' = kusd /\ kas' = kas /\ reserve' = reserve
      /\ reserveToken' = reserveToken /\ feeToken' = feeToken
    BY DEF TransferShares, FreeSlot
<1>2. /\ shares[s].amount \in Nat /\ shares[s].owner \in Users
      /\ shares[t].amount \in Nat
    BY ReserveFacts DEF Share
<1>3. amount \in Nat /\ shares[s].amount - amount \in Nat
    BY <1>1, <1>2
<1>4. /\ change \in Share /\ change.amount = shares[s].amount - amount
      /\ sent \in Share /\ sent.amount = amount
    BY <1>2, <1>3, NewShareType
<1> HIDE DEF change, sent
<1>5. /\ shares' \in [ShareSlots -> Share]
      /\ SumTo(AmountsOf(shares'), NumShareSlots) = reserve.kps
    <2>1. CASE t = s
        <3>1. shares' = [shares EXCEPT ![s] = sent]
            BY <1>1, <2>1, ReserveFacts
        <3>2. amount = shares[s].amount
            BY <1>1, <1>2, <2>1
        <3>3. /\ shares' \in [ShareSlots -> Share]
              /\ SumTo(AmountsOf(shares'), NumShareSlots) = reserve.kps + (amount - amount)
            BY <1>4, <3>1, <3>2, ReserveFacts, ReplaceShare
        <3>4. QED
            BY <1>3, <3>3, ReserveFacts
    <2>2. CASE t # s
        <3>1. shares[t].amount = 0
            BY <1>1, <2>2
        <3>2. /\ shares' \in [ShareSlots -> Share]
              /\ shares'[s] = change /\ shares'[t] = sent
              /\ \A i \in ShareSlots : i # s /\ i # t => shares'[i] = shares[i]
            BY <1>1, <1>4, <2>2, ReserveFacts
        <3>3. SumTo(AmountsOf(shares'), NumShareSlots) =
                  SumTo(AmountsOf(shares), NumShareSlots)
                      + (shares'[s].amount - shares[s].amount)
                      + (shares'[t].amount - shares[t].amount)
            BY <2>2, <3>2, ReserveFacts, ReplaceTwoShares
        <3>4. QED
            BY <1>2, <1>3, <1>4, <3>1, <3>2, <3>3, ReserveFacts
    <2>3. QED
        BY <2>1, <2>2
<1>6. QED
    BY <1>1, <1>5, ReserveFacts, ReserveInvNext

LEMMA MergeSharesInv ==
    ASSUME ReserveInv, NEW s \in ShareSlots, NEW t \in ShareSlots, MergeShares(s, t)
    PROVE  ReserveInv'
<1> DEFINE merged == NewShare(shares[s].owner, shares[s].amount + shares[t].amount)
<1>1. /\ s # t
      /\ shares' = [shares EXCEPT ![s] = merged, ![t] = NoShare]
      /\ kusd' = kusd /\ kas' = kas /\ reserve' = reserve
      /\ reserveToken' = reserveToken /\ feeToken' = feeToken
    BY ReserveFacts DEF MergeShares
<1>2. /\ shares[s].amount \in Nat /\ shares[s].owner \in Users
      /\ shares[t].amount \in Nat
    BY ReserveFacts DEF Share
<1>3. merged \in Share /\ merged.amount = shares[s].amount + shares[t].amount
    BY <1>2, NewShareType
<1> HIDE DEF merged
<1>4. /\ shares' \in [ShareSlots -> Share]
      /\ shares'[s] = merged /\ shares'[t] = NoShare
      /\ \A i \in ShareSlots : i # s /\ i # t => shares'[i] = shares[i]
    BY <1>1, <1>3, NoShareType, ReserveFacts
<1>5. SumTo(AmountsOf(shares'), NumShareSlots) = reserve.kps
    <2>1. SumTo(AmountsOf(shares'), NumShareSlots) =
              SumTo(AmountsOf(shares), NumShareSlots)
                  + (shares'[s].amount - shares[s].amount)
                  + (shares'[t].amount - shares[t].amount)
        BY <1>1, <1>4, ReserveFacts, ReplaceTwoShares
    <2>2. QED
        BY <1>2, <1>3, <1>4, <2>1, NoShareType, ReserveFacts
<1>6. QED
    BY <1>1, <1>4, <1>5, ReserveFacts, ReserveInvNext

LEMMA TransferKusdInv ==
    ASSUME ReserveInv, NEW u \in Users, NEW v \in Users, NEW amount, TransferKusd(u, v, amount)
    PROVE  ReserveInv'
<1>1. /\ amount \in 1..kusd[u]
      /\ kusd' = Credit(Debit(kusd, u, amount), v, amount)
      /\ kas' = kas /\ reserve' = reserve /\ reserveToken' = reserveToken
      /\ feeToken' = feeToken /\ shares' = shares
    BY DEF TransferKusd
<1>2. amount \in Nat /\ amount <= kusd[u]
    BY <1>1, ReserveFacts
<1>3. Debit(kusd, u, amount) \in [Users -> Nat]
    BY <1>2, ReserveFacts, DebitNat
<1>4. kusd' \in [Users -> Nat]
    BY <1>1, <1>2, <1>3, CreditNat
<1>5. QED
    BY <1>1, <1>4, ReserveFacts, ReserveInvNext

LEMMA FundReserveInv ==
    ASSUME ReserveInv, NEW u \in Users, NEW f \in FeeSlots, NEW amount, FundReserve(u, f, amount)
    PROVE  ReserveInv'
<1>1. /\ amount \in 1..kusd[u]
      /\ kusd' = Debit(kusd, u, amount)
      /\ feeToken' = [feeToken EXCEPT ![f] = amount]
      /\ kas' = kas /\ reserve' = reserve /\ reserveToken' = reserveToken /\ shares' = shares
    BY DEF FundReserve
<1>2. amount \in Nat /\ amount <= kusd[u]
    BY <1>1, ReserveFacts
<1>3. kusd' \in [Users -> Nat] /\ feeToken' \in [FeeSlots -> Nat]
    BY <1>1, <1>2, ReserveFacts, DebitNat
<1>4. QED
    BY <1>1, <1>3, ReserveFacts, ReserveInvNext

(* Time changes ages, not amounts. *)
LEMMA AgeSharesInv ==
    ASSUME ReserveInv, AgeShares, UNCHANGED <<kusd, kas, reserve, reserveToken, feeToken>>
    PROVE  ReserveInv'
<1>1. ASSUME NEW i \in ShareSlots
      PROVE  shares'[i] \in Share /\ shares'[i].amount = shares[i].amount
    <2> DEFINE older == IF shares[i].amount > 0 /\ shares[i].age < MinimumHoldingDaa
                        THEN shares[i].age + 1 ELSE shares[i].age
    <2>1. shares'[i] = [shares[i] EXCEPT !.age = older]
        BY DEF AgeShares
    <2>2. shares[i] \in Share /\ shares[i].age \in 0..MinimumHoldingDaa
        BY ReserveFacts DEF Share
    <2>3. older \in 0..MinimumHoldingDaa
        BY <2>2, EquityAssumption
    <2> HIDE DEF older
    <2>4. QED
        BY <2>1, <2>2, <2>3 DEF Share
<1>2. shares' \in [ShareSlots -> Share]
    <2>1. shares' = [i \in ShareSlots |-> shares'[i]]
        BY DEF AgeShares
    <2>2. QED
        BY <1>1, <2>1
<1>3. SumTo(AmountsOf(shares'), NumShareSlots) = SumTo(AmountsOf(shares), NumShareSlots)
    <2> DEFINE f == AmountsOf(shares)
               g == AmountsOf(shares')
    <2>1. ASSUME NEW i \in 1..NumShareSlots
          PROVE  f[i] \in Int /\ g[i] = f[i]
        <3>1. f[i] = shares[i].amount /\ g[i] = shares'[i].amount
            BY DEF AmountsOf, ShareSlots
        <3>2. shares[i].amount \in Nat
            BY ReserveFacts DEF ShareSlots, Share
        <3>3. QED
            BY <1>1, <3>1, <3>2 DEF ShareSlots
    <2>2. NumShareSlots \in Nat
        BY EquityAssumption
    <2> HIDE DEF f, g
    <2>3. SumTo(g, NumShareSlots) = SumTo(f, NumShareSlots)
        BY <2>1, <2>2, SumSame
    <2>4. QED
        BY <2>3 DEF f, g
<1>4. QED
    BY <1>2, <1>3, ReserveFacts, ReserveInvNext

(* A behaviour keeps ReserveInv while nothing happens. *)
LEMMA ReserveStutter ==
    ASSUME ReserveInv, UNCHANGED equityVars
    PROVE  ReserveInv'
BY DEF equityVars, ReserveInv, EquityTypeOK, ReserveBooked, SharesBacked, AmountsOf

LEMMA ReserveStepInv ==
    ASSUME ReserveInv, ReserveStep
    PROVE  ReserveInv'
BY InitializeReserveInv, DepositInv, CollectFeeInv, RedeemInv DEF ReserveStep

LEMMA TokenStepInv ==
    ASSUME ReserveInv, TokenStep
    PROVE  ReserveInv'
BY TransferSharesInv, MergeSharesInv, TransferKusdInv DEF TokenStep

-----------------------------------------------------------------------------
(* Dilution: the two transactions that change totalKps round against the   *)
(* one who makes them, so the value behind each remaining share holds.     *)

LEMMA AddedInProportion ==
    ASSUME NEW a \in Nat, NEW b \in Nat, NEW x \in Nat, NEW y \in Nat,
           y * a <= x * b
    PROVE  (a + x) * b >= a * (b + y)
<1>1. (a + x) * b = a * b + x * b /\ a * (b + y) = a * b + y * a
    OBVIOUS
<1>2. a * b \in Nat /\ x * b \in Nat /\ y * a \in Nat
    BY ProductNat
<1>3. QED
    BY <1>1, <1>2

LEMMA TakenInProportion ==
    ASSUME NEW a \in Nat, NEW b \in Nat, NEW x \in Nat, NEW y \in Nat,
           x * b <= y * a
    PROVE  (a - x) * b >= a * (b - y)
<1>1. (a - x) * b = a * b - x * b /\ a * (b - y) = a * b - y * a
    OBVIOUS
<1>2. a * b \in Nat /\ x * b \in Nat /\ y * a \in Nat
    BY ProductNat
<1>3. QED
    BY <1>1, <1>2

LEMMA KpsUnchangedNotDiluted ==
    ASSUME reserve'.kps = reserve.kps
    PROVE  NotDiluted
BY DEF NotDiluted

LEMMA DepositNotDiluted ==
    ASSUME ReserveInv, NEW u \in Users, NEW amount, NEW s \in ShareSlots,
           Deposit(u, amount, s)
    PROVE  NotDiluted
<1> DEFINE minted == SharesFor(amount)
<1>1. SUFFICES ASSUME reserve.kps > 0
               PROVE  /\ reserve'.kusd * reserve.kps >= reserve.kusd * reserve'.kps
                      /\ reserve'.collateral * reserve.kps >= reserve.collateral * reserve'.kps
    BY DEF NotDiluted
<1>2. /\ amount \in 1..kusd[u] /\ reserve.collateral = 0
      /\ reserve.kps > 0 <=> reserve.kusd > 0
      /\ reserve' = [reserve EXCEPT !.kusd = @ + amount, !.kps = @ + minted]
    BY DEF Deposit
<1>3. amount \in Nat /\ reserve.kusd \in Nat \ {0} /\ reserve.kps \in Nat
    BY <1>1, <1>2, ReserveFacts
<1>4. minted \in Nat
    BY <1>2, <1>3, SharesForNat
<1>5. minted * reserve.kusd <= amount * reserve.kps
    <2>1. minted = MulDivFloor(amount, reserve.kps, reserve.kusd)
        BY <1>1, <1>3 DEF SharesFor
    <2>2. QED
        BY <1>3, <2>1, MulDivFloorBounds
<1> HIDE DEF minted
<1>6. /\ reserve'.kusd = reserve.kusd + amount /\ reserve'.kps = reserve.kps + minted
      /\ reserve'.collateral = 0
    <2>1. reserve.kusd + amount \in Nat /\ reserve.kps + minted \in Nat
        BY <1>3, <1>4
    <2>2. QED
        BY <1>2, <2>1, ReserveFacts, ReserveKusdKps
<1>7. (reserve.kusd + amount) * reserve.kps >= reserve.kusd * (reserve.kps + minted)
    BY <1>3, <1>4, <1>5, AddedInProportion
<1>8. 0 * reserve.kps >= 0 * (reserve.kps + minted)
    BY <1>3, <1>4
<1>9. QED
    BY <1>2, <1>6, <1>7, <1>8

LEMMA RedeemNotDiluted ==
    ASSUME ReserveInv, NEW s \in ShareSlots, Redeem(s)
    PROVE  NotDiluted
<1> DEFINE burned == shares[s].amount
           payout == MulDivFloor(burned, reserve.kusd, reserve.kps)
           payoutKas == MulDivFloor(burned, reserve.collateral, reserve.kps)
<1>1. /\ burned \in Nat \ {0} /\ burned <= reserve.kps /\ reserve.kps \in Nat \ {0}
      /\ payout \in 0..reserve.kusd /\ payoutKas \in 0..reserve.collateral
    BY RedeemPays
<1>2. /\ payout * reserve.kps <= burned * reserve.kusd
      /\ payoutKas * reserve.kps <= burned * reserve.collateral
    BY <1>1, ReserveFacts, MulDivFloorBounds
<1>3. reserve' = [reserve EXCEPT !.kusd = @ - payout, !.kps = @ - burned,
                                 !.collateral = @ - payoutKas]
    BY DEF Redeem
<1> HIDE DEF burned, payout, payoutKas
<1>4. /\ payout \in Nat /\ payoutKas \in Nat
      /\ reserve.kusd - payout \in Nat /\ reserve.kps - burned \in Nat
      /\ reserve.collateral - payoutKas \in Nat
    BY <1>1, ReserveFacts
<1>5. /\ reserve'.kusd = reserve.kusd - payout /\ reserve'.kps = reserve.kps - burned
      /\ reserve'.collateral = reserve.collateral - payoutKas
    BY <1>3, <1>4, ReserveFacts, ReserveAmounts, ZenonT(60)
<1>6. (reserve.kusd - payout) * reserve.kps >= reserve.kusd * (reserve.kps - burned)
    BY <1>1, <1>2, <1>4, ReserveFacts, TakenInProportion
<1>7. (reserve.collateral - payoutKas) * reserve.kps
          >= reserve.collateral * (reserve.kps - burned)
    BY <1>1, <1>2, <1>4, ReserveFacts, TakenInProportion
<1>8. QED
    BY <1>5, <1>6, <1>7 DEF NotDiluted

LEMMA ReserveStepNotDiluted ==
    ASSUME ReserveInv, ReserveStep
    PROVE  NotDiluted
<1>1. ASSUME NEW u \in Users, NEW amount \in KusdAmounts, NEW s \in ShareSlots,
             InitializeReserve(u, amount, s)
      PROVE  NotDiluted
    BY <1>1 DEF InitializeReserve, NotDiluted
<1>2. ASSUME NEW f \in FeeSlots, CollectFee(f)
      PROVE  NotDiluted
    <2>1. reserve'.kps = reserve.kps
        BY <1>2, ReserveFacts DEF CollectFee, ReserveStates
    <2>2. QED
        BY <2>1, KpsUnchangedNotDiluted
<1>3. QED
    BY <1>1, <1>2, DepositNotDiluted, RedeemNotDiluted DEF ReserveStep

LEMMA TokenStepNotDiluted ==
    ASSUME TokenStep
    PROVE  NotDiluted
<1>1. reserve' = reserve
    BY DEF TokenStep, TransferShares, MergeShares, TransferKusd
<1>2. QED
    BY <1>1, KpsUnchangedNotDiluted

LEMMA ReserveBackstopNotDiluted ==
    ASSUME ReserveInv, NEW u, NEW debt, NEW assigned, NEW collateral,
           ReserveBackstop(u, debt, assigned, collateral)
    PROVE  NotDiluted
<1>1. reserve'.kps = reserve.kps
    BY ReserveFacts DEF ReserveBackstop, ReserveStates
<1>2. QED
    BY <1>1, KpsUnchangedNotDiluted

-----------------------------------------------------------------------------
(* Totals *)

LEMMA SlotCounts == NumUsers \in Nat /\ NumFeeSlots \in Nat
BY EquityAssumption

(* Wallets: a Credit or Debit moves the total by its amount. *)
LEMMA WalletCredit ==
    ASSUME NEW f \in [Users -> Nat], NEW u \in Users, NEW amount \in Nat
    PROVE  /\ Credit(f, u, amount) \in [Users -> Nat]
           /\ SumTo(Credit(f, u, amount), NumUsers) = SumTo(f, NumUsers) + amount
<1>1. f \in [1..NumUsers -> Int] /\ u \in 1..NumUsers /\ amount \in Int
    BY DEF Users
<1>2. SumTo(Credit(f, u, amount), NumUsers) = SumTo(f, NumUsers) + amount
    BY <1>1, SlotCounts, SumCredit
<1>3. QED
    BY <1>2, CreditNat

LEMMA WalletDebit ==
    ASSUME NEW f \in [Users -> Nat], NEW u \in Users, NEW amount \in Nat, amount <= f[u]
    PROVE  /\ Debit(f, u, amount) \in [Users -> Nat]
           /\ SumTo(Debit(f, u, amount), NumUsers) = SumTo(f, NumUsers) - amount
<1>1. f \in [1..NumUsers -> Int] /\ u \in 1..NumUsers /\ amount \in Int
    BY DEF Users
<1>2. SumTo(Debit(f, u, amount), NumUsers) = SumTo(f, NumUsers) - amount
    BY <1>1, SlotCounts, SumDebit
<1>3. QED
    BY <1>2, DebitNat

(* Fee UTXOs: an update moves the total by the difference. *)
LEMMA FeeUpdate ==
    ASSUME NEW f \in [FeeSlots -> Nat], NEW k \in FeeSlots, NEW amount \in Nat
    PROVE  /\ [f EXCEPT ![k] = amount] \in [FeeSlots -> Nat]
           /\ SumTo([f EXCEPT ![k] = amount], NumFeeSlots) =
                  SumTo(f, NumFeeSlots) + (amount - f[k])
<1> DEFINE g == [f EXCEPT ![k] = amount]
<1>1. g \in [FeeSlots -> Nat] /\ g[k] = amount /\ \A i \in FeeSlots : i # k => g[i] = f[i]
    OBVIOUS
<1> HIDE DEF g
<1>2. SumTo(g, NumFeeSlots) = SumTo(f, NumFeeSlots) + (g[k] - f[k])
    <2>1. NumFeeSlots \in Nat /\ k \in 1..NumFeeSlots
        BY SlotCounts DEF FeeSlots
    <2>2. \A i \in 1..NumFeeSlots : f[i] \in Int /\ g[i] \in Int
        BY <1>1 DEF FeeSlots
    <2>3. \A i \in 1..NumFeeSlots : i # k => g[i] = f[i]
        BY <1>1 DEF FeeSlots
    <2>4. QED
        BY <2>1, <2>2, <2>3, SumUpdate, ZenonT(60)
<1>3. QED
    BY <1>1, <1>2 DEF g

(* Transactions of the Reserve and its tokens only: what they move between *)
(* wallets, fee UTXOs and the Reserve stays the same in total.             *)

EquityKusd == SumTo(kusd, NumUsers) + SumTo(feeToken, NumFeeSlots) + reserveToken
EquityKas == SumTo(kas, NumUsers) + reserve.collateral
FeesKept == \A i \in FeeSlots : feeToken'[i] \in {0, feeToken[i]}
EquityConserves == EquityKusd' = EquityKusd /\ EquityKas' = EquityKas /\ FeesKept

LEMMA EquityTotals ==
    ASSUME ReserveInv
    PROVE  /\ SumTo(kusd, NumUsers) \in Int /\ SumTo(kas, NumUsers) \in Int
           /\ SumTo(feeToken, NumFeeSlots) \in Int
           /\ reserveToken \in Nat /\ reserve.collateral \in Nat
<1>1. /\ NumUsers \in Nat /\ \A i \in 1..NumUsers : kusd[i] \in Int
      /\ \A i \in 1..NumUsers : kas[i] \in Int
    BY SlotCounts, ReserveFacts DEF Users
<1>2. NumFeeSlots \in Nat /\ \A i \in 1..NumFeeSlots : feeToken[i] \in Int
    BY SlotCounts, ReserveFacts DEF FeeSlots
<1>3. QED
    BY <1>1, <1>2, SumInt, ReserveFacts

LEMMA InitializeReserveConserves ==
    ASSUME ReserveInv, NEW u \in Users, NEW amount, NEW s \in ShareSlots,
           InitializeReserve(u, amount, s)
    PROVE  EquityConserves
<1>1. /\ amount \in 1..kusd[u] /\ reserve.kusd = 0 /\ reserve.collateral = 0
      /\ reserve' = [initialized |-> TRUE, kusd |-> amount, kps |-> amount, collateral |-> 0]
      /\ reserveToken' = amount /\ kusd' = Debit(kusd, u, amount)
      /\ kas' = kas /\ feeToken' = feeToken
    BY DEF InitializeReserve
<1>2. amount \in Nat /\ amount <= kusd[u] /\ reserveToken = 0
    BY <1>1, ReserveFacts
<1>3. SumTo(kusd', NumUsers) = SumTo(kusd, NumUsers) - amount
    BY <1>1, <1>2, ReserveFacts, WalletDebit
<1>4. reserve'.collateral = reserve.collateral
    BY <1>1
<1>5. QED
    BY <1>1, <1>2, <1>3, <1>4, EquityTotals DEF EquityConserves, EquityKusd, EquityKas, FeesKept

LEMMA DepositConserves ==
    ASSUME ReserveInv, NEW u \in Users, NEW amount, NEW s \in ShareSlots,
           Deposit(u, amount, s)
    PROVE  EquityConserves
<1>1. /\ amount \in 1..kusd[u]
      /\ reserve'.collateral = reserve.collateral
      /\ reserveToken' = reserveToken + amount /\ kusd' = Debit(kusd, u, amount)
      /\ kas' = kas /\ feeToken' = feeToken
    BY ReserveFacts DEF Deposit, ReserveStates
<1>2. amount \in Nat /\ amount <= kusd[u]
    BY <1>1, ReserveFacts
<1>3. SumTo(kusd', NumUsers) = SumTo(kusd, NumUsers) - amount
    BY <1>1, <1>2, ReserveFacts, WalletDebit
<1>4. QED
    BY <1>1, <1>2, <1>3, EquityTotals DEF EquityConserves, EquityKusd, EquityKas, FeesKept

LEMMA CollectFeeConserves ==
    ASSUME ReserveInv, NEW f \in FeeSlots, CollectFee(f)
    PROVE  EquityConserves
<1>1. /\ reserve'.collateral = reserve.collateral
      /\ reserveToken' = reserveToken + feeToken[f]
      /\ feeToken' = [feeToken EXCEPT ![f] = 0]
      /\ kusd' = kusd /\ kas' = kas
    BY ReserveFacts DEF CollectFee, ReserveStates
<1>2. feeToken[f] \in Nat
    BY ReserveFacts
<1>3. SumTo(feeToken', NumFeeSlots) = SumTo(feeToken, NumFeeSlots) + (0 - feeToken[f])
    BY <1>1, ReserveFacts, FeeUpdate, ZenonT(60)
<1>4. FeesKept
    BY <1>1, ReserveFacts, SlotCounts DEF FeesKept
<1>5. QED
    BY <1>1, <1>2, <1>3, <1>4, EquityTotals DEF EquityConserves, EquityKusd, EquityKas

LEMMA RedeemConserves ==
    ASSUME ReserveInv, NEW s \in ShareSlots, Redeem(s)
    PROVE  EquityConserves
<1> DEFINE payout == MulDivFloor(shares[s].amount, reserve.kusd, reserve.kps)
           payoutKas == MulDivFloor(shares[s].amount, reserve.collateral, reserve.kps)
           owner == shares[s].owner
<1>1. payout \in Nat /\ payoutKas \in Nat /\ owner \in Users
    BY RedeemPays, ReserveFacts
<1>2. /\ reserve'.collateral = reserve.collateral - payoutKas
      /\ reserveToken' = reserveToken - payout
      /\ kusd' = Credit(kusd, owner, payout)
      /\ kas' = Credit(kas, owner, payoutKas)
      /\ feeToken' = feeToken
    BY ReserveFacts DEF Redeem, ReserveStates
<1> HIDE DEF payout, payoutKas, owner
<1>3. /\ SumTo(kusd', NumUsers) = SumTo(kusd, NumUsers) + payout
      /\ SumTo(kas', NumUsers) = SumTo(kas, NumUsers) + payoutKas
    BY <1>1, <1>2, ReserveFacts, WalletCredit
<1>4. QED
    BY <1>1, <1>2, <1>3, EquityTotals DEF EquityConserves, EquityKusd, EquityKas, FeesKept

LEMMA TransferKusdConserves ==
    ASSUME ReserveInv, NEW u \in Users, NEW v \in Users, NEW amount, TransferKusd(u, v, amount)
    PROVE  EquityConserves
<1> DEFINE sent == Debit(kusd, u, amount)
<1>1. /\ amount \in 1..kusd[u] /\ kusd' = Credit(sent, v, amount)
      /\ kas' = kas /\ reserve' = reserve /\ reserveToken' = reserveToken
      /\ feeToken' = feeToken
    BY DEF TransferKusd
<1>2. amount \in Nat /\ amount <= kusd[u]
    BY <1>1, ReserveFacts
<1>3. sent \in [Users -> Nat] /\ SumTo(sent, NumUsers) = SumTo(kusd, NumUsers) - amount
    BY <1>2, ReserveFacts, WalletDebit
<1> HIDE DEF sent
<1>4. SumTo(kusd', NumUsers) = SumTo(sent, NumUsers) + amount
    BY <1>1, <1>2, <1>3, WalletCredit
<1>5. QED
    BY <1>1, <1>2, <1>3, <1>4, EquityTotals DEF EquityConserves, EquityKusd, EquityKas, FeesKept

LEMMA EquityStepConserves ==
    ASSUME ReserveInv, ReserveStep \/ TokenStep
    PROVE  EquityConserves
<1>1. ASSUME NEW s \in ShareSlots, NEW t \in ShareSlots, NEW v \in Users,
             NEW amount \in KpsAmounts, TransferShares(s, t, v, amount)
      PROVE  EquityConserves
    BY <1>1 DEF TransferShares, EquityConserves, EquityKusd, EquityKas, FeesKept
<1>2. ASSUME NEW s \in ShareSlots, NEW t \in ShareSlots, MergeShares(s, t)
      PROVE  EquityConserves
    BY <1>2 DEF MergeShares, EquityConserves, EquityKusd, EquityKas, FeesKept
<1>3. QED
    BY <1>1, <1>2, InitializeReserveConserves, DepositConserves, CollectFeeConserves,
       RedeemConserves, TransferKusdConserves DEF ReserveStep, TokenStep

=============================================================================
