------------------------ MODULE EquityMarket_proofs ------------------------
(***************************************************************************)
(* The EquityReserve under an arbitrary environment, for every value of    *)
(* the constants: its bookkeeping is exact and its holders are not diluted.*)
(***************************************************************************)
EXTENDS MC_Equity, EquityReserve_proofs

LEMMA InitialReserveInv ==
    ASSUME MarketInit
    PROVE  ReserveInv
<1>1. kusd \in [Users -> Nat] /\ kas \in [Users -> Nat]
    BY MarketAssumption DEF MarketInit
<1>2. QED
    BY <1>1, InitReserveInv DEF MarketInit

(* The auctions of the environment bring their collateral from outside. *)
LEMMA AuctionFallsInv ==
    ASSUME ReserveInv, NEW u \in Users, NEW debt \in 1..MaxAuctionDebt,
           NEW collateral \in 1..MaxCollateral, NEW assigned \in 0..debt,
           AuctionFalls(u, debt, assigned, collateral)
    PROVE  ReserveInv' /\ NotDiluted
<1>1. ReserveBackstop(u, debt, assigned, collateral) /\ kas' = kas
    BY DEF AuctionFalls
<1>2. debt \in Nat /\ assigned \in Nat /\ collateral \in Nat
    BY MarketAssumption
<1>3. kas' \in [Users -> Nat]
    BY <1>1, ReserveFacts
<1>4. QED
    BY <1>1, <1>2, <1>3, ReserveBackstopInv, ReserveBackstopNotDiluted

(* Every step of the market keeps the books and dilutes nobody. *)
LEMMA MarketStep ==
    ASSUME ReserveInv, [MarketNext]_equityVars
    PROVE  ReserveInv' /\ (equityVars' # equityVars => NotDiluted)
<1>1. CASE ReserveStep
    BY <1>1, ReserveStepInv, ReserveStepNotDiluted
<1>2. CASE TokenStep
    BY <1>2, TokenStepInv, TokenStepNotDiluted
<1>3. ASSUME NEW u \in Users, NEW f \in FeeSlots, NEW amount \in KusdAmounts,
             FundReserve(u, f, amount)
      PROVE  ReserveInv' /\ NotDiluted
    <2>1. reserve'.kps = reserve.kps
        BY <1>3 DEF FundReserve
    <2>2. QED
        BY <1>3, <2>1, FundReserveInv, KpsUnchangedNotDiluted
<1>4. ASSUME NEW u \in Users, NEW debt \in 1..MaxAuctionDebt,
             NEW collateral \in 1..MaxCollateral, NEW assigned \in 0..debt,
             AuctionFalls(u, debt, assigned, collateral)
      PROVE  ReserveInv' /\ NotDiluted
    BY <1>4, AuctionFallsInv
<1>5. CASE MarketTick
    <2>1. reserve'.kps = reserve.kps
        BY <1>5 DEF MarketTick
    <2>2. QED
        BY <1>5, <2>1, AgeSharesInv, KpsUnchangedNotDiluted DEF MarketTick
<1>6. CASE UNCHANGED equityVars
    BY <1>6, ReserveStutter
<1>7. QED
    BY <1>1, <1>2, <1>3, <1>4, <1>5, <1>6 DEF MarketNext

(* The inductive invariant: types, and the two equalities between what the *)
(* Reserve's state books and the tokens that exist.                        *)
LEMMA MarketInvariant == MarketSpec => []ReserveInv
<1>1. MarketInit => ReserveInv
    BY InitialReserveInv
<1>2. ReserveInv /\ [MarketNext]_equityVars => ReserveInv'
    BY MarketStep
<1>3. QED
    BY <1>1, <1>2, PTL DEF MarketSpec

(* Every amount the Reserve and its holders serialize stays a natural      *)
(* number: no payout, payment or debit ever exceeds what it is taken from. *)
THEOREM EquityTyped == MarketSpec => []EquityTypeOK
<1>1. ReserveInv => EquityTypeOK
    BY DEF ReserveInv
<1>2. QED
    BY <1>1, MarketInvariant, PTL

(* The KPS in circulation are exactly the totalKps that redeem divides by. *)
THEOREM EverySharesBacked == MarketSpec => []SharesBacked
<1>1. ReserveInv => SharesBacked
    BY DEF ReserveInv
<1>2. QED
    BY <1>1, MarketInvariant, PTL

(* The Reserve's KUSD UTXO always holds the amount its state books, so the *)
(* equality every policy requires can always be met.                       *)
THEOREM EveryReserveBooked == MarketSpec => []ReserveBooked
<1>1. ReserveInv => ReserveBooked
    BY DEF ReserveInv
<1>2. QED
    BY <1>1, MarketInvariant, PTL

(* No deposit or redemption takes KUSD or KAS from the shares it leaves    *)
(* behind, whatever fees, donations and auctions come in between.          *)
THEOREM HoldersNotDiluted == MarketSpec => HoldersKeepTheirValue
<1>1. ReserveInv /\ [MarketNext]_equityVars => [NotDiluted]_equityVars
    BY MarketStep
<1>2. QED
    BY <1>1, MarketInvariant, PTL DEF MarketSpec, HoldersKeepTheirValue

-----------------------------------------------------------------------------
(* The holding period, with the observer of MC_Equity *)

LEMMA SumMonotone ==
    ASSUME NEW n \in Nat, NEW f, NEW g,
           \A i \in 1..n : f[i] \in Int /\ g[i] \in Int /\ g[i] <= f[i]
    PROVE  SumTo(g, n) <= SumTo(f, n)
<1> DEFINE P == PartialSums(f, n)
           Q == PartialSums(g, n)
           Good == {i \in 0..n : Q[i] <= P[i]}
<1>1. /\ P[0] = 0 /\ \A i \in 1..n : P[i] = P[i - 1] + f[i]
      /\ Q[0] = 0 /\ \A i \in 1..n : Q[i] = Q[i - 1] + g[i]
    BY PartialSumsStep
<1>2. \A i \in 0..n : P[i] \in Int /\ Q[i] \in Int
    BY PartialSumsInt
<1> HIDE DEF P, Q
<1>3. 0 \in Good
    BY <1>1
<1>4. ASSUME NEW i \in 0..(n - 1), i \in Good
      PROVE  i + 1 \in Good
    <2>1. i + 1 \in 1..n /\ i + 1 \in 0..n /\ (i + 1) - 1 = i /\ i \in 0..n
        OBVIOUS
    <2>2. P[i + 1] = P[i] + f[i + 1] /\ Q[i + 1] = Q[i] + g[i + 1]
        BY <1>1, <2>1
    <2>3. Q[i] <= P[i] /\ g[i + 1] <= f[i + 1]
        BY <1>4, <2>1
    <2>4. f[i + 1] \in Int /\ g[i + 1] \in Int /\ P[i] \in Int /\ Q[i] \in Int
        BY <1>2, <2>1
    <2>5. Q[i + 1] <= P[i + 1]
        BY <2>2, <2>3, <2>4
    <2>6. QED
        BY <2>1, <2>5
<1>5. \A i \in 0..n : i \in Good
    <2> HIDE DEF Good
    <2>1. QED
        BY <1>3, <1>4, SetInduction
<1>6. QED
    BY <1>5 DEF SumTo, P, Q

(* What one UTXO adds to OwnedIn. *)
Counted(share, u, minAge) ==
    IF share.owner = u /\ share.age >= minAge THEN share.amount ELSE 0

LEMMA OwnedMonotone ==
    ASSUME NEW sh, NEW new, NEW u, NEW j, NEW k,
           \A s \in ShareSlots : Counted(sh[s], u, j) \in Int /\ Counted(new[s], u, k) \in Int,
           \A s \in ShareSlots : Counted(new[s], u, k) <= Counted(sh[s], u, j)
    PROVE  OwnedIn(new, u, k) <= OwnedIn(sh, u, j)
<1> DEFINE f == [s \in ShareSlots |-> IF sh[s].owner = u /\ sh[s].age >= j
                                      THEN sh[s].amount ELSE 0]
           g == [s \in ShareSlots |-> IF new[s].owner = u /\ new[s].age >= k
                                      THEN new[s].amount ELSE 0]
<1>1. \A i \in 1..NumShareSlots : f[i] = Counted(sh[i], u, j) /\ g[i] = Counted(new[i], u, k)
    BY DEF Counted, ShareSlots
<1> HIDE DEF f, g
<1>2. SumTo(g, NumShareSlots) <= SumTo(f, NumShareSlots)
    BY <1>1, EquityAssumption, SumMonotone DEF ShareSlots
<1>3. QED
    BY <1>2 DEF OwnedIn, f, g

LEMMA OwnedInt ==
    ASSUME NEW sh \in [ShareSlots -> Share], NEW u, NEW k
    PROVE  /\ OwnedIn(sh, u, k) \in Int
           /\ \A s \in ShareSlots : Counted(sh[s], u, k) \in Int
<1> DEFINE f == [s \in ShareSlots |-> IF sh[s].owner = u /\ sh[s].age >= k
                                      THEN sh[s].amount ELSE 0]
<1>1. \A s \in ShareSlots : sh[s].amount \in Int
    BY DEF Share
<1>2. \A i \in 1..NumShareSlots : f[i] \in Int
    BY <1>1 DEF ShareSlots
<1> HIDE DEF f
<1>3. SumTo(f, NumShareSlots) \in Int
    BY <1>2, EquityAssumption, SumInt
<1>4. QED
    BY <1>1, <1>3 DEF OwnedIn, Counted, f

(* Every UTXO a transaction creates starts with age 0. *)
FreshOrKept == \A s \in ShareSlots : shares'[s] = shares[s] \/ shares'[s].age = 0

LEMMA NewSharesAreFresh == NoShare.age = 0 /\ \A u, amount : NewShare(u, amount).age = 0
BY DEF NoShare, NewShare

LEMMA OneShareFresh ==
    ASSUME ReserveInv, NEW s \in ShareSlots, NEW r, r.age = 0,
           shares' = [shares EXCEPT ![s] = r]
    PROVE  FreshOrKept
<1>1. shares'[s] = r /\ \A i \in ShareSlots : i # s => shares'[i] = shares[i]
    BY ReserveFacts
<1>2. QED
    BY <1>1 DEF FreshOrKept

LEMMA TwoSharesFresh ==
    ASSUME ReserveInv, NEW s \in ShareSlots, NEW t \in ShareSlots, NEW r, NEW q,
           r.age = 0, q.age = 0, shares' = [shares EXCEPT ![s] = r, ![t] = q]
    PROVE  FreshOrKept
<1>1. /\ shares'[s] \in {r, q} /\ shares'[t] = q
      /\ \A i \in ShareSlots : i # s /\ i # t => shares'[i] = shares[i]
    BY ReserveFacts
<1>2. QED
    BY <1>1 DEF FreshOrKept

LEMMA MarketFresh ==
    ASSUME ReserveInv, MarketNext, ~MarketTick
    PROVE  FreshOrKept
<1>1. ASSUME NEW u \in Users, NEW amount \in KusdAmounts, NEW s \in ShareSlots,
             InitializeReserve(u, amount, s) \/ Deposit(u, amount, s)
      PROVE  FreshOrKept
    <2>1. \E n : shares' = [shares EXCEPT ![s] = NewShare(u, n)]
        BY <1>1 DEF InitializeReserve, Deposit
    <2>2. QED
        BY <2>1, NewSharesAreFresh, OneShareFresh
<1>2. ASSUME NEW s \in ShareSlots, Redeem(s)
      PROVE  FreshOrKept
    <2>1. shares' = [shares EXCEPT ![s] = NoShare]
        BY <1>2 DEF Redeem
    <2>2. QED
        BY <2>1, NewSharesAreFresh, OneShareFresh
<1>3. ASSUME shares' = shares
      PROVE  FreshOrKept
    BY <1>3 DEF FreshOrKept
<1>4. ASSUME NEW s \in ShareSlots, NEW t \in ShareSlots, NEW v \in Users,
             NEW amount \in KpsAmounts, TransferShares(s, t, v, amount)
      PROVE  FreshOrKept
    <2> DEFINE r == NewShare(shares[s].owner, shares[s].amount - amount)
               q == NewShare(v, amount)
    <2>1. shares' = [shares EXCEPT ![s] = r, ![t] = q]
        BY <1>4 DEF TransferShares
    <2>2. r.age = 0 /\ q.age = 0
        BY NewSharesAreFresh
    <2> HIDE DEF r, q
    <2>3. QED
        BY <2>1, <2>2, TwoSharesFresh
<1>5. ASSUME NEW s \in ShareSlots, NEW t \in ShareSlots, MergeShares(s, t)
      PROVE  FreshOrKept
    <2> DEFINE r == NewShare(shares[s].owner, shares[s].amount + shares[t].amount)
    <2>1. shares' = [shares EXCEPT ![s] = r, ![t] = NoShare]
        BY <1>5 DEF MergeShares
    <2>2. r.age = 0 /\ NoShare.age = 0
        BY NewSharesAreFresh
    <2> HIDE DEF r
    <2>3. QED
        BY <2>1, <2>2, TwoSharesFresh
<1>6. ASSUME NEW f \in FeeSlots, CollectFee(f)
      PROVE  shares' = shares
    BY <1>6 DEF CollectFee
<1>7. ASSUME NEW u \in Users, NEW v \in Users, NEW amount \in KusdAmounts,
             TransferKusd(u, v, amount)
      PROVE  shares' = shares
    BY <1>7 DEF TransferKusd
<1>8. ASSUME NEW u \in Users, NEW f \in FeeSlots, NEW amount \in KusdAmounts,
             FundReserve(u, f, amount)
      PROVE  shares' = shares
    BY <1>8 DEF FundReserve
<1>9. ASSUME NEW u, NEW debt, NEW assigned, NEW collateral,
             AuctionFalls(u, debt, assigned, collateral)
      PROVE  shares' = shares
    BY <1>9 DEF AuctionFalls, ReserveBackstop
<1>10. QED
    BY <1>1, <1>2, <1>3, <1>4, <1>5, <1>6, <1>7, <1>8, <1>9
       DEF MarketNext, ReserveStep, TokenStep

PastTyped == past \in [Users -> [Ages -> Int]]

(* The inductive invariant. *)
HoldingInv == ReserveInv /\ PastTyped /\ HoldingPeriodRespected

(* A transaction makes nothing older, and the observer keeps the least. *)
LEMMA HeldAfterTransaction ==
    ASSUME HoldingInv, shares' \in [ShareSlots -> Share], FreshOrKept, Observe
    PROVE  PastTyped' /\ HoldingPeriodRespected'
<1>1. shares \in [ShareSlots -> Share] /\ past \in [Users -> [Ages -> Int]]
    BY ReserveFacts DEF HoldingInv, PastTyped
<1>2. ASSUME NEW u \in Users, NEW k \in Ages
      PROVE  /\ past'[u][k] = Least(past[u][k], OwnedIn(shares', u, 0))
             /\ past'[u][k] \in Int
             /\ OwnedIn(shares', u, k) <= past'[u][k]
    <2>1. past'[u][k] = Least(past[u][k], OwnedIn(shares', u, 0))
        BY DEF Observe
    <2>2. k \in Nat /\ k >= 1
        BY EquityAssumption DEF Ages
    <2>3. /\ OwnedIn(shares', u, k) \in Int /\ OwnedIn(shares', u, 0) \in Int
          /\ OwnedIn(shares, u, k) \in Int /\ past[u][k] \in Int
        BY <1>1, OwnedInt
    <2>4. ASSUME NEW s \in ShareSlots
          PROVE  /\ Counted(shares'[s], u, k) \in Int /\ Counted(shares[s], u, k) \in Int
                 /\ Counted(shares'[s], u, 0) \in Int
                 /\ Counted(shares'[s], u, k) <= Counted(shares[s], u, k)
                 /\ Counted(shares'[s], u, k) <= Counted(shares'[s], u, 0)
        <3>1. /\ shares[s].amount \in Nat /\ shares'[s].amount \in Nat
              /\ shares[s].age \in Int /\ shares'[s].age \in Nat
            BY <1>1, EquityAssumption DEF Share
        <3>2. shares'[s] = shares[s] \/ shares'[s].age = 0
            BY DEF FreshOrKept
        <3>3. QED
            BY <2>2, <3>1, <3>2 DEF Counted
    <2>5. OwnedIn(shares', u, k) <= OwnedIn(shares, u, k)
        BY <2>4, OwnedMonotone
    <2>6. OwnedIn(shares', u, k) <= OwnedIn(shares', u, 0)
        BY <2>4, OwnedMonotone
    <2>7. OwnedIn(shares, u, k) <= past[u][k]
        BY DEF HoldingInv, HoldingPeriodRespected
    <2>8. QED
        BY <2>1, <2>3, <2>5, <2>6, <2>7 DEF Least
<1>3. past' \in [Users -> [Ages -> Int]]
    BY <1>2 DEF Observe
<1>4. QED
    BY <1>2, <1>3 DEF PastTyped, HoldingPeriodRespected

(* When a unit passes, what is k old now was k - 1 old before. *)
LEMMA HeldAfterTick ==
    ASSUME HoldingInv, shares' \in [ShareSlots -> Share], MarketTick, ObserveTick
    PROVE  PastTyped' /\ HoldingPeriodRespected'
<1>1. shares \in [ShareSlots -> Share] /\ past \in [Users -> [Ages -> Int]]
    BY ReserveFacts DEF HoldingInv, PastTyped
<1>2. ASSUME NEW u \in Users, NEW k \in Ages
      PROVE  past'[u][k] \in Int /\ OwnedIn(shares', u, k) <= past'[u][k]
    <2> DEFINE j == k - 1
    <2>1. past'[u][k] = IF k = 1 THEN OwnedIn(shares, u, 0) ELSE past[u][j]
        BY DEF ObserveTick
    <2>2. /\ k \in Nat /\ j \in Nat /\ k = j + 1
          /\ k # 1 => j \in Ages
          /\ k = 1 => j = 0
        BY EquityAssumption DEF Ages
    <2> HIDE DEF j
    <2>3. /\ OwnedIn(shares', u, k) \in Int /\ OwnedIn(shares, u, j) \in Int
          /\ OwnedIn(shares, u, 0) \in Int
        BY <1>1, OwnedInt
    <2>4. ASSUME NEW s \in ShareSlots
          PROVE  /\ Counted(shares'[s], u, k) \in Int /\ Counted(shares[s], u, j) \in Int
                 /\ Counted(shares'[s], u, k) <= Counted(shares[s], u, j)
        <3>1. shares[s] \in Share /\ shares[s].amount \in Nat /\ shares[s].age \in Nat
            BY <1>1, EquityAssumption DEF Share
        <3> DEFINE older == IF shares[s].amount > 0 /\ shares[s].age < MinimumHoldingDaa
                            THEN shares[s].age + 1 ELSE shares[s].age
        <3>2. shares'[s] = [shares[s] EXCEPT !.age = older]
            BY DEF MarketTick, AgeShares
        <3>3. older \in Nat /\ older <= shares[s].age + 1
            BY <3>1
        <3> HIDE DEF older
        <3>4. /\ shares'[s].owner = shares[s].owner /\ shares'[s].amount = shares[s].amount
              /\ shares'[s].age = older
            BY <3>1, <3>2 DEF Share
        <3>5. older >= k => shares[s].age >= j
            BY <2>2, <3>1, <3>3
        <3>6. QED
            BY <3>1, <3>4, <3>5 DEF Counted
    <2>5. OwnedIn(shares', u, k) <= OwnedIn(shares, u, j)
        BY <2>4, OwnedMonotone
    <2>6. CASE k = 1
        BY <2>1, <2>2, <2>3, <2>5, <2>6
    <2>7. CASE k # 1
        <3>1. past[u][j] \in Int /\ OwnedIn(shares, u, j) <= past[u][j]
            BY <1>1, <2>2, <2>7 DEF HoldingInv, HoldingPeriodRespected
        <3>2. QED
            BY <2>1, <2>3, <2>5, <2>7, <3>1
    <2>8. QED
        BY <2>6, <2>7
<1>3. past' \in [Users -> [Ages -> Int]]
    BY <1>2 DEF ObserveTick
<1>4. QED
    BY <1>2, <1>3 DEF PastTyped, HoldingPeriodRespected

LEMMA HoldingStep ==
    ASSUME HoldingInv, [MCNext]_mcVars
    PROVE  HoldingInv'
<1>1. CASE UNCHANGED mcVars
    <2>1. UNCHANGED equityVars /\ past' = past /\ shares' = shares
        BY <1>1 DEF mcVars, equityVars
    <2>2. QED
        BY <2>1, ReserveStutter DEF HoldingInv, PastTyped, HoldingPeriodRespected
<1>2. CASE MCNext
    <2>1. MarketNext
        BY <1>2 DEF MCNext, MarketNext
    <2>2. ReserveInv'
        BY <2>1, MarketStep DEF HoldingInv
    <2>3. shares' \in [ShareSlots -> Share]
        BY <2>2 DEF ReserveInv, EquityTypeOK
    <2>4. CASE MarketTick /\ ObserveTick
        BY <2>2, <2>3, <2>4, HeldAfterTick DEF HoldingInv
    <2>5. CASE MarketNext /\ ~MarketTick /\ Observe
        BY <2>2, <2>3, <2>5, MarketFresh, HeldAfterTransaction DEF HoldingInv
    <2>6. QED
        BY <1>2, <2>4, <2>5 DEF MCNext
<1>3. QED
    BY <1>1, <1>2

LEMMA InitialHolding ==
    ASSUME MCInit
    PROVE  HoldingInv
<1>1. ReserveInv
    BY InitialReserveInv DEF MCInit
<1>2. past = [u \in Users |-> [k \in Ages |-> 0]]
    BY DEF MCInit
<1>3. PastTyped
    BY <1>2 DEF PastTyped
<1>4. ASSUME NEW u \in Users, NEW k \in Ages
      PROVE  OwnedIn(shares, u, k) <= past[u][k]
    <2> DEFINE f == [s \in ShareSlots |-> IF shares[s].owner = u /\ shares[s].age >= k
                                          THEN shares[s].amount ELSE 0]
    <2>1. \A i \in 1..NumShareSlots : f[i] = 0
        BY NoShareType DEF MCInit, MarketInit, InitReserve, ShareSlots
    <2> HIDE DEF f
    <2>2. SumTo(f, NumShareSlots) = 0
        BY <2>1, EquityAssumption, SumOfZeros
    <2>3. OwnedIn(shares, u, k) = 0
        BY <2>2 DEF OwnedIn, f
    <2>4. past[u][k] = 0
        BY <1>2
    <2>5. QED
        BY <2>3, <2>4
<1>5. QED
    BY <1>1, <1>3, <1>4 DEF HoldingInv, HoldingPeriodRespected

(* However KPS are transferred, split and merged, a wallet's KPS of age k  *)
(* are no more than the fewest it owned in the last k units: no redemption *)
(* comes sooner than MinimumHoldingDaa after the KPS were acquired.        *)
THEOREM HoldingPeriodIsRespected == MCSpec => []HoldingPeriodRespected
<1>1. MCInit => HoldingInv
    BY InitialHolding
<1>2. HoldingInv /\ [MCNext]_mcVars => HoldingInv'
    BY HoldingStep
<1>3. HoldingInv => HoldingPeriodRespected
    BY DEF HoldingInv
<1>4. QED
    BY <1>1, <1>2, <1>3, PTL DEF MCSpec
=============================================================================
