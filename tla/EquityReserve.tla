--------------------------- MODULE EquityReserve ---------------------------
(***************************************************************************)
(* The EquityReserve covenant with the two tokens it deals in: KUSD        *)
(* (KCC20), of which it owns one UTXO that its state books, and KPS, which *)
(* only it mints and burns.  Every action is one accepted transaction.     *)
(*                                                                         *)
(* A wallet's KUSD UTXOs are represented by their total, since a KCC20     *)
(* transfer splits and merges them at will.  KPS UTXOs are kept apart      *)
(* (`shares`), since the age of the UTXO decides whether it may be         *)
(* redeemed.  Ages saturate at MinimumHoldingDaa, the only value they are  *)
(* compared with.                                                          *)
(***************************************************************************)
EXTENDS Amounts, Sums

CONSTANTS
    NumUsers,           \* wallets
    NumFeeSlots,        \* KUSD UTXOs owned by the Reserve and not yet booked
    NumShareSlots,      \* KPS UTXOs in circulation
    MinimumHoldingDaa,  \* age a KPS UTXO needs before it can be redeemed
    RewardPpm,          \* challenger reward, challengeRewardPpm of the terms
    KusdAmounts,        \* KUSD amounts users choose for a deposit or a transfer
    KpsAmounts          \* KPS amounts users choose for a transfer

Users == 1..NumUsers
FeeSlots == 1..NumFeeSlots
ShareSlots == 1..NumShareSlots

MaxRewardPpm == 100000   \* the largest reward RootIssuance grants a Module

ASSUME EquityAssumption ==
    /\ NumUsers \in Nat \ {0}
    /\ NumFeeSlots \in Nat
    /\ NumShareSlots \in Nat
    /\ MinimumHoldingDaa \in Nat \ {0}
    /\ RewardPpm \in 1..MaxRewardPpm
    /\ KusdAmounts \subseteq Nat
    /\ KpsAmounts \subseteq Nat

VARIABLES
    kusd,          \* KUSD held by each wallet
    kas,           \* KAS (sompi) held by each wallet
    reserve,       \* the covenant state: [initialized, kusd, kps, collateral]
    reserveToken,  \* amount of the KUSD UTXO the Reserve owns and books
    feeToken,      \* amounts of the fee UTXOs it owns and has not booked yet
    shares         \* KPS UTXOs: owner, amount (0: no UTXO), age, and whether locked

equityVars == <<kusd, kas, reserve, reserveToken, feeToken, shares>>

ReserveStates == [initialized : BOOLEAN, kusd : Nat, kps : Nat, collateral : Nat]
(* A locked UTXO belongs to a KpsDelegation covenant; its owner is then the *)
(* one the delegation names.                                               *)
Share == [owner : Users, amount : Nat, age : 0..MinimumHoldingDaa, locked : BOOLEAN]

(* KPS UTXOs have no identity: a new one takes the first empty slot. *)
FreeSlot(s) ==
    /\ shares[s].amount = 0
    /\ \A t \in ShareSlots : t < s => shares[t].amount > 0

(* The KPS amounts of a family of UTXOs. *)
AmountsOf(utxos) == [s \in ShareSlots |-> utxos[s].amount]

(* The UTXO a transaction creates: it starts with age 0.  A slot without a *)
(* UTXO holds NoShare.                                                     *)
NoShare == [owner |-> 1, amount |-> 0, age |-> 0, locked |-> FALSE]
NewShare(owner, amount) ==
    IF amount = 0 THEN NoShare
    ELSE [owner |-> owner, amount |-> amount, age |-> 0, locked |-> FALSE]

EquityTypeOK ==
    /\ kusd \in [Users -> Nat]
    /\ kas \in [Users -> Nat]
    /\ reserve \in ReserveStates
    /\ reserveToken \in Nat
    /\ feeToken \in [FeeSlots -> Nat]
    /\ shares \in [ShareSlots -> Share]

(* The covenant before its first deposit: kpsAssetId is still zero. *)
InitReserve ==
    /\ reserve = [initialized |-> FALSE, kusd |-> 0, kps |-> 0, collateral |-> 0]
    /\ reserveToken = 0
    /\ feeToken = [f \in FeeSlots |-> 0]
    /\ shares = [s \in ShareSlots |-> NoShare]

-----------------------------------------------------------------------------

(* initialize: the first deposit fixes the KPS asset and mints one KPS per *)
(* KUSD atom.                                                              *)
InitializeReserve(u, amount, s) ==
    /\ ~reserve.initialized
    /\ reserve.kusd = 0 /\ reserve.kps = 0 /\ reserve.collateral = 0
    /\ amount \in 1..kusd[u]
    /\ FreeSlot(s)
    /\ reserve' = [initialized |-> TRUE, kusd |-> amount, kps |-> amount, collateral |-> 0]
    /\ reserveToken' = amount
    /\ kusd' = Debit(kusd, u, amount)
    /\ shares' = [shares EXCEPT ![s] = NewShare(u, amount)]
    /\ UNCHANGED <<kas, feeToken>>

(* Mutant: the depositor, not the holders, gains from the rounding. *)
SharesForRoundedUp(amount) ==
    IF reserve.kps = 0 THEN amount
    ELSE (amount * reserve.kps + reserve.kusd - 1) \div reserve.kusd

(* KPS minted for a deposit: one for one in an empty Reserve, pro rata and *)
(* rounded down otherwise.                                                 *)
SharesFor(amount) ==
    IF reserve.kps = 0 THEN amount ELSE MulDivFloor(amount, reserve.kps, reserve.kusd)

(* deposit: refused while the Reserve holds acquired collateral, or when   *)
(* exactly one of its KUSD and its KPS is zero.                            *)
Deposit(u, amount, s) ==
    /\ reserve.initialized
    /\ amount \in 1..kusd[u]
    /\ reserve.collateral = 0
    /\ reserve.kps > 0 <=> reserve.kusd > 0
    /\ SharesFor(amount) > 0
    /\ reserveToken = reserve.kusd
    /\ FreeSlot(s)
    /\ reserve' = [reserve EXCEPT !.kusd = @ + amount, !.kps = @ + SharesFor(amount)]
    /\ reserveToken' = reserveToken + amount
    /\ kusd' = Debit(kusd, u, amount)
    /\ shares' = [shares EXCEPT ![s] = NewShare(u, SharesFor(amount))]
    /\ UNCHANGED <<kas, feeToken>>

(* Mutant: the fee is booked but not merged into the Reserve's UTXO. *)
CollectFeeWithoutToken(f) ==
    /\ feeToken[f] > 0
    /\ reserve' = [reserve EXCEPT !.kusd = @ + feeToken[f]]
    /\ feeToken' = [feeToken EXCEPT ![f] = 0]
    /\ UNCHANGED <<kusd, kas, shares, reserveToken>>

(* collect_fee: books one whole fee UTXO.  The policy asks nothing of      *)
(* kpsAssetId, so it also runs on a Reserve that is not initialized (its   *)
(* old token is then a zero-amount UTXO, which any KCC20 transfer makes).  *)
CollectFee(f) ==
    /\ feeToken[f] > 0
    /\ reserveToken = reserve.kusd
    /\ reserve' = [reserve EXCEPT !.kusd = @ + feeToken[f]]
    /\ reserveToken' = reserveToken + feeToken[f]
    /\ feeToken' = [feeToken EXCEPT ![f] = 0]
    /\ UNCHANGED <<kusd, kas, shares>>

(* redeem: burns one whole KPS UTXO for its share of KUSD and of acquired  *)
(* KAS.  The KPS minter leads the transaction, so the burned UTXO is spent *)
(* as a delegate and must have its minimum age.                            *)
Redeem(s) ==
    LET burned == shares[s].amount
        payout == MulDivFloor(burned, reserve.kusd, reserve.kps)
        payoutKas == MulDivFloor(burned, reserve.collateral, reserve.kps)
    IN  /\ reserve.initialized
        /\ burned > 0 /\ burned <= reserve.kps
        /\ ~shares[s].locked
        /\ shares[s].age >= MinimumHoldingDaa
        /\ payout > 0 \/ payoutKas > 0
        /\ reserveToken = reserve.kusd
        /\ reserve' = [reserve EXCEPT !.kusd = @ - payout,
                                      !.kps = @ - burned,
                                      !.collateral = @ - payoutKas]
        /\ reserveToken' = reserveToken - payout
        /\ kusd' = Credit(kusd, shares[s].owner, payout)
        /\ kas' = Credit(kas, shares[s].owner, payoutKas)
        /\ shares' = [shares EXCEPT ![s] = NoShare]
        /\ UNCHANGED feeToken

(* collect_proposal_fee: a vetoed proposal's fee is booked and merged. *)
CollectProposalFee(fee) ==
    /\ fee > 0
    /\ reserveToken = reserve.kusd
    /\ reserve' = [reserve EXCEPT !.kusd = @ + fee]
    /\ reserveToken' = reserveToken + fee

(* What the floor of an auction asks for: the debt not covered by the      *)
(* assigned reserve, and the challenger's reward.                          *)
Reward(debt) == MulPpm(debt, RewardPpm)
FloorPaymentWithoutAssigned(debt, assigned) == debt + Reward(debt)  \* mutant
FloorPayment(debt, assigned) == debt - assigned + Reward(debt)

(* Mutants: the Reserve's half without its solvency check, and with one that
   refuses to spend the last atom. *)
ReserveBackstopUnchecked(challenger, debt, assigned, collateral) ==
    LET payment == FloorPayment(debt, assigned)
    IN  /\ debt > 0
        /\ assigned <= debt
        /\ reserve' = [reserve EXCEPT !.kusd = @ - payment, !.collateral = @ + collateral]
        /\ reserveToken' = reserveToken - payment
        /\ kusd' = Credit(kusd, challenger, Reward(debt))
        /\ UNCHANGED <<feeToken, shares>>

ReserveBackstopStrict(challenger, debt, assigned, collateral) ==
    LET payment == FloorPayment(debt, assigned)
    IN  /\ debt > 0
        /\ assigned <= debt
        /\ reserve.kusd > payment
        /\ reserve' = [reserve EXCEPT !.kusd = @ - payment, !.collateral = @ + collateral]
        /\ reserveToken' = reserveToken - payment
        /\ kusd' = Credit(kusd, challenger, Reward(debt))
        /\ UNCHANGED <<feeToken, shares>>

(* The Reserve's half of backstop: it pays the floor of a mature auction   *)
(* in full or not at all, and takes the collateral over.                   *)
ReserveBackstop(challenger, debt, assigned, collateral) ==
    LET payment == FloorPayment(debt, assigned)
    IN  /\ debt > 0
        /\ assigned <= debt
        /\ reserve.kusd >= payment
        /\ reserveToken = reserve.kusd
        /\ reserve' = [reserve EXCEPT !.kusd = @ - payment, !.collateral = @ + collateral]
        /\ reserveToken' = reserveToken - payment
        /\ kusd' = Credit(kusd, challenger, Reward(debt))
        /\ UNCHANGED <<feeToken, shares>>

(* KPS transfer to v: the sender's UTXO leads, whatever its age, and both  *)
(* the sent part and the change start a new age.                           *)
TransferShares(s, t, v, amount) ==
    /\ amount \in 1..shares[s].amount
    /\ ~shares[s].locked
    /\ IF amount = shares[s].amount THEN t = s ELSE FreeSlot(t)
    /\ shares' = [shares EXCEPT ![s] = NewShare(shares[s].owner, shares[s].amount - amount),
                                ![t] = NewShare(v, amount)]
    /\ UNCHANGED <<kusd, kas, reserve, reserveToken, feeToken>>

(* Mutants: the merged UTXO inherits the age; the second UTXO is not spent. *)
MergeSharesKeepingAge(s, t) ==
    /\ s # t
    /\ shares[s].owner = shares[t].owner
    /\ ~shares[s].locked /\ ~shares[t].locked
    /\ shares[s].amount > 0 /\ shares[t].amount > 0
    /\ shares[t].age >= MinimumHoldingDaa
    /\ shares' = [shares EXCEPT ![s] = [shares[t] EXCEPT !.amount = @ + shares[s].amount],
                                ![t] = NoShare]
    /\ UNCHANGED <<kusd, kas, reserve, reserveToken, feeToken>>

MergeSharesLeavingSecond(s, t) ==
    /\ s # t
    /\ shares[s].owner = shares[t].owner
    /\ ~shares[s].locked /\ ~shares[t].locked
    /\ shares[s].amount > 0 /\ shares[t].amount > 0
    /\ shares[t].age >= MinimumHoldingDaa
    /\ shares' = [shares EXCEPT ![s] = NewShare(@.owner, @.amount + shares[t].amount)]
    /\ UNCHANGED <<kusd, kas, reserve, reserveToken, feeToken>>

(* KPS transfer of two UTXOs of one owner into one: s leads, t is spent as *)
(* a delegate and must have its minimum age.                               *)
MergeShares(s, t) ==
    /\ s # t
    /\ shares[s].owner = shares[t].owner
    /\ ~shares[s].locked /\ ~shares[t].locked
    /\ shares[s].amount > 0 /\ shares[t].amount > 0
    /\ shares[t].age >= MinimumHoldingDaa
    /\ shares' = [shares EXCEPT ![s] = NewShare(@.owner, @.amount + shares[t].amount),
                                ![t] = NoShare]
    /\ UNCHANGED <<kusd, kas, reserve, reserveToken, feeToken>>

(* lock: a wallet's whole UTXO goes to a new delegation, and starts a new   *)
(* age.                                                                    *)
LockShare(s) ==
    /\ shares[s].amount > 0
    /\ ~shares[s].locked
    /\ shares' = [shares EXCEPT ![s].locked = TRUE, ![s].age = 0]

(* unlock: the whole UTXO goes to a wallet.  KPS asks that the delegation   *)
(* is spent, but reads who its owner is from an argument.                  *)
UnlockShare(s, to) ==
    /\ shares[s].amount > 0
    /\ shares[s].locked
    /\ shares' = [shares EXCEPT ![s] = NewShare(to, @.amount)]

(* A locked UTXO spent with its delegation is created again unchanged. *)
RenewShares(slots) ==
    shares' = [s \in ShareSlots |->
                  IF s \in slots THEN [shares[s] EXCEPT !.age = 0] ELSE shares[s]]

(* KPS beside a delegation that goes on, its owner then being `owner`: the *)
(* delegation of s wants one KPS UTXO, kept, created again as it was, and  *)
(* does not ask that it is its own.  A wallet's will do; its own may then  *)
(* stay unspent.                                                           *)
KeepShare(s, owner, kept) ==
    /\ shares[s].locked
    /\ shares[kept].amount > 0
    /\ kept # s => ~shares[kept].locked
    /\ shares' = [t \in ShareSlots |->
                      [shares[t] EXCEPT !.owner = IF t = s THEN owner ELSE @,
                                        !.age = IF t = kept THEN 0 ELSE @]]

(* Or its own is unlocked for wallet `to` beside the one that is kept. *)
ReleaseShare(s, kept, to) ==
    /\ shares[s].locked
    /\ kept # s /\ shares[kept].amount > 0 /\ ~shares[kept].locked
    /\ shares' = [shares EXCEPT ![s] = NewShare(to, @.amount), ![kept].age = 0]

(* Mutant: checkAmounts misses an input smaller than what it pays out. *)
TransferKusdOverdrawn(u, v, amount) ==
    /\ u # v
    /\ kusd' = Credit(Debit(kusd, u, amount), v, amount)
    /\ UNCHANGED <<kas, reserve, reserveToken, feeToken, shares>>

(* KCC20 transfer between wallets. *)
TransferKusd(u, v, amount) ==
    /\ u # v
    /\ amount \in 1..kusd[u]
    /\ kusd' = Credit(Debit(kusd, u, amount), v, amount)
    /\ UNCHANGED <<kas, reserve, reserveToken, feeToken, shares>>

(* KCC20 transfer to the Reserve's covenant id: a fee UTXO by donation. *)
FundReserve(u, f, amount) ==
    /\ amount \in 1..kusd[u]
    /\ feeToken[f] = 0
    /\ kusd' = Debit(kusd, u, amount)
    /\ feeToken' = [feeToken EXCEPT ![f] = amount]
    /\ UNCHANGED <<kas, reserve, reserveToken, shares>>

(* One DAA unit passes for every KPS UTXO. *)
AgeShares ==
    shares' = [s \in ShareSlots |->
                  [shares[s] EXCEPT !.age = IF shares[s].amount > 0 /\ @ < MinimumHoldingDaa
                                            THEN @ + 1 ELSE @]]

-----------------------------------------------------------------------------

(* A redemption or a deposit never takes value from the KPS it leaves      *)
(* behind: the KUSD and the KAS behind each remaining share do not shrink  *)
(* when the number of shares changes (mulDivFloor rounds for the holders). *)
NotDiluted ==
    reserve.kps > 0 /\ reserve'.kps > 0 /\ reserve'.kps # reserve.kps =>
        /\ reserve'.kusd * reserve.kps >= reserve.kusd * reserve'.kps
        /\ reserve'.collateral * reserve.kps >= reserve.collateral * reserve'.kps

(* The KPS UTXOs in circulation add up to the totalKps the Reserve books:  *)
(* redeem divides by totalKps, and a stray share would be unbacked.        *)
SharesBacked == SumTo(AmountsOf(shares), NumShareSlots) = reserve.kps

(* The KUSD UTXO the Reserve owns holds exactly the reserveKusd it books;  *)
(* otherwise none of its policies could ever be spent again.               *)
ReserveBooked == reserveToken = reserve.kusd

(* src/src/equity.rs calls a reserve without shares forbidden: KUSD that   *)
(* no KPS holder can redeem and that blocks every later deposit.           *)
NoReserveWithoutShares == reserve.initialized /\ reserve.kps = 0 => reserve.kusd = 0

-----------------------------------------------------------------------------

(* Transactions of the Reserve and its holders that need no other covenant. *)
ReserveStep ==
    \/ \E u \in Users, amount \in KusdAmounts, s \in ShareSlots : InitializeReserve(u, amount, s)
    \/ \E u \in Users, amount \in KusdAmounts, s \in ShareSlots : Deposit(u, amount, s)
    \/ \E f \in FeeSlots : CollectFee(f)
    \/ \E s \in ShareSlots : Redeem(s)

TokenStep ==
    \/ \E s, t \in ShareSlots, v \in Users, amount \in KpsAmounts :
          TransferShares(s, t, v, amount)
    \/ \E s, t \in ShareSlots : MergeShares(s, t)
    \/ \E u, v \in Users, amount \in KusdAmounts : TransferKusd(u, v, amount)
=============================================================================
