---------------------------- MODULE Savings_proofs ----------------------------
(***************************************************************************)
(* Savings for every value of the constants: interest, deposits and saved  *)
(* KUSD stay where they are booked, in whatever order and pairing the      *)
(* covenants are spent.  The Reserve's and the delegations' steps are      *)
(* those Governance_proofs is about.  Then, with MC_Savings's observers,   *)
(* the notice KPS holders have and the time Accounts are paid for; and     *)
(* last what the client builds for all of it.                              *)
(***************************************************************************)
EXTENDS MC_Savings, Governance_proofs

ControllerStates == [governed : BOOLEAN, enabled : BOOLEAN, seriesNonce : Nat,
                     accountNonce : 0..NumAccounts, totalSaved : Nat, rate : 0..PPM,
                     delay : Nat, maxAccrual : Nat]
GovernorStates == [proposalNonce : 0..MaxSeries, executionNonce : Nat, active : 0..MaxSeries]
SeriesStates == [stage : {"none", "pending", "activated"}, proposer : Users,
                 nonce : 0..MaxSeries, terms : Terms, deposit : Nat, age : 0..MaxSeriesAge]
AccountStates == [open : BOOLEAN, owner : Users, saved : Nat, rate : Nat,
                  delay : Nat, remaining : Nat, daaPerYear : Nat, referrer : Users,
                  referralPpm : Nat, value : Nat, age : 0..MaxAccountAge]

SavingsTypes ==
    /\ registry \in BOOLEAN
    /\ controller \in ControllerStates
    /\ governor \in GovernorStates
    /\ series \in SeriesStates
    /\ accounts \in [AccountSlots -> AccountStates]
    /\ accountToken \in [AccountSlots -> Nat]

TokensSaved == \A a \in AccountSlots : accountToken[a] = accounts[a].saved

(* Accounts that are not there are blank, those not opened yet among them: *)
(* open_account and the wallets write over them.                           *)
BlankAccounts ==
    /\ \A a \in AccountSlots : ~accounts[a].open => accounts[a] = NoAccount
    /\ \A a \in OpenedSlots : a > controller.accountNonce => ~accounts[a].open

(* The inductive invariant. *)
SavingsInv ==
    /\ GovInv
    /\ SavingsTypes
    /\ SeriesBacked
    /\ TokensSaved
    /\ BlankAccounts

(* What there is of KUSD and of KAS, proposals of Modules left out. *)
Values == [a \in AccountSlots |-> accounts[a].value]
HeldKusd == SumTo(kusd, NumUsers) + reserveToken + SumTo(feeToken, NumFeeSlots)
                + SumTo(accountToken, TotalAccounts)
HeldKas == SumTo(kas, NumUsers) + reserve.collateral + series.deposit
               + SumTo(Values, TotalAccounts)
HeldKept == HeldKusd' = HeldKusd /\ HeldKas' = HeldKas

(* What every step has to keep. *)
SavingsKeeps == SavingsInv' /\ HeldKept

-----------------------------------------------------------------------------
(* Types and totals *)

LEMMA SavingsConstants ==
    /\ NumAccounts \in Nat /\ MaxSeries \in Nat /\ MaxSeriesAge \in Nat
    /\ TotalAccounts \in Nat /\ OpenedSlots \subseteq AccountSlots
    /\ OtherTerms \subseteq Terms /\ MaxAccountAge \in Nat /\ AccountValue \in Nat /\ SeriesDeposit \in Nat
    /\ DaaPerYear \in Nat \ {0} /\ MaxReferralPpm \in Nat
    /\ SeriesTerms \subseteq Terms /\ PPM \in Nat \ {0} /\ 1 \in Users
<1>1. /\ NumAccounts \in Nat /\ MaxSeries \in Nat
      /\ MaxAccountAge \in Nat /\ AccountValue \in Nat /\ SeriesDeposit \in Nat
      /\ DaaPerYear \in Nat \ {0} /\ SeriesTerms \subseteq Terms
      /\ SeriesVotingDelay \in Nat /\ SeriesExecutionWindow \in Nat
    BY SavingsAssumption
<1>2. MaxSeriesAge \in Nat
    BY <1>1 DEF MaxSeriesAge, Maximum
<1>3. MaxReferralPpm \in Nat
    BY SMT DEF MaxReferralPpm
<1>4. TotalAccounts \in Nat /\ OpenedSlots \subseteq AccountSlots /\ OtherTerms \subseteq Terms
    BY SavingsAssumption DEF TotalAccounts, OpenedSlots, AccountSlots
<1>5. QED
    BY <1>1, <1>2, <1>3, <1>4, PpmPositive, GovernanceConstants

LEMMA BlankSavings ==
    /\ NoTerms \in Terms
    /\ NoSeries \in SeriesStates /\ NoSeries.deposit = 0 /\ NoSeries.stage = "none"
    /\ NoAccount \in AccountStates
    /\ NoAccount.saved = 0 /\ NoAccount.value = 0 /\ ~NoAccount.open
<1>1. NoTerms \in Terms
    BY DEF NoTerms, Terms
<1>2. NoSeries \in SeriesStates /\ NoSeries.deposit = 0 /\ NoSeries.stage = "none"
    BY <1>1, SavingsConstants DEF NoSeries, SeriesStates
<1>3. /\ NoAccount \in AccountStates
      /\ NoAccount.saved = 0 /\ NoAccount.value = 0 /\ ~NoAccount.open
    BY SavingsConstants DEF NoAccount, AccountStates
<1>4. QED
    BY <1>1, <1>2, <1>3

LEMMA SavingsFacts ==
    ASSUME SavingsInv
    PROVE  /\ GovInv /\ ReserveInv
           /\ kusd \in [Users -> Nat] /\ kas \in [Users -> Nat]
           /\ registry \in BOOLEAN
           /\ controller \in ControllerStates
           /\ controller.accountNonce \in 0..NumAccounts /\ controller.totalSaved \in Nat
           /\ controller.seriesNonce \in Nat
           /\ governor \in GovernorStates
           /\ governor.proposalNonce \in 0..MaxSeries /\ governor.executionNonce \in Nat
           /\ series \in SeriesStates /\ series.proposer \in Users
           /\ series.terms \in Terms /\ series.deposit \in Nat /\ series.age \in 0..MaxSeriesAge
           /\ accounts \in [AccountSlots -> AccountStates]
           /\ accountToken \in [AccountSlots -> Nat]
           /\ SeriesBacked /\ TokensSaved /\ BlankAccounts
<1>1. GovInv /\ ReserveInv
    BY DEF SavingsInv, GovInv
<1>2. kusd \in [Users -> Nat] /\ kas \in [Users -> Nat]
    BY <1>1, ReserveFacts
<1>3. QED
    BY <1>1, <1>2 DEF SavingsInv, SavingsTypes, ControllerStates, GovernorStates, SeriesStates

LEMMA AccountFacts ==
    ASSUME SavingsInv, NEW a \in AccountSlots
    PROVE  /\ accounts[a] \in AccountStates
           /\ accounts[a].owner \in Users /\ accounts[a].referrer \in Users
           /\ accounts[a].saved \in Nat /\ accounts[a].value \in Nat
           /\ accounts[a].rate \in Nat /\ accounts[a].referralPpm \in Nat
           /\ accounts[a].daaPerYear \in Nat /\ accounts[a].remaining \in Nat /\ accounts[a].age \in 0..MaxAccountAge
           /\ accountToken[a] = accounts[a].saved
<1>1. accounts[a] \in AccountStates /\ accountToken[a] = accounts[a].saved
    BY SavingsFacts DEF TokensSaved
<1>2. QED
    BY <1>1, SavingsConstants DEF AccountStates

LEMMA SavingsTypesAre == SavingsInv => SavingsTypeOK
BY DEF SavingsInv, GovInv, ReserveInv, TypeOK, SavingsTypes, SavingsTypeOK, ControllerStates,
       GovernorStates, SeriesStates, AccountStates

(* Every term of the totals is an integer. *)
LEMMA HeldTotals ==
    ASSUME SavingsInv
    PROVE  /\ SumTo(kusd, NumUsers) \in Int /\ SumTo(kas, NumUsers) \in Int
           /\ SumTo(feeToken, NumFeeSlots) \in Int
           /\ reserveToken \in Int /\ reserve.collateral \in Int /\ series.deposit \in Int
           /\ SumTo(accountToken, TotalAccounts) \in Int /\ SumTo(Values, TotalAccounts) \in Int
           /\ escrow \in Int /\ proposal.deposit \in Int
<1>1. \A a \in 1..TotalAccounts : accountToken[a] \in Int /\ Values[a] \in Int
    BY SavingsFacts, AccountFacts DEF AccountSlots, Values
<1>2. SumTo(accountToken, TotalAccounts) \in Int /\ SumTo(Values, TotalAccounts) \in Int
    BY <1>1, SavingsConstants, SumInt
<1>3. QED
    BY <1>2, SavingsFacts, ValueTotals

(* A family over the Accounts with one entry changed. *)
LEMMA AccountTotal ==
    ASSUME NEW f, NEW g, NEW a \in AccountSlots,
           \A i \in AccountSlots : f[i] \in Int /\ g[i] \in Int,
           \A i \in AccountSlots : i # a => g[i] = f[i]
    PROVE  SumTo(g, TotalAccounts) = SumTo(f, TotalAccounts) + (g[a] - f[a])
<1>1. TotalAccounts \in Nat /\ a \in 1..TotalAccounts
    BY SavingsConstants DEF AccountSlots
<1>2. QED
    BY <1>1, SumUpdate DEF AccountSlots

(* One Account with its token is replaced. *)
LEMMA ReplaceAccount ==
    ASSUME SavingsInv, NEW a \in AccountSlots, NEW r \in AccountStates,
           accounts' = [accounts EXCEPT ![a] = r],
           accountToken' = [accountToken EXCEPT ![a] = r.saved]
    PROVE  /\ accounts' \in [AccountSlots -> AccountStates]
           /\ accountToken' \in [AccountSlots -> Nat]
           /\ TokensSaved'
           /\ accounts'[a] = r /\ \A i \in AccountSlots : i # a => accounts'[i] = accounts[i]
           /\ SumTo(accountToken', TotalAccounts) =
                  SumTo(accountToken, TotalAccounts) + (r.saved - accounts[a].saved)
           /\ SumTo(Values', TotalAccounts) =
                  SumTo(Values, TotalAccounts) + (r.value - accounts[a].value)
<1>1. r.saved \in Nat /\ r.value \in Nat
    BY DEF AccountStates
<1>2. /\ accounts \in [AccountSlots -> AccountStates]
      /\ accountToken \in [AccountSlots -> Nat] /\ TokensSaved
    BY SavingsFacts
<1>3. /\ accounts' \in [AccountSlots -> AccountStates]
      /\ accountToken' \in [AccountSlots -> Nat]
      /\ accounts'[a] = r /\ \A i \in AccountSlots : i # a => accounts'[i] = accounts[i]
      /\ accountToken'[a] = r.saved
      /\ \A i \in AccountSlots : i # a => accountToken'[i] = accountToken[i]
    BY <1>1, <1>2
<1>4. TokensSaved'
    BY <1>2, <1>3 DEF TokensSaved
<1>5. SumTo(accountToken', TotalAccounts) =
          SumTo(accountToken, TotalAccounts) + (r.saved - accounts[a].saved)
    <2>1. \A i \in AccountSlots : accountToken[i] \in Int /\ accountToken'[i] \in Int
        BY <1>2, <1>3
    <2>2. SumTo(accountToken', TotalAccounts) =
              SumTo(accountToken, TotalAccounts) + (accountToken'[a] - accountToken[a])
        BY <1>3, <2>1, AccountTotal
    <2>3. QED
        BY <1>3, <2>2, AccountFacts
<1>6. SumTo(Values', TotalAccounts) =
          SumTo(Values, TotalAccounts) + (r.value - accounts[a].value)
    <2> DEFINE f == Values
               g == Values'
    <2>1. /\ \A i \in AccountSlots : f[i] = accounts[i].value /\ g[i] = accounts'[i].value
          /\ \A i \in AccountSlots : accounts[i].value \in Int /\ accounts'[i].value \in Int
        BY <1>2, <1>3 DEF Values, AccountStates
    <2>2. f[a] = accounts[a].value /\ g[a] = r.value
        BY <1>3, <2>1
    <2>3. \A i \in AccountSlots : f[i] \in Int /\ g[i] \in Int
        BY <2>1
    <2>4. \A i \in AccountSlots : i # a => g[i] = f[i]
        BY <1>3, <2>1
    <2> HIDE DEF f, g
    <2>5. SumTo(g, TotalAccounts) = SumTo(f, TotalAccounts) + (g[a] - f[a])
        BY <2>3, <2>4, AccountTotal
    <2>6. QED
        BY <2>2, <2>5 DEF f, g
<1>7. QED
    BY <1>3, <1>4, <1>5, <1>6

-----------------------------------------------------------------------------
(* What Savings leaves alone of Governance *)

LEMMA GovInvNext ==
    ASSUME GovInv, UNCHANGED <<root, modules, governance, proposal, escrow>>,
           ReserveInv', LockedShares', delegation' \in [ShareSlots -> Delegations]
    PROVE  GovInv'
<1>1. GovernanceTypeOK'
    BY GovernanceFacts DEF GovernanceTypeOK
<1>2. ModuleInv'
    <2>1. governance.active <= governance.proposalNonce /\ governance.proposalNonce \in Nat
        BY GovernanceFacts, GovernanceConstants DEF ModuleInv
    <2>2. QED
        BY <2>1, NoModuleCreated
<1>3. ProposalBacked'
    BY DEF GovInv, ProposalBacked
<1>4. QED
    BY <1>1, <1>2, <1>3 DEF GovInv

(* A transaction of Savings: wallets, and for interest the Reserve. *)
LEMMA WalletsAndReserve ==
    ASSUME GovInv, UNCHANGED <<feeToken, shares, governanceVars>>,
           kusd' \in [Users -> Nat], kas' \in [Users -> Nat],
           reserve' \in ReserveStates, reserve'.kps = reserve.kps,
           reserveToken' = reserve'.kusd
    PROVE  GovInv'
<1>1. /\ root' = root /\ modules' = modules /\ governance' = governance
      /\ proposal' = proposal /\ escrow' = escrow /\ delegation' = delegation
      /\ feeToken' = feeToken /\ shares' = shares
    BY DEF governanceVars
<1>2. SumTo(AmountsOf(shares'), NumShareSlots) = reserve'.kps
    BY <1>1, GovernanceFacts, ReserveFacts
<1>3. ReserveInv'
    BY <1>1, <1>2, GovernanceFacts, ReserveFacts, ReserveInvNext
<1>4. LockedShares' /\ delegation' \in [ShareSlots -> Delegations]
    BY <1>1, GovernanceFacts DEF GovInv, LockedShares
<1>5. QED
    BY <1>1, <1>3, <1>4, GovInvNext

LEMMA WalletsOnly ==
    ASSUME GovInv, UNCHANGED <<reserve, reserveToken, feeToken, shares, governanceVars>>,
           kusd' \in [Users -> Nat], kas' \in [Users -> Nat]
    PROVE  GovInv'
<1>1. reserve \in ReserveStates /\ reserveToken = reserve.kusd
    BY GovernanceFacts, ReserveFacts
<1>2. QED
    BY <1>1, WalletsAndReserve

-----------------------------------------------------------------------------
(* Series proposals *)

(* However a proposal ends, or none does: its deposit is paid to its       *)
(* proposer exactly when the UTXO is gone.                                 *)
LEMMA ConcludeFacts ==
    ASSUME SavingsInv, NEW c, Conclude(c), NEW f \in [Users -> Nat]
    PROVE  /\ governor' \in GovernorStates /\ series' \in SeriesStates /\ SeriesBacked'
           /\ Refunded(f, c) \in [Users -> Nat]
           /\ SumTo(Refunded(f, c), NumUsers) + series'.deposit =
                  SumTo(f, NumUsers) + series.deposit
           /\ SumTo(f, NumUsers) \in Int /\ series'.deposit \in Int
           /\ SumTo(Refunded(f, c), NumUsers) \in Int
<1>1. /\ governor \in GovernorStates /\ governor.executionNonce \in Nat
      /\ series \in SeriesStates /\ SeriesBacked
      /\ series.proposer \in Users /\ series.deposit \in Nat
    BY SavingsFacts
<1>2. ASSUME NEW g \in [Users -> Nat]
      PROVE  SumTo(g, NumUsers) \in Int
    <2>1. \A i \in 1..NumUsers : g[i] \in Int
        BY DEF Users
    <2>2. QED
        BY <2>1, SlotCounts, SumInt
<1>3. CASE c = Nothing
    <2>1. governor' = governor /\ series' = series /\ Refunded(f, c) = f
        BY <1>3 DEF Conclude, Refunded
    <2>2. SeriesBacked'
        BY <1>1, <2>1 DEF SeriesBacked
    <2>3. QED
        BY <1>1, <1>2, <2>1, <2>2
<1>4. CASE c # Nothing
    <2> DEFINE n == IF c.governor = "execute_series" THEN governor.executionNonce + 1
                    ELSE governor.executionNonce
    <2>1. /\ governor' = [governor EXCEPT !.active = 0, !.executionNonce = n]
          /\ series' = NoSeries
          /\ Refunded(f, c) = Credit(f, series.proposer, series.deposit)
        BY <1>4 DEF Conclude, Refunded
    <2>2. n \in Nat /\ 0 \in 0..MaxSeries
        BY <1>1, SavingsConstants
    <2> HIDE DEF n
    <2>3. governor' \in GovernorStates /\ governor'.active = 0
        BY <1>1, <2>1, <2>2 DEF GovernorStates
    <2>4. SeriesBacked' /\ series' \in SeriesStates /\ series'.deposit = 0
        BY <2>1, <2>3, BlankSavings DEF SeriesBacked
    <2>5. /\ Refunded(f, c) \in [Users -> Nat]
          /\ SumTo(Refunded(f, c), NumUsers) = SumTo(f, NumUsers) + series.deposit
        BY <1>1, <2>1, WalletCredit
    <2>6. QED
        BY <1>1, <1>2, <2>3, <2>4, <2>5
<1>5. QED
    BY <1>3, <1>4

(* Steps of a proposal alone: the Accounts stay as they are. *)
LEMMA SeriesOnlyStep ==
    ASSUME SavingsInv, GovInv', UNCHANGED <<registry, accountVars>>,
           UNCHANGED <<kusd, reserve, reserveToken, feeToken>>,
           governor' \in GovernorStates, series' \in SeriesStates, SeriesBacked',
           SumTo(kas', NumUsers) + series'.deposit = SumTo(kas, NumUsers) + series.deposit,
           SumTo(kas', NumUsers) \in Int, series'.deposit \in Int
    PROVE  SavingsKeeps
<1>1. /\ registry' = registry /\ controller' = controller /\ accounts' = accounts
      /\ accountToken' = accountToken /\ Values' = Values
    BY DEF accountVars, Values
<1>2. SavingsTypes' /\ TokensSaved' /\ BlankAccounts'
    BY <1>1, SavingsFacts DEF SavingsTypes, TokensSaved, BlankAccounts
<1>3. HeldKusd' = HeldKusd
    BY <1>1 DEF HeldKusd
<1>4. HeldKas' = HeldKas
    <2>1. reserve' = reserve
        OBVIOUS
    <2> DEFINE v == SumTo(Values, TotalAccounts)
    <2>2. SumTo(Values, TotalAccounts)' = v
        BY <1>1
    <2>3. v \in Int
        BY HeldTotals
    <2> HIDE DEF v
    <2>4. HeldKas = SumTo(kas, NumUsers) + reserve.collateral + series.deposit + v
        BY DEF HeldKas, v
    <2>5. HeldKas' = SumTo(kas', NumUsers) + reserve.collateral + series'.deposit + v
        BY <2>1, <2>2 DEF HeldKas
    <2>6. QED
        BY <2>3, <2>4, <2>5, HeldTotals
<1>5. QED
    BY <1>2, <1>3, <1>4 DEF SavingsKeeps, SavingsInv, HeldKept

LEMMA ProposeSeriesStep ==
    ASSUME SavingsInv, NEW u \in Users, NEW terms \in SeriesTerms, ProposeSeries(u, terms)
    PROVE  SavingsKeeps
<1> DEFINE nonce == governor.proposalNonce + 1
<1>1. /\ governor.active = 0 /\ governor.proposalNonce < MaxSeries /\ SeriesDeposit <= kas[u]
      /\ governor' = [governor EXCEPT !.proposalNonce = nonce, !.active = nonce]
      /\ series' = [stage |-> "pending", proposer |-> u, nonce |-> nonce, terms |-> terms,
                    deposit |-> SeriesDeposit, age |-> 0]
      /\ kas' = Debit(kas, u, SeriesDeposit)
      /\ UNCHANGED <<kusd, reserve, reserveToken, feeToken, shares, governanceVars, registry,
                     accountVars>>
    BY DEF ProposeSeries
<1>2. nonce \in 0..MaxSeries /\ nonce # 0
    BY <1>1, SavingsFacts, SavingsConstants
<1>3. terms \in Terms /\ SeriesDeposit \in Nat /\ 0 \in 0..MaxSeriesAge
    BY SavingsConstants
<1> HIDE DEF nonce
<1>4. governor' \in GovernorStates /\ governor'.active = nonce
    BY <1>1, <1>2, SavingsFacts DEF GovernorStates
<1>5. series' \in SeriesStates
    BY <1>1, <1>2, <1>3 DEF SeriesStates
<1>6. SeriesBacked'
    BY <1>1, <1>2, <1>4 DEF SeriesBacked
<1>7. /\ kas' \in [Users -> Nat]
      /\ SumTo(kas', NumUsers) = SumTo(kas, NumUsers) - SeriesDeposit
    BY <1>1, <1>3, SavingsFacts, WalletDebit
<1>8. series.deposit = 0
    BY <1>1, SavingsFacts, BlankSavings DEF SeriesBacked
<1>9. series'.deposit = SeriesDeposit
    BY <1>1
<1>10. GovInv'
    BY <1>1, <1>7, SavingsFacts, WalletsOnly
<1>11. /\ SumTo(kas', NumUsers) + series'.deposit = SumTo(kas, NumUsers) + series.deposit
       /\ SumTo(kas', NumUsers) \in Int /\ series'.deposit \in Int
    BY <1>3, <1>7, <1>8, <1>9, HeldTotals
<1>12. QED
    BY <1>1, <1>4, <1>5, <1>6, <1>10, <1>11, SeriesOnlyStep

LEMMA ActivateSeriesStep ==
    ASSUME SavingsInv, ActivateSeries
    PROVE  SavingsKeeps
<1>1. /\ series.stage = "pending" /\ series' = [series EXCEPT !.stage = "activated", !.age = 0]
      /\ governor' = governor
      /\ UNCHANGED <<kusd, kas, reserve, reserveToken, feeToken, shares, governanceVars,
                     registry, accountVars>>
    BY DEF ActivateSeries, vars, equityVars
<1>2. /\ series' \in SeriesStates /\ series'.stage = "activated"
      /\ series'.nonce = series.nonce /\ series'.deposit = series.deposit
    <2>1. series \in SeriesStates /\ 0 \in 0..MaxSeriesAge
        BY SavingsFacts, SavingsConstants
    <2>2. QED
        BY <1>1, <2>1 DEF SeriesStates
<1>3. SeriesBacked'
    <2>1. series # NoSeries
        BY <1>1, BlankSavings
    <2>2. QED
        BY <1>1, <1>2, <2>1, SavingsFacts DEF SeriesBacked
<1>4. GovInv'
    BY <1>1, SavingsFacts, WalletsOnly
<1>5. QED
    BY <1>1, <1>2, <1>3, <1>4, SavingsFacts, HeldTotals, SeriesOnlyStep

LEMMA CancelSeriesStep ==
    ASSUME SavingsInv, CancelSeries
    PROVE  SavingsKeeps
<1>1. /\ Conclude(Alone) /\ kas' = Refunded(kas, Alone)
      /\ UNCHANGED <<kusd, reserve, reserveToken, feeToken, shares, governanceVars, registry,
                     accountVars>>
    BY DEF CancelSeries
<1>2. /\ governor' \in GovernorStates /\ series' \in SeriesStates /\ SeriesBacked'
      /\ kas' \in [Users -> Nat]
      /\ SumTo(kas', NumUsers) + series'.deposit = SumTo(kas, NumUsers) + series.deposit
      /\ SumTo(kas', NumUsers) \in Int /\ series'.deposit \in Int
    BY <1>1, SavingsFacts, ConcludeFacts
<1>3. GovInv'
    BY <1>1, <1>2, SavingsFacts, WalletsOnly
<1>4. QED
    BY <1>1, <1>2, <1>3, SeriesOnlyStep

(* A veto creates the voters' UTXOs again and refunds the deposit. *)
LEMMA VetoSeriesStep ==
    ASSUME SavingsInv, NEW voters \in SUBSET ShareSlots, VetoSeries(voters)
    PROVE  SavingsKeeps
<1>1. /\ RenewShares(voters)
      /\ delegation' = [s \in ShareSlots |->
             IF s \in voters THEN [delegation[s] EXCEPT !.age = 0] ELSE delegation[s]]
      /\ governor' = [governor EXCEPT !.active = 0] /\ series' = NoSeries
      /\ kas' = Credit(kas, series.proposer, series.deposit)
      /\ UNCHANGED <<kusd, reserve, reserveToken, feeToken>>
      /\ UNCHANGED <<root, modules, governance, proposal, escrow>>
      /\ UNCHANGED <<registry, accountVars>>
    BY DEF VetoSeries, CastVotes
<1>2. governor' \in GovernorStates /\ governor'.active = 0
    <2>1. governor \in GovernorStates /\ 0 \in 0..MaxSeries
        BY SavingsFacts, SavingsConstants
    <2>2. QED
        BY <1>1, <2>1 DEF GovernorStates
<1>3. SeriesBacked' /\ series' \in SeriesStates /\ series'.deposit = 0
    BY <1>1, <1>2, BlankSavings DEF SeriesBacked
<1>4. /\ kas' \in [Users -> Nat]
      /\ SumTo(kas', NumUsers) = SumTo(kas, NumUsers) + series.deposit
    BY <1>1, SavingsFacts, WalletCredit
<1>5. /\ shares' \in [ShareSlots -> Share] /\ LockedShares'
      /\ SumTo(AmountsOf(shares'), NumShareSlots) = SumTo(AmountsOf(shares), NumShareSlots)
    <2>1. shares \in [ShareSlots -> Share] /\ LockedShares
        BY SavingsFacts, GovernanceFacts DEF GovInv
    <2>2. /\ shares' \in [ShareSlots -> Share] /\ LockedShares'
          /\ \A s \in ShareSlots : shares'[s].amount = shares[s].amount
        BY <1>1, <2>1, RenewedShares
    <2>3. QED
        BY <2>1, <2>2, SameAmounts
<1>6. ReserveInv'
    BY <1>1, <1>4, <1>5, SavingsFacts, ReserveFacts, ReserveInvNext
<1>7. delegation' \in [ShareSlots -> Delegations]
    <2>1. ASSUME NEW s \in ShareSlots
          PROVE  [delegation[s] EXCEPT !.age = 0] \in Delegations /\ delegation[s] \in Delegations
        BY SavingsFacts, GovernanceFacts, GovernanceConstants DEF Delegations
    <2>2. QED
        BY <1>1, <2>1
<1>8. GovInv'
    BY <1>1, <1>5, <1>6, <1>7, SavingsFacts, GovInvNext
<1>9. QED
    BY <1>1, <1>2, <1>3, <1>4, <1>8, HeldTotals, SeriesOnlyStep

-----------------------------------------------------------------------------
(* The Controller *)

LEMMA RegistryStep ==
    ASSUME SavingsInv, InitializeRegistry
    PROVE  SavingsKeeps
<1>1. /\ registry' = TRUE /\ UNCHANGED <<governor, series, controller, accounts, accountToken>>
      /\ UNCHANGED <<kusd, kas, reserve, reserveToken, feeToken, shares, governanceVars>>
    BY DEF InitializeRegistry, vars, equityVars, accountVars
<1>2. GovInv'
    BY <1>1, SavingsFacts, WalletsOnly
<1>3. SavingsTypes'
    BY <1>1, SavingsFacts DEF SavingsTypes
<1>4. SeriesBacked' /\ TokensSaved' /\ BlankAccounts'
    BY <1>1, SavingsFacts DEF SeriesBacked, TokensSaved, BlankAccounts
<1>5. HeldKept
    BY <1>1 DEF HeldKept, HeldKusd, HeldKas, Values
<1>6. QED
    BY <1>2, <1>3, <1>4, <1>5 DEF SavingsKeeps, SavingsInv

(* The Controller's own step, beside the end of a proposal or not. *)
LEMMA ControllerOnlyStep ==
    ASSUME SavingsInv, NEW c, Conclude(c), kas' = Refunded(kas, c),
           controller' \in ControllerStates,
           controller'.accountNonce = controller.accountNonce,
           UNCHANGED <<kusd, reserve, reserveToken, feeToken, shares, governanceVars, registry,
                       accounts, accountToken>>
    PROVE  SavingsKeeps
<1>1. /\ governor' \in GovernorStates /\ series' \in SeriesStates /\ SeriesBacked'
      /\ kas' \in [Users -> Nat]
      /\ SumTo(kas', NumUsers) + series'.deposit = SumTo(kas, NumUsers) + series.deposit
      /\ SumTo(kas', NumUsers) \in Int /\ series'.deposit \in Int
    BY SavingsFacts, ConcludeFacts
<1>2. GovInv'
    BY <1>1, SavingsFacts, WalletsOnly
<1>3. SavingsTypes' /\ TokensSaved' /\ BlankAccounts'
    BY <1>1, SavingsFacts DEF SavingsTypes, TokensSaved, BlankAccounts
<1>4. HeldKept
    BY <1>1, HeldTotals DEF HeldKept, HeldKusd, HeldKas, Values
<1>5. QED
    BY <1>1, <1>2, <1>3, <1>4 DEF SavingsKeeps, SavingsInv

LEMMA ExecutedController ==
    ASSUME SavingsInv, NEW c, SeriesExecuted(c)
    PROVE  /\ controller' \in ControllerStates
           /\ controller'.accountNonce = controller.accountNonce
<1> DEFINE terms == series.terms
           e == terms.rate > 0
           n == controller.seriesNonce + 1
<1>1. terms \in Terms /\ terms.rate \in 0..PPM
    BY SavingsFacts DEF SeriesExecuted
<1>2. terms.delay \in Nat /\ terms.maxAccrual \in Nat /\ e \in BOOLEAN /\ n \in Nat
    BY <1>1, SavingsFacts DEF Terms
<1>3. controller' = [controller EXCEPT !.enabled = e, !.seriesNonce = n, !.rate = terms.rate,
                                       !.delay = terms.delay, !.maxAccrual = terms.maxAccrual]
    BY DEF SeriesExecuted
<1> HIDE DEF terms, e, n
<1>4. QED
    BY <1>1, <1>2, <1>3, SavingsFacts DEF ControllerStates

LEMMA InitializeGovernanceStep ==
    ASSUME SavingsInv, NEW c, InitializeGovernance(c)
    PROVE  SavingsKeeps
<1>1. /\ controller' = [controller EXCEPT !.governed = TRUE]
      /\ Conclude(c) /\ kas' = Refunded(kas, c)
      /\ UNCHANGED <<kusd, reserve, reserveToken, feeToken, shares, governanceVars, registry,
                     accounts, accountToken>>
    BY DEF InitializeGovernance
<1>2. /\ controller' \in ControllerStates
      /\ controller'.accountNonce = controller.accountNonce
    BY <1>1, SavingsFacts DEF ControllerStates
<1>3. QED
    BY <1>1, <1>2, ControllerOnlyStep

LEMMA ExecuteSeriesStep ==
    ASSUME SavingsInv, NEW c, ExecuteSeries(c)
    PROVE  SavingsKeeps
<1>1. /\ SeriesExecuted(c) /\ Conclude(c) /\ kas' = Refunded(kas, c)
      /\ UNCHANGED <<kusd, reserve, reserveToken, feeToken, shares, governanceVars, registry,
                     accounts, accountToken>>
    BY DEF ExecuteSeries
<1>2. QED
    BY <1>1, ExecutedController, ControllerOnlyStep

-----------------------------------------------------------------------------
(* Accounts *)

(* What an Account's transaction leaves to show: the Accounts, their       *)
(* tokens, wallets and Reserve change, and KUSD and KAS balance.           *)
LEMMA AccountStepNext ==
    ASSUME SavingsInv, GovInv', UNCHANGED <<feeToken, governanceVars, registry>>,
           controller' \in ControllerStates,
           governor' \in GovernorStates, series' \in SeriesStates, SeriesBacked',
           accounts' \in [AccountSlots -> AccountStates],
           accountToken' \in [AccountSlots -> Nat], TokensSaved', BlankAccounts',
           HeldKusd' = HeldKusd, HeldKas' = HeldKas
    PROVE  SavingsKeeps
<1>1. SavingsTypes'
    BY SavingsFacts DEF SavingsTypes
<1>2. QED
    BY <1>1 DEF SavingsKeeps, SavingsInv, HeldKept

LEMMA OpenAccountStep ==
    ASSUME SavingsInv, NEW u \in Users, NEW v \in Users, NEW amount, NEW ppm, NEW c,
           OpenAccount(u, amount, v, ppm, c)
    PROVE  SavingsKeeps
<1> DEFINE a == controller.accountNonce + 1
           total == controller.totalSaved + amount
           r == [open |-> TRUE, owner |-> u, saved |-> amount, rate |-> controller.rate,
                 delay |-> controller.delay, remaining |-> controller.maxAccrual,
                 daaPerYear |-> DaaPerYear,
                 referrer |-> v, referralPpm |-> ppm, value |-> AccountValue, age |-> 0]
           spent == Debit(kas, u, AccountValue)
<1>1. /\ controller.accountNonce < NumAccounts /\ amount \in 1..kusd[u]
      /\ ppm \in 0..MaxReferralPpm /\ AccountValue <= kas[u]
      /\ controller' = [controller EXCEPT !.accountNonce = a, !.totalSaved = total]
      /\ accounts' = [accounts EXCEPT ![a] = r]
      /\ accountToken' = [accountToken EXCEPT ![a] = amount]
      /\ kusd' = Debit(kusd, u, amount)
      /\ Conclude(c) /\ kas' = Refunded(spent, c)
      /\ reserve' = reserve /\ reserveToken' = reserveToken /\ feeToken' = feeToken
      /\ UNCHANGED <<shares, governanceVars, registry>>
    BY DEF OpenAccount
<1>2. controller.accountNonce \in 0..NumAccounts /\ NumAccounts \in Nat
    BY SavingsFacts, SavingsConstants
<1>3. /\ a \in AccountSlots /\ a \in OpenedSlots /\ a \in 0..NumAccounts
      /\ a > controller.accountNonce
    <2>1. a \in OpenedSlots /\ a \in 0..NumAccounts /\ a > controller.accountNonce
        BY <1>1, <1>2 DEF OpenedSlots
    <2>2. QED
        BY <2>1, SavingsConstants
<1>4. /\ amount \in Nat /\ amount <= kusd[u] /\ AccountValue \in Nat /\ total \in Nat
      /\ 0 \in 0..MaxAccountAge
    BY <1>1, SavingsFacts, SavingsConstants
<1>5. /\ controller.rate \in Nat /\ controller.delay \in Nat /\ controller.maxAccrual \in Nat
      /\ ppm \in Nat /\ DaaPerYear \in Nat
    BY <1>1, SavingsFacts, SavingsConstants DEF ControllerStates
<1>6. r \in AccountStates /\ r.saved = amount /\ r.value = AccountValue /\ r.open
    BY <1>1, <1>4, <1>5 DEF AccountStates
<1>7. accounts[a] = NoAccount
    BY <1>3, SavingsFacts DEF BlankAccounts
<1>8. /\ spent \in [Users -> Nat]
      /\ SumTo(spent, NumUsers) = SumTo(kas, NumUsers) - AccountValue
      /\ kusd' \in [Users -> Nat]
      /\ SumTo(kusd', NumUsers) = SumTo(kusd, NumUsers) - amount
    BY <1>1, <1>4, SavingsFacts, WalletDebit
<1>9. accountToken' = [accountToken EXCEPT ![a] = r.saved]
    BY <1>1
<1> HIDE DEF a, total, r, spent
<1>10. /\ governor' \in GovernorStates /\ series' \in SeriesStates /\ SeriesBacked'
       /\ kas' \in [Users -> Nat]
       /\ SumTo(kas', NumUsers) + series'.deposit = SumTo(spent, NumUsers) + series.deposit
       /\ SumTo(kas', NumUsers) \in Int /\ series'.deposit \in Int
    BY <1>1, <1>8, ConcludeFacts
<1>11. controller' \in ControllerStates /\ controller'.accountNonce = a
    BY <1>1, <1>3, <1>4, SavingsFacts DEF ControllerStates
<1>12. /\ accounts' \in [AccountSlots -> AccountStates]
       /\ accountToken' \in [AccountSlots -> Nat] /\ TokensSaved'
       /\ accounts'[a] = r /\ \A i \in AccountSlots : i # a => accounts'[i] = accounts[i]
       /\ SumTo(accountToken', TotalAccounts) = SumTo(accountToken, TotalAccounts) + (amount - 0)
       /\ SumTo(Values', TotalAccounts) = SumTo(Values, TotalAccounts) + (AccountValue - 0)
    BY <1>1, <1>3, <1>6, <1>7, <1>9, BlankSavings, ReplaceAccount
<1>13. BlankAccounts'
    <2>1. ASSUME NEW i \in OpenedSlots, i > a PROVE ~accounts'[i].open
        <3>1. i # a /\ i > controller.accountNonce /\ i \in AccountSlots
            BY <1>2, <1>3, <2>1, SavingsConstants DEF OpenedSlots
        <3>2. QED
            BY <1>12, <3>1, SavingsFacts DEF BlankAccounts
    <2>2. ASSUME NEW i \in AccountSlots, ~accounts'[i].open PROVE accounts'[i] = NoAccount
        BY <1>6, <1>12, <2>2, SavingsFacts DEF BlankAccounts
    <2>3. QED
        BY <1>11, <2>1, <2>2 DEF BlankAccounts
<1>14. GovInv'
    BY <1>1, <1>8, <1>10, SavingsFacts, WalletsOnly
<1>15. HeldKusd' = HeldKusd
    BY <1>1, <1>4, <1>8, <1>12, HeldTotals DEF HeldKusd
<1>16. HeldKas' = HeldKas
    BY <1>1, <1>4, <1>8, <1>10, <1>12, HeldTotals DEF HeldKas
<1>17. QED
    BY <1>1, <1>10, <1>11, <1>12, <1>13, <1>14, <1>15, <1>16, AccountStepNext

(* A wallet makes an Account: what it spends is what the Account holds. *)
LEMMA CreateAccountStep ==
    ASSUME SavingsInv, NEW a \in AccountSlots, NEW u \in Users, NEW v \in Users,
           NEW amount, NEW ppm \in ReferralPpms, NEW terms \in OtherTerms,
           CreateAccount(a, u, amount, v, ppm, terms)
    PROVE  SavingsKeeps
<1> DEFINE r == [open |-> TRUE, owner |-> u, saved |-> amount, rate |-> terms.rate,
                 delay |-> terms.delay, remaining |-> terms.maxAccrual,
                 daaPerYear |-> terms.daaPerYear,
                 referrer |-> v, referralPpm |-> ppm, value |-> AccountValue, age |-> 0]
<1>1. /\ a \notin OpenedSlots /\ ~accounts[a].open
      /\ amount \in 1..kusd[u] /\ AccountValue <= kas[u]
      /\ accounts' = [accounts EXCEPT ![a] = r]
      /\ accountToken' = [accountToken EXCEPT ![a] = amount]
      /\ kusd' = Debit(kusd, u, amount) /\ kas' = Debit(kas, u, AccountValue)
      /\ UNCHANGED <<reserve, reserveToken, feeToken, shares, governanceVars>>
      /\ registry' = registry /\ governor' = governor /\ series' = series
      /\ controller' = controller
    BY DEF CreateAccount, seriesVars
<1>2. /\ amount \in Nat /\ amount <= kusd[u] /\ AccountValue \in Nat /\ 0 \in 0..MaxAccountAge
    BY <1>1, SavingsFacts, SavingsConstants
<1>3. /\ terms.rate \in Nat /\ terms.delay \in Nat /\ terms.maxAccrual \in Nat
      /\ terms.daaPerYear \in Nat /\ ppm \in Nat
    BY SavingsAssumption DEF Terms
<1>4. r \in AccountStates /\ r.saved = amount /\ r.value = AccountValue /\ r.open
    BY <1>2, <1>3 DEF AccountStates
<1>5. accounts[a] = NoAccount
    BY <1>1, SavingsFacts DEF BlankAccounts
<1>6. accountToken' = [accountToken EXCEPT ![a] = r.saved]
    BY <1>1
<1>7. /\ kas' \in [Users -> Nat]
      /\ SumTo(kas', NumUsers) = SumTo(kas, NumUsers) - AccountValue
      /\ kusd' \in [Users -> Nat]
      /\ SumTo(kusd', NumUsers) = SumTo(kusd, NumUsers) - amount
    BY <1>1, <1>2, SavingsFacts, WalletDebit
<1> HIDE DEF r
<1>8. /\ accounts' \in [AccountSlots -> AccountStates]
      /\ accountToken' \in [AccountSlots -> Nat] /\ TokensSaved'
      /\ accounts'[a] = r /\ \A i \in AccountSlots : i # a => accounts'[i] = accounts[i]
      /\ SumTo(accountToken', TotalAccounts) = SumTo(accountToken, TotalAccounts) + (amount - 0)
      /\ SumTo(Values', TotalAccounts) = SumTo(Values, TotalAccounts) + (AccountValue - 0)
    BY <1>1, <1>4, <1>5, <1>6, BlankSavings, ReplaceAccount
<1>9. BlankAccounts'
    <2>1. ASSUME NEW i \in OpenedSlots, i > controller'.accountNonce PROVE ~accounts'[i].open
        BY <1>1, <1>8, <2>1, SavingsFacts, SavingsConstants DEF BlankAccounts
    <2>2. ASSUME NEW i \in AccountSlots, ~accounts'[i].open PROVE accounts'[i] = NoAccount
        BY <1>4, <1>8, <2>2, SavingsFacts DEF BlankAccounts
    <2>3. QED
        BY <2>1, <2>2 DEF BlankAccounts
<1>10. SeriesBacked' /\ controller' \in ControllerStates
       /\ governor' \in GovernorStates /\ series' \in SeriesStates
    BY <1>1, SavingsFacts DEF SeriesBacked
<1>11. GovInv'
    BY <1>1, <1>7, SavingsFacts, WalletsOnly
<1>12. HeldKusd' = HeldKusd
    BY <1>1, <1>2, <1>7, <1>8, HeldTotals DEF HeldKusd
<1>13. HeldKas' = HeldKas
    BY <1>1, <1>2, <1>7, <1>8, HeldTotals DEF HeldKas
<1>14. QED
    BY <1>1, <1>8, <1>9, <1>10, <1>11, <1>12, <1>13, AccountStepNext DEF governanceVars

LEMMA YieldNat ==
    ASSUME NEW saved \in Nat, NEW rate \in Nat, NEW accrual \in Nat, NEW year \in Nat \ {0},
           NEW ppm \in Nat
    PROVE  /\ Yield(saved, rate, accrual, year, ppm).gross \in Nat
           /\ Yield(saved, rate, accrual, year, ppm).fee \in Nat
           /\ Yield(saved, rate, accrual, year, ppm).net =
                  Yield(saved, rate, accrual, year, ppm).gross
                      - Yield(saved, rate, accrual, year, ppm).fee
<1> DEFINE annual == MulDivFloor(saved, rate, PPM)
           gross == MulDivFloor(annual, accrual, year)
           fee == MulDivFloor(gross, ppm, PPM)
<1>1. annual \in Nat
    BY SavingsConstants, MulDivFloorBounds
<1> HIDE DEF annual
<1>2. gross \in Nat
    BY <1>1, MulDivFloorBounds
<1> HIDE DEF gross
<1>3. fee \in Nat
    BY <1>2, SavingsConstants, MulDivFloorBounds
<1>4. Yield(saved, rate, accrual, year, ppm) =
          [gross |-> gross, fee |-> fee, net |-> gross - fee]
    BY DEF Yield, annual, gross
<1> HIDE DEF fee
<1>5. QED
    BY <1>2, <1>3, <1>4

(* What a refresh of an Account earns. *)
AccountYield(a, accrual) ==
    Yield(accounts[a].saved, accounts[a].rate, accrual, accounts[a].daaPerYear,
          accounts[a].referralPpm)

LEMMA AccountYieldNat ==
    ASSUME SavingsInv, NEW a \in AccountSlots, accounts[a].daaPerYear > 0, NEW accrual \in Nat
    PROVE  /\ AccountYield(a, accrual).gross \in Nat /\ AccountYield(a, accrual).fee \in Nat
           /\ AccountYield(a, accrual).net =
                  AccountYield(a, accrual).gross - AccountYield(a, accrual).fee
<1> DEFINE saved == accounts[a].saved
           rate == accounts[a].rate
           year == accounts[a].daaPerYear
           ppm == accounts[a].referralPpm
<1>1. saved \in Nat /\ rate \in Nat /\ ppm \in Nat /\ year \in Nat \ {0}
    BY AccountFacts
<1>2. AccountYield(a, accrual) = Yield(saved, rate, accrual, year, ppm)
    BY DEF AccountYield
<1> HIDE DEF saved, rate, year, ppm
<1>3. /\ Yield(saved, rate, accrual, year, ppm).gross \in Nat
      /\ Yield(saved, rate, accrual, year, ppm).fee \in Nat
      /\ Yield(saved, rate, accrual, year, ppm).net =
             Yield(saved, rate, accrual, year, ppm).gross
                 - Yield(saved, rate, accrual, year, ppm).fee
    BY <1>1, YieldNat
<1>4. QED
    BY <1>2, <1>3

(* The interest leaves the Reserve's book and its token alike. *)
LEMMA PaySavingsFacts ==
    ASSUME SavingsInv, NEW gross \in Nat, PaySavings(gross)
    PROVE  /\ reserve' \in ReserveStates /\ reserve'.kps = reserve.kps
           /\ reserve'.collateral = reserve.collateral
           /\ reserveToken' = reserve'.kusd /\ reserveToken' = reserveToken - gross
<1> DEFINE left == reserve.kusd - gross
<1>1. /\ reserve.kusd >= gross /\ reserve' = [reserve EXCEPT !.kusd = left]
      /\ reserveToken' = reserveToken - gross
    BY DEF PaySavings
<1>2. reserve \in ReserveStates /\ reserveToken = reserve.kusd /\ reserve.kusd \in Nat
    BY SavingsFacts, ReserveFacts
<1>3. left \in Nat /\ reserveToken' = left
    BY <1>1, <1>2
<1> HIDE DEF left
<1>4. QED
    BY <1>1, <1>2, <1>3 DEF ReserveStates

LEMMA RefreshAccountStep ==
    ASSUME SavingsInv, NEW a \in AccountSlots, NEW accrual, NEW policy, NEW c,
           RefreshAccount(a, accrual, policy, c)
    PROVE  SavingsKeeps
<1> DEFINE account == accounts[a]
           yield == AccountYield(a, accrual)
           saved == account.saved + yield.net
           left == account.remaining - accrual
           r == [account EXCEPT !.saved = saved, !.delay = 0, !.remaining = left, !.age = 0]
<1>1. /\ account.open /\ account.daaPerYear > 0
      /\ ClaimDue(account, accrual) /\ yield.net > 0
      /\ PaySavings(yield.gross)
      /\ IF policy = "execute_series" THEN SeriesExecuted(c)
         ELSE controller' = [controller EXCEPT !.totalSaved = @ + yield.net]
      /\ Conclude(c)
      /\ accounts' = [accounts EXCEPT ![a] = r]
      /\ accountToken' = [accountToken EXCEPT ![a] = @ + yield.net]
      /\ kusd' = Credit(kusd, account.referrer, yield.fee)
      /\ kas' = Refunded(kas, c)
      /\ feeToken' = feeToken /\ UNCHANGED <<shares, governanceVars, registry>>
    BY DEF RefreshAccount, AccountYield
<1>2. /\ account \in AccountStates /\ account.referrer \in Users
      /\ account.saved \in Nat /\ account.value \in Nat
      /\ account.rate \in Nat /\ account.referralPpm \in Nat /\ account.remaining \in Nat
      /\ accountToken[a] = account.saved
    BY AccountFacts
<1>3. accrual \in Nat /\ accrual <= account.remaining
    <2>1. accrual \in 1..account.remaining
        BY <1>1 DEF ClaimDue
    <2>2. QED
        BY <1>2, <2>1
<1>4. yield.gross \in Nat /\ yield.fee \in Nat /\ yield.net = yield.gross - yield.fee
    <2>1. accounts[a].daaPerYear > 0
        BY <1>1
    <2>2. QED
        BY <1>3, <2>1, AccountYieldNat
<1> HIDE DEF yield
<1>5. /\ accounts' = [accounts EXCEPT ![a] = r]
      /\ accountToken' = [accountToken EXCEPT ![a] = saved]
    <2>1. accounts' = [accounts EXCEPT ![a] = r]
        BY <1>1
    <2>2. accountToken' = [accountToken EXCEPT ![a] = accountToken[a] + yield.net]
        BY <1>1
    <2>3. accountToken[a] + yield.net = saved
        BY <1>2
    <2>4. QED
        BY <2>1, <2>2, <2>3
<1>6. yield.net \in Nat /\ saved \in Nat /\ left \in Nat /\ 0 \in 0..MaxAccountAge
    BY <1>1, <1>2, <1>3, <1>4, SavingsConstants
<1>7. saved - account.saved = yield.net
    BY <1>2, <1>6
<1> HIDE DEF account, saved, left
<1>8. r \in AccountStates /\ r.saved = saved /\ r.value = account.value /\ r.open
    BY <1>1, <1>2, <1>6 DEF AccountStates
<1> HIDE DEF r
<1>9. /\ accounts' \in [AccountSlots -> AccountStates]
      /\ accountToken' \in [AccountSlots -> Nat] /\ TokensSaved'
      /\ accounts'[a] = r /\ \A i \in AccountSlots : i # a => accounts'[i] = accounts[i]
      /\ SumTo(accountToken', TotalAccounts) =
             SumTo(accountToken, TotalAccounts) + (saved - account.saved)
      /\ SumTo(Values', TotalAccounts) =
             SumTo(Values, TotalAccounts) + (account.value - account.value)
    BY <1>5, <1>8, ReplaceAccount DEF account
<1>10. /\ controller' \in ControllerStates
       /\ controller'.accountNonce = controller.accountNonce
    <2>1. CASE policy = "execute_series"
        BY <1>1, <2>1, ExecutedController
    <2>2. CASE policy # "execute_series"
        <3> DEFINE total == controller.totalSaved + yield.net
        <3>1. controller' = [controller EXCEPT !.totalSaved = total]
            BY <1>1, <2>2
        <3>2. total \in Nat
            BY <1>6, SavingsFacts
        <3> HIDE DEF total
        <3>3. QED
            BY <3>1, <3>2, SavingsFacts DEF ControllerStates
    <2>3. QED
        BY <2>1, <2>2
<1>11. BlankAccounts'
    <2>1. accounts[a].open
        BY DEF RefreshAccount
    <2>2. \A i \in AccountSlots : accounts'[i].open <=> accounts[i].open
        BY <1>8, <1>9, <2>1
    <2>3. ASSUME NEW i \in AccountSlots, ~accounts'[i].open PROVE accounts'[i] = NoAccount
        BY <1>8, <1>9, <2>3, SavingsFacts DEF BlankAccounts
    <2>4. QED
        BY <1>10, <2>2, <2>3, SavingsFacts, SavingsConstants DEF BlankAccounts
<1>12. /\ governor' \in GovernorStates /\ series' \in SeriesStates /\ SeriesBacked'
       /\ kas' \in [Users -> Nat]
       /\ SumTo(kas', NumUsers) + series'.deposit = SumTo(kas, NumUsers) + series.deposit
       /\ SumTo(kas', NumUsers) \in Int /\ series'.deposit \in Int
    BY <1>1, SavingsFacts, ConcludeFacts
<1>13. /\ kusd' \in [Users -> Nat]
       /\ SumTo(kusd', NumUsers) = SumTo(kusd, NumUsers) + yield.fee
    <2>1. kusd' = Credit(kusd, account.referrer, yield.fee)
        BY <1>1
    <2>2. QED
        BY <1>2, <1>4, <2>1, SavingsFacts, WalletCredit
<1>14. /\ reserve' \in ReserveStates /\ reserve'.kps = reserve.kps
       /\ reserve'.collateral = reserve.collateral
       /\ reserveToken' = reserve'.kusd /\ reserveToken' = reserveToken - yield.gross
    BY <1>1, <1>4, PaySavingsFacts
<1>15. GovInv'
    BY <1>1, <1>12, <1>13, <1>14, SavingsFacts, WalletsAndReserve
<1>16. HeldKusd' = HeldKusd
    BY <1>1, <1>4, <1>6, <1>7, <1>9, <1>13, <1>14, HeldTotals DEF HeldKusd
<1>17. HeldKas' = HeldKas
    BY <1>2, <1>9, <1>12, <1>14, HeldTotals DEF HeldKas
<1>18. QED
    BY <1>1, <1>9, <1>10, <1>11, <1>12, <1>15, <1>16, <1>17, AccountStepNext

LEMMA CloseAccountStep ==
    ASSUME SavingsInv, NEW a \in AccountSlots, NEW policy, NEW c, CloseAccount(a, policy, c)
    PROVE  SavingsKeeps
<1> DEFINE account == accounts[a]
           paid == Credit(kas, account.owner, account.value)
<1>1. /\ controller.totalSaved >= account.saved
      /\ IF policy = "execute_series" THEN SeriesExecuted(c)
         ELSE controller' = [controller EXCEPT !.totalSaved = controller.totalSaved - account.saved]
      /\ Conclude(c)
      /\ accounts' = [accounts EXCEPT ![a] = NoAccount]
      /\ accountToken' = [accountToken EXCEPT ![a] = 0]
      /\ kusd' = Credit(kusd, account.owner, account.saved)
      /\ kas' = Refunded(paid, c)
      /\ reserve' = reserve /\ reserveToken' = reserveToken /\ feeToken' = feeToken
      /\ UNCHANGED <<shares, governanceVars, registry>>
    BY DEF CloseAccount, ControllerCloses
<1>2. /\ account.owner \in Users /\ account.saved \in Nat /\ account.value \in Nat
    BY AccountFacts
<1>3. /\ paid \in [Users -> Nat]
      /\ SumTo(paid, NumUsers) = SumTo(kas, NumUsers) + account.value
      /\ kusd' \in [Users -> Nat]
      /\ SumTo(kusd', NumUsers) = SumTo(kusd, NumUsers) + account.saved
    BY <1>1, <1>2, SavingsFacts, WalletCredit
<1> HIDE DEF account, paid
<1>4. /\ accounts' \in [AccountSlots -> AccountStates]
      /\ accountToken' \in [AccountSlots -> Nat] /\ TokensSaved'
      /\ SumTo(accountToken', TotalAccounts) =
             SumTo(accountToken, TotalAccounts) + (0 - account.saved)
      /\ SumTo(Values', TotalAccounts) = SumTo(Values, TotalAccounts) + (0 - account.value)
    BY <1>1, BlankSavings, ReplaceAccount DEF account
<1>5. /\ controller' \in ControllerStates
      /\ controller'.accountNonce = controller.accountNonce
    <2>1. CASE policy = "execute_series"
        BY <1>1, <2>1, ExecutedController
    <2>2. CASE policy # "execute_series"
        <3> DEFINE total == controller.totalSaved - account.saved
        <3>1. controller' = [controller EXCEPT !.totalSaved = total]
            BY <1>1, <2>2
        <3>2. total \in Nat
            BY <1>1, <1>2, SavingsFacts
        <3> HIDE DEF total
        <3>3. QED
            BY <3>1, <3>2, SavingsFacts DEF ControllerStates
    <2>3. QED
        BY <2>1, <2>2
<1>6. BlankAccounts'
    <2>1. \A i \in AccountSlots : accounts'[i] = NoAccount \/ accounts'[i] = accounts[i]
        BY <1>1, SavingsFacts
    <2>2. QED
        BY <1>5, <2>1, SavingsFacts, SavingsConstants, BlankSavings DEF BlankAccounts
<1>7. /\ governor' \in GovernorStates /\ series' \in SeriesStates /\ SeriesBacked'
      /\ kas' \in [Users -> Nat]
      /\ SumTo(kas', NumUsers) + series'.deposit = SumTo(paid, NumUsers) + series.deposit
      /\ SumTo(kas', NumUsers) \in Int /\ series'.deposit \in Int
    BY <1>1, <1>3, ConcludeFacts
<1>8. GovInv'
    BY <1>1, <1>3, <1>7, SavingsFacts, WalletsOnly
<1>9. HeldKusd' = HeldKusd
    BY <1>1, <1>2, <1>3, <1>4, HeldTotals DEF HeldKusd
<1>10. HeldKas' = HeldKas
    BY <1>1, <1>2, <1>3, <1>4, <1>7, HeldTotals DEF HeldKas
<1>11. QED
    BY <1>1, <1>4, <1>5, <1>6, <1>7, <1>8, <1>9, <1>10, AccountStepNext

-----------------------------------------------------------------------------
(* Steps of the Reserve, the delegations and the clock *)

(* A step of Governance that leaves Savings and the proposal's value alone. *)
LEMMA BesideSavings ==
    ASSUME SavingsInv, StepKeeps, escrow' = escrow, proposal'.deposit = proposal.deposit,
           UNCHANGED <<registry, controller, governor, accountToken>>,
           series' \in SeriesStates, SeriesBacked', series'.deposit = series.deposit,
           accounts' \in [AccountSlots -> AccountStates],
           \A a \in AccountSlots : /\ accounts'[a].saved = accounts[a].saved
                                   /\ accounts'[a].value = accounts[a].value
                                   /\ accounts'[a].open = accounts[a].open
                                   /\ accounts[a] = NoAccount => accounts'[a] = NoAccount
    PROVE  SavingsKeeps
<1>1. GovInv' /\ GovKusd' = GovKusd /\ GovKas' = GovKas
    BY DEF StepKeeps, ValueKept
<1>2. SavingsTypes'
    BY SavingsFacts DEF SavingsTypes
<1>3. TokensSaved' /\ BlankAccounts'
    BY SavingsFacts, SavingsConstants DEF TokensSaved, BlankAccounts
<1>4. SumTo(Values', TotalAccounts) = SumTo(Values, TotalAccounts)
    <2> DEFINE f == Values
               g == Values'
    <2>1. \A i \in 1..TotalAccounts : f[i] \in Int /\ g[i] = f[i]
        BY AccountFacts DEF Values, AccountSlots
    <2> HIDE DEF f, g
    <2>2. SumTo(g, TotalAccounts) = SumTo(f, TotalAccounts)
        BY <2>1, SavingsConstants, SumSame
    <2>3. QED
        BY <2>2 DEF f, g
<1>5. /\ SumTo(kusd', NumUsers) \in Int /\ SumTo(kas', NumUsers) \in Int
      /\ SumTo(feeToken', NumFeeSlots) \in Int
      /\ reserveToken' \in Int /\ reserve'.collateral \in Int
    <2>1. /\ kusd' \in [Users -> Nat] /\ kas' \in [Users -> Nat]
          /\ feeToken' \in [FeeSlots -> Nat] /\ reserveToken' \in Nat
          /\ reserve' \in ReserveStates
        BY <1>1 DEF GovInv, ReserveInv, EquityTypeOK
    <2>2. \A i \in 1..NumUsers : kusd'[i] \in Int /\ kas'[i] \in Int
        BY <2>1 DEF Users
    <2>3. \A i \in 1..NumFeeSlots : feeToken'[i] \in Int
        BY <2>1 DEF FeeSlots
    <2>4. /\ SumTo(kusd', NumUsers) \in Int /\ SumTo(kas', NumUsers) \in Int
          /\ SumTo(feeToken', NumFeeSlots) \in Int
        BY <2>2, <2>3, SlotCounts, SumInt
    <2>5. reserve'.collateral \in Nat
        BY <2>1 DEF ReserveStates
    <2>6. QED
        BY <2>1, <2>4, <2>5
<1>6. HeldKusd' = HeldKusd
    BY <1>1, <1>5, HeldTotals DEF HeldKusd, GovKusd
<1>7. HeldKas' = HeldKas
    BY <1>1, <1>4, <1>5, HeldTotals DEF HeldKas, GovKas
<1>8. QED
    BY <1>1, <1>2, <1>3, <1>6, <1>7 DEF SavingsKeeps, SavingsInv, HeldKept

LEMMA SavingsUntouched ==
    ASSUME SavingsInv, StepKeeps, escrow' = escrow, proposal' = proposal,
           UNCHANGED savingsVars
    PROVE  SavingsKeeps
<1>1. UNCHANGED <<registry, controller, governor, series, accounts, accountToken>>
    BY DEF savingsVars, seriesVars, accountVars
<1>2. SeriesBacked'
    BY <1>1, SavingsFacts DEF SeriesBacked
<1>3. QED
    BY <1>1, <1>2, SavingsFacts, BesideSavings

LEMMA DelegationBesideSavings ==
    ASSUME SavingsInv, DelegationStep, UNCHANGED savingsVars
    PROVE  SavingsKeeps
<1>1. StepKeeps
    BY SavingsFacts, AllDelegationSteps
<1>2. escrow' = escrow /\ proposal' = proposal
    BY DelegationOnly
<1>3. QED
    BY <1>1, <1>2, SavingsUntouched

LEMMA ReserveBesideSavings ==
    ASSUME SavingsInv, ReserveStep, UNCHANGED <<governanceVars, savingsVars>>
    PROVE  SavingsKeeps
<1>1. StepKeeps
    BY SavingsFacts, EquityOnlyStep
<1>2. escrow' = escrow /\ proposal' = proposal
    BY DEF governanceVars
<1>3. QED
    BY <1>1, <1>2, SavingsUntouched

LEMMA StutterBesideSavings ==
    ASSUME SavingsInv, UNCHANGED allVars
    PROVE  SavingsKeeps
<1>1. UNCHANGED vars /\ UNCHANGED savingsVars
    BY DEF allVars
<1>2. StepKeeps
    BY <1>1, SavingsFacts, StutterKeeps
<1>3. escrow' = escrow /\ proposal' = proposal
    BY <1>1 DEF vars, governanceVars
<1>4. QED
    BY <1>1, <1>2, <1>3, SavingsUntouched

(* The clock adds to ages only. *)
LEMMA SavingsTickStep ==
    ASSUME SavingsInv, SavingsTick
    PROVE  SavingsKeeps
<1>1. /\ Tick
      /\ UNCHANGED <<registry, governor, controller, accountToken>>
    BY DEF SavingsTick
<1>2. StepKeeps
    BY <1>1, SavingsFacts, TickStep
<1>3. escrow' = escrow /\ proposal'.deposit = proposal.deposit
    <2>1. proposal \in ProposalStates
        BY SavingsFacts, GovernanceFacts
    <2> DEFINE older == IF proposal.stage # "none" /\ proposal.age < MaxAge
                        THEN proposal.age + 1 ELSE proposal.age
    <2>2. proposal' = [proposal EXCEPT !.age = older] /\ escrow' = escrow
        BY <1>1 DEF Tick
    <2> HIDE DEF older
    <2>3. QED
        BY <2>1, <2>2 DEF ProposalStates
<1>4. /\ series' \in SeriesStates /\ series'.deposit = series.deposit /\ SeriesBacked'
    <2> DEFINE older == IF series.stage # "none" /\ series.age < MaxSeriesAge
                        THEN series.age + 1 ELSE series.age
    <2>1. series' = [series EXCEPT !.age = older]
        BY DEF SavingsTick
    <2>2. series \in SeriesStates /\ series.age \in 0..MaxSeriesAge /\ MaxSeriesAge \in Nat
        BY SavingsFacts, SavingsConstants
    <2>3. older \in 0..MaxSeriesAge
        BY <2>2
    <2>4. series.stage = "none" => older = series.age
        OBVIOUS
    <2> HIDE DEF older
    <2>5. /\ series' \in SeriesStates /\ series'.deposit = series.deposit
          /\ series'.stage = series.stage /\ series'.nonce = series.nonce
          /\ series.stage = "none" => series' = series
        BY <2>1, <2>2, <2>3, <2>4 DEF SeriesStates
    <2>6. QED
        BY <1>1, <2>5, SavingsFacts, BlankSavings DEF SeriesBacked
<1>5. ASSUME NEW a \in AccountSlots
      PROVE  /\ accounts'[a] \in AccountStates
             /\ accounts'[a].saved = accounts[a].saved /\ accounts'[a].value = accounts[a].value
             /\ accounts'[a].open = accounts[a].open
             /\ accounts[a] = NoAccount => accounts'[a] = NoAccount
    <2> DEFINE r == accounts[a]
               older == IF r.open /\ r.age < MaxAccountAge THEN r.age + 1 ELSE r.age
    <2>1. accounts'[a] = [r EXCEPT !.age = older]
        BY DEF SavingsTick
    <2>2. r \in AccountStates /\ r.age \in 0..MaxAccountAge /\ MaxAccountAge \in Nat
        BY AccountFacts, SavingsConstants
    <2>3. older \in 0..MaxAccountAge
        BY <2>2
    <2>4. ~r.open => older = r.age
        OBVIOUS
    <2>5. r = accounts[a]
        OBVIOUS
    <2> HIDE DEF r, older
    <2>6. /\ accounts'[a] \in AccountStates
          /\ accounts'[a].saved = r.saved /\ accounts'[a].value = r.value
          /\ accounts'[a].open = r.open
          /\ ~r.open => accounts'[a] = r
        BY <2>1, <2>2, <2>3, <2>4 DEF AccountStates
    <2>7. QED
        BY <2>5, <2>6, BlankSavings
<1>6. accounts' \in [AccountSlots -> AccountStates]
    BY <1>5 DEF SavingsTick
<1>7. QED
    BY <1>1, <1>2, <1>3, <1>4, <1>5, <1>6, BesideSavings

-----------------------------------------------------------------------------
(* Every step, and the first state *)

LEMMA AccountStepKeeps ==
    ASSUME SavingsInv, NEW c, AccountStep(c)
    PROVE  SavingsKeeps
<1>1. CASE InitializeGovernance(c) \/ ExecuteSeries(c)
    BY <1>1, InitializeGovernanceStep, ExecuteSeriesStep
<1>2. CASE \E u, v \in Users, amount \in SavedAmounts, ppm \in ReferralPpms :
               OpenAccount(u, amount, v, ppm, c)
    BY <1>2, OpenAccountStep
<1>3. CASE \E a \in AccountSlots, policy \in ControllerPolicies("account_refresh") :
               \E accrual \in 1..accounts[a].remaining : RefreshAccount(a, accrual, policy, c)
    BY <1>3, RefreshAccountStep
<1>4. CASE \E a \in AccountSlots, policy \in ControllerPolicies("account_close") :
               CloseAccount(a, policy, c)
    BY <1>4, CloseAccountStep
<1>5. QED
    BY <1>1, <1>2, <1>3, <1>4 DEF AccountStep

LEMMA SavingsStep ==
    ASSUME SavingsInv, [SavingsNext]_allVars
    PROVE  SavingsKeeps
<1>1. CASE SavingsTick
    BY <1>1, SavingsTickStep
<1>2. CASE InitializeRegistry
    BY <1>2, RegistryStep
<1>3. CASE SeriesStep
    BY <1>3, ProposeSeriesStep, ActivateSeriesStep, CancelSeriesStep, VetoSeriesStep
       DEF SeriesStep
<1>4. CASE \E c \in Conclusions \cup {Nothing} : AccountStep(c)
    BY <1>4, AccountStepKeeps
<1>5. CASE DelegationStep /\ UNCHANGED savingsVars
    BY <1>5, DelegationBesideSavings
<1>6. CASE ReserveStep /\ UNCHANGED <<governanceVars, savingsVars>>
    BY <1>6, ReserveBesideSavings
<1>7. CASE UNCHANGED allVars
    BY <1>7, StutterBesideSavings
<1>8. CASE \E a \in AccountSlots, u, v \in Users, amount \in SavedAmounts, ppm \in ReferralPpms,
              terms \in OtherTerms : CreateAccount(a, u, amount, v, ppm, terms)
    BY <1>8, CreateAccountStep
<1>9. QED
    BY <1>1, <1>2, <1>3, <1>4, <1>5, <1>6, <1>7, <1>8 DEF SavingsNext

LEMMA InitialSavings ==
    ASSUME SavingsInit
    PROVE  SavingsInv /\ SavingsConserved
<1>1. Init
    BY DEF SavingsInit
<1>2. GovInv
    BY <1>1, InitialGovInv
<1>3. /\ accounts = [a \in AccountSlots |-> NoAccount]
      /\ accountToken = [a \in AccountSlots |-> 0]
      /\ registry = FALSE /\ series = NoSeries
      /\ governor = [proposalNonce |-> 0, executionNonce |-> 0, active |-> 0]
      /\ controller = [governed |-> FALSE, enabled |-> FALSE, seriesNonce |-> 0,
                       accountNonce |-> 0, totalSaved |-> 0, rate |-> 0, delay |-> 1,
                       maxAccrual |-> 1]
    BY DEF SavingsInit
<1>4. /\ NumAccounts \in Nat /\ MaxSeries \in Nat /\ PPM \in Nat \ {0}
      /\ TotalAccounts \in Nat
      /\ NoSeries \in SeriesStates /\ NoAccount \in AccountStates
      /\ NoSeries.deposit = 0 /\ NoAccount.saved = 0 /\ NoAccount.value = 0
    BY SavingsConstants, BlankSavings
<1>5. /\ 0 \in 0..PPM /\ 0 \in 0..NumAccounts /\ 0 \in 0..MaxSeries
    BY <1>4
<1>6. controller \in ControllerStates /\ governor \in GovernorStates
    BY <1>3, <1>5 DEF ControllerStates, GovernorStates
<1>7. SavingsTypes
    BY <1>3, <1>4, <1>6 DEF SavingsTypes
<1>8. SeriesBacked /\ TokensSaved /\ BlankAccounts
    BY <1>3, <1>4, SavingsConstants, BlankSavings DEF SeriesBacked, TokensSaved, BlankAccounts
<1>9. SavingsInv
    BY <1>2, <1>7, <1>8 DEF SavingsInv
<1>10. SumTo(accountToken, TotalAccounts) = 0
    <2>1. \A i \in 1..TotalAccounts : accountToken[i] = 0
        BY <1>3 DEF AccountSlots
    <2>2. QED
        BY <1>4, <2>1, SumOfZeros
<1>11. SumTo(Values, TotalAccounts) = 0
    <2> DEFINE f == Values
    <2>1. \A i \in 1..TotalAccounts : f[i] = 0
        BY <1>3, <1>4 DEF Values, AccountSlots
    <2> HIDE DEF f
    <2>2. SumTo(f, TotalAccounts) = 0
        BY <1>4, <2>1, SumOfZeros
    <2>3. QED
        BY <2>2 DEF f
<1>12. /\ GovKusd = NumUsers * InitialKusd + InitialDeposit /\ GovKas = NumUsers * InitialKas
       /\ escrow = 0 /\ proposal.deposit = 0
    BY <1>1, InitialValue DEF Init, NoProposal
<1>13. /\ HeldKusd = NumUsers * InitialKusd + InitialDeposit
       /\ HeldKas = NumUsers * InitialKas
    <2>1. series.deposit = 0
        BY <1>3, <1>4
    <2>2. HeldKusd = GovKusd
        BY <1>9, <1>10, <1>12, HeldTotals DEF HeldKusd, GovKusd
    <2>3. HeldKas = GovKas
        BY <1>9, <1>11, <1>12, <2>1, HeldTotals DEF HeldKas, GovKas
    <2>4. QED
        BY <1>12, <2>2, <2>3
<1>14. SavingsConserved
    BY <1>13 DEF SavingsConserved, HeldKusd, HeldKas, Values
<1>15. QED
    BY <1>9, <1>14

LEMMA SavingsInvariant == SavingsSpec => []SavingsInv
<1>1. SavingsInit => SavingsInv
    BY InitialSavings
<1>2. SavingsInv /\ [SavingsNext]_allVars => SavingsInv'
    BY SavingsStep DEF SavingsKeeps
<1>3. QED
    BY <1>1, <1>2, PTL DEF SavingsSpec

(* Controller, Governor, proposal and Accounts keep their types: no wallet *)
(* or Reserve is overdrawn, and the Controller's total never falls below   *)
(* zero, though close and refresh do not see the Controller's policy.      *)
THEOREM SavingsTyped == SavingsSpec => []SavingsTypeOK
BY SavingsInvariant, SavingsTypesAre, PTL

(* Whatever transactions pair the covenants, the KUSD booked as saved and  *)
(* the Reserve's are in their own UTXOs, and the Governor never names a    *)
(* proposal that is gone: no policy that relies on them is refused.        *)
THEOREM SavingsStayBacked == SavingsSpec => []SavingsBacked
<1>1. SavingsInv => SavingsBacked
    BY DEF SavingsInv, SavingsBacked, GovInv, ReserveInv, TokensSaved
<1>2. QED
    BY <1>1, SavingsInvariant, PTL

(* docs/SAVINGS.md: interest creates no KUSD, for every rate, rounding and *)
(* referral; and deposits and Accounts' sompi are paid back exactly once.  *)
THEOREM SavingsStayConserved == SavingsSpec => []SavingsConserved
<1>1. SavingsInit => SavingsConserved
    BY InitialSavings
<1>2. SavingsConserved /\ SavingsInv /\ [SavingsNext]_allVars => SavingsConserved'
    BY SavingsStep DEF SavingsKeeps, HeldKept, HeldKusd, HeldKas, Values, SavingsConserved
<1>3. QED
    BY <1>1, <1>2, SavingsInvariant, PTL DEF SavingsSpec

-----------------------------------------------------------------------------
(* Notice and interest, for the observers of MC_Savings *)

HistoryStates == [openFor : Nat, terms : Terms, claimed : Nat]

(* The Controller, while Savings is enabled, has the terms voted last, and *)
(* these are terms somebody could propose.                                 *)
TermsVoted ==
    /\ series.stage # "none" => series.terms \in SeriesTerms
    /\ controller.enabled =>
           /\ voted \in SeriesTerms
           /\ controller.rate = voted.rate
           /\ controller.delay = voted.delay
           /\ controller.maxAccrual = voted.maxAccrual
           /\ DaaPerYear = voted.daaPerYear

(* The ages of the pending proposal and of the activated one start at zero *)
(* after the proposal was made.                                            *)
SeriesNoticed ==
    /\ series.stage = "pending" =>
           proposedFor >= SeriesVotingDelay \/ series.age <= proposedFor
    /\ series.stage = "activated" => proposedFor >= SeriesVotingDelay

(* What an Account has claimed and what its UTXO may still claim fit into  *)
(* the time it has been open, unless all it could ever claim does.         *)
AccountTimed(a) ==
    accounts[a].open =>
        /\ history[a].terms \in SeriesTerms \cup OtherTerms
        /\ accounts[a].rate = history[a].terms.rate
        /\ accounts[a].daaPerYear = history[a].terms.daaPerYear
        /\ history[a].claimed + accounts[a].remaining = history[a].terms.maxAccrual
        /\ history[a].claimed = 0 => accounts[a].delay = history[a].terms.delay
        /\ \/ history[a].openFor >= MaxAccountAge
           \/ history[a].claimed = 0 /\ accounts[a].age <= history[a].openFor
           \/ history[a].terms.delay + history[a].claimed + accounts[a].age
                  <= history[a].openFor

EarnedInv ==
    /\ SavingsInv
    /\ proposedFor \in Nat /\ voted \in Terms
    /\ history \in [AccountSlots -> HistoryStates]
    /\ TermsVoted
    /\ SeriesNoticed
    /\ \A a \in AccountSlots : AccountTimed(a)

LEMMA TermsFacts ==
    ASSUME NEW terms \in SeriesTerms \cup OtherTerms
    PROVE  /\ terms \in Terms
           /\ terms.rate \in Nat /\ terms.delay \in Nat /\ terms.maxAccrual \in Nat
           /\ terms.delay + terms.maxAccrual <= MaxAccountAge
BY SavingsAssumption DEF Terms

(* A wallet's Account leaves everything else of Savings alone. *)
LEMMA CreateAccountOnly ==
    ASSUME NEW a, NEW u, NEW amount, NEW v, NEW ppm, NEW terms,
           CreateAccount(a, u, amount, v, ppm, terms)
    PROVE  UNCHANGED <<registry, controller, governor, series>>
BY DEF CreateAccount, seriesVars

(* Every step of the Controller or an Account may end a proposal besides. *)
LEMMA AccountStepConcludes ==
    ASSUME NEW c, AccountStep(c)
    PROVE  Conclude(c)
<1>1. CASE InitializeGovernance(c) \/ ExecuteSeries(c)
    BY <1>1 DEF InitializeGovernance, ExecuteSeries
<1>2. ASSUME NEW u, NEW amount, NEW v, NEW ppm, OpenAccount(u, amount, v, ppm, c)
      PROVE  Conclude(c)
    BY <1>2, Zenon DEF OpenAccount
<1>3. ASSUME NEW a, NEW accrual, NEW policy, RefreshAccount(a, accrual, policy, c)
      PROVE  Conclude(c)
    BY <1>3, Zenon DEF RefreshAccount
<1>4. ASSUME NEW a, NEW policy, CloseAccount(a, policy, c)
      PROVE  Conclude(c)
    BY <1>4, Zenon DEF CloseAccount
<1>5. QED
    BY <1>1, <1>2, <1>3, <1>4 DEF AccountStep

(* What a step does to the proposal of the Governor. *)
LEMMA SeriesMoves ==
    ASSUME SavingsInv, [SavingsNext]_allVars
    PROVE  \/ series' = series /\ governor'.active = governor.active
           \/ SavingsTick
           \/ series' = NoSeries
           \/ /\ series'.stage = "pending" /\ series'.age = 0 /\ series'.terms \in SeriesTerms
              /\ governor'.active # governor.active
           \/ ActivateSeries
<1> DEFINE Moves == \/ series' = series /\ governor'.active = governor.active
                    \/ SavingsTick
                    \/ series' = NoSeries
                    \/ /\ series'.stage = "pending" /\ series'.age = 0
                       /\ series'.terms \in SeriesTerms
                       /\ governor'.active # governor.active
                    \/ ActivateSeries
<1>1. ASSUME NEW c, Conclude(c)
      PROVE  Moves
    BY <1>1 DEF Conclude
<1>2. ASSUME NEW c, AccountStep(c)
      PROVE  Moves
    <2>1. Conclude(c)
        BY <1>2, AccountStepConcludes
    <2>2. QED
        BY <1>1, <2>1
<1>3. ASSUME NEW u \in Users, NEW terms \in SeriesTerms, ProposeSeries(u, terms)
      PROVE  Moves
    <2>1. /\ governor.active = 0 /\ governor \in GovernorStates
          /\ governor' = [governor EXCEPT !.proposalNonce = @ + 1,
                                          !.active = governor.proposalNonce + 1]
          /\ series'.stage = "pending" /\ series'.age = 0 /\ series'.terms = terms
        BY <1>3, SavingsFacts DEF ProposeSeries
    <2>2. governor'.active = governor.proposalNonce + 1 /\ governor.proposalNonce \in Nat
        BY <2>1, SavingsConstants DEF GovernorStates
    <2>3. governor'.active # governor.active
        BY <2>1, <2>2
    <2>4. QED
        BY <2>1, <2>3
<1>4. CASE CancelSeries
    BY <1>1, <1>4 DEF CancelSeries
<1>5. ASSUME NEW voters, VetoSeries(voters)
      PROVE  Moves
    BY <1>5 DEF VetoSeries
<1>6. CASE InitializeRegistry
    BY <1>6 DEF InitializeRegistry
<1>7. CASE \/ DelegationStep /\ UNCHANGED savingsVars
           \/ ReserveStep /\ UNCHANGED <<governanceVars, savingsVars>>
           \/ UNCHANGED allVars
    BY <1>7 DEF allVars, savingsVars, seriesVars
<1>8. ASSUME NEW a, NEW u, NEW amount, NEW v, NEW ppm, NEW terms,
             CreateAccount(a, u, amount, v, ppm, terms)
      PROVE  Moves
    BY <1>8, CreateAccountOnly
<1>9. QED
    BY <1>2, <1>3, <1>4, <1>5, <1>6, <1>7, <1>8 DEF SavingsNext, SeriesStep

TermsKept ==
    /\ controller'.enabled = controller.enabled
    /\ controller'.seriesNonce = controller.seriesNonce
    /\ controller'.rate = controller.rate
    /\ controller'.delay = controller.delay
    /\ controller'.maxAccrual = controller.maxAccrual

(* Only execute_series changes the terms, and it ends an activated         *)
(* proposal whose terms they become.                                       *)
TermsTaken ==
    /\ series.stage = "activated"
    /\ controller'.seriesNonce # controller.seriesNonce
    /\ controller'.rate = series.terms.rate
    /\ controller'.delay = series.terms.delay
    /\ controller'.maxAccrual = series.terms.maxAccrual
    /\ DaaPerYear = series.terms.daaPerYear

LEMMA ControllerMoves ==
    ASSUME SavingsInv, [SavingsNext]_allVars
    PROVE  TermsKept \/ TermsTaken
<1>1. controller \in ControllerStates /\ controller.seriesNonce \in Nat
    BY SavingsFacts
<1>2. ASSUME NEW c, SeriesExecuted(c), Conclude(c)
      PROVE  TermsTaken
    <2>1. series.stage = "activated"
        BY <1>2 DEF SeriesExecuted, Conclude
    <2>2. /\ controller'.seriesNonce = controller.seriesNonce + 1
          /\ controller'.rate = series.terms.rate
          /\ controller'.delay = series.terms.delay
          /\ controller'.maxAccrual = series.terms.maxAccrual
          /\ DaaPerYear = series.terms.daaPerYear
        BY <1>1, <1>2 DEF SeriesExecuted, ControllerStates
    <2>3. QED
        BY <1>1, <2>1, <2>2 DEF TermsTaken
<1>3. ASSUME controller' = controller
      PROVE  TermsKept
    BY <1>3 DEF TermsKept
<1>4. ASSUME NEW c, AccountStep(c)
      PROVE  TermsKept \/ TermsTaken
    <2>1. CASE InitializeGovernance(c)
        BY <1>1, <2>1 DEF InitializeGovernance, TermsKept, ControllerStates
    <2>2. CASE ExecuteSeries(c)
        BY <1>2, <2>2 DEF ExecuteSeries
    <2>3. ASSUME NEW u, NEW amount, NEW referrer, NEW ppm, OpenAccount(u, amount, referrer, ppm, c)
          PROVE  TermsKept
        BY <1>1, <2>3 DEF OpenAccount, TermsKept, ControllerStates
    <2>4. ASSUME NEW a, NEW accrual, NEW policy, RefreshAccount(a, accrual, policy, c)
          PROVE  TermsKept \/ TermsTaken
        <3>1. CASE policy = "execute_series"
            BY <1>2, <2>4, <3>1 DEF RefreshAccount
        <3>2. CASE policy # "execute_series"
            <4>1. PICK total : controller' = [controller EXCEPT !.totalSaved = total]
                BY <2>4, <3>2 DEF RefreshAccount
            <4>2. QED
                BY <1>1, <4>1 DEF TermsKept, ControllerStates
        <3>3. QED
            BY <3>1, <3>2
    <2>5. ASSUME NEW a, NEW policy, CloseAccount(a, policy, c)
          PROVE  TermsKept \/ TermsTaken
        <3>1. CASE policy = "execute_series"
            BY <1>2, <2>5, <3>1 DEF CloseAccount
        <3>2. CASE policy # "execute_series"
            <4>1. PICK total : controller' = [controller EXCEPT !.totalSaved = total]
                BY <2>5, <3>2 DEF CloseAccount, ControllerCloses
            <4>2. QED
                BY <1>1, <4>1 DEF TermsKept, ControllerStates
        <3>3. QED
            BY <3>1, <3>2
    <2>6. QED
        BY <1>4, <2>1, <2>2, <2>3, <2>4, <2>5 DEF AccountStep
<1>5. CASE SavingsTick \/ InitializeRegistry \/ SeriesStep
    BY <1>3, <1>5 DEF SavingsTick, InitializeRegistry, SeriesStep, ProposeSeries, ActivateSeries,
                      CancelSeries, VetoSeries, accountVars
<1>6. CASE \/ DelegationStep /\ UNCHANGED savingsVars
           \/ ReserveStep /\ UNCHANGED <<governanceVars, savingsVars>>
           \/ UNCHANGED allVars
    BY <1>3, <1>6 DEF allVars, savingsVars, accountVars
<1>7. ASSUME NEW a, NEW u, NEW amount, NEW v, NEW ppm, NEW terms,
             CreateAccount(a, u, amount, v, ppm, terms)
      PROVE  TermsKept
    BY <1>3, <1>7, CreateAccountOnly
<1>8. QED
    BY <1>4, <1>5, <1>6, <1>7 DEF SavingsNext

AccountOpened(a) ==
    /\ a \in OpenedSlots
    /\ ~accounts[a].open /\ accounts'[a].open
    /\ controller.enabled
    /\ accounts'[a].rate = controller.rate
    /\ accounts'[a].daaPerYear = DaaPerYear
    /\ accounts'[a].referralPpm \in 0..MaxReferralPpm
    /\ accounts'[a].delay = controller.delay
    /\ accounts'[a].remaining = controller.maxAccrual
    /\ accounts'[a].age = 0

AccountMade(a) ==
    /\ a \notin OpenedSlots
    /\ ~accounts[a].open /\ accounts'[a].open
    /\ TermsOf(accounts'[a]) \in OtherTerms
    /\ accounts'[a].age = 0

AccountRefreshed(a, accrual) ==
    /\ accounts[a].open /\ accounts'[a].open
    /\ accrual \in 1..accounts[a].remaining
    /\ accounts[a].age >= accounts[a].delay + accrual
    /\ accounts'[a].rate = accounts[a].rate
    /\ accounts'[a].daaPerYear = accounts[a].daaPerYear
    /\ accounts'[a].referralPpm = accounts[a].referralPpm
    /\ accounts'[a].remaining = accounts[a].remaining - accrual
    /\ accounts'[a].age = 0

(* What a step does to one Account. *)
LEMMA AccountMoves ==
    ASSUME SavingsInv, [SavingsNext]_allVars, NEW a \in AccountSlots
    PROVE  \/ accounts'[a] = accounts[a]
           \/ SavingsTick
           \/ ~accounts'[a].open
           \/ AccountOpened(a) \/ AccountMade(a)
           \/ \E accrual : AccountRefreshed(a, accrual)
<1> DEFINE Moves == \/ accounts'[a] = accounts[a]
                    \/ SavingsTick
                    \/ ~accounts'[a].open
                    \/ AccountOpened(a) \/ AccountMade(a)
                    \/ \E accrual : AccountRefreshed(a, accrual)
<1>1. accounts \in [AccountSlots -> AccountStates] /\ accounts[a] \in AccountStates
    BY SavingsFacts, AccountFacts
<1>2. ASSUME accounts' = accounts
      PROVE  Moves
    BY <1>2
<1>3. ASSUME NEW c, NEW u, NEW amount, NEW referrer, NEW ppm,
             OpenAccount(u, amount, referrer, ppm, c)
      PROVE  Moves
    <2> DEFINE b == controller.accountNonce + 1
               fresh == [open |-> TRUE, owner |-> u, saved |-> amount, rate |-> controller.rate,
                         delay |-> controller.delay, remaining |-> controller.maxAccrual,
                         daaPerYear |-> DaaPerYear,
                         referrer |-> referrer, referralPpm |-> ppm, value |-> AccountValue,
                         age |-> 0]
    <2>1. /\ controller.enabled /\ accounts' = [accounts EXCEPT ![b] = fresh]
          /\ b \in OpenedSlots /\ ppm \in 0..MaxReferralPpm
        BY <1>3, SavingsFacts, SavingsConstants DEF OpenAccount, OpenedSlots
    <2>2. CASE a = b
        <3>1. a > controller.accountNonce /\ a \in OpenedSlots
            BY <2>1, <2>2, SavingsFacts
        <3>2. ~accounts[a].open
            BY <3>1, SavingsFacts, BlankSavings DEF BlankAccounts
        <3>3. accounts'[a] = fresh
            BY <1>1, <2>1, <2>2
        <3>4. AccountOpened(a)
            BY <2>1, <3>1, <3>2, <3>3 DEF AccountOpened
        <3>5. QED
            BY <3>4
    <2>3. CASE a # b
        BY <1>1, <2>1, <2>3
    <2>4. QED
        BY <2>2, <2>3
<1>4. ASSUME NEW b \in AccountSlots, NEW accrual, NEW policy, NEW c,
             RefreshAccount(b, accrual, policy, c)
      PROVE  Moves
    <2> DEFINE yield == AccountYield(b, accrual)
               next == [accounts[b] EXCEPT !.saved = @ + yield.net, !.delay = 0,
                                           !.remaining = @ - accrual, !.age = 0]
    <2>1. /\ accounts[b].open /\ ClaimDue(accounts[b], accrual)
          /\ accounts' = [accounts EXCEPT ![b] = next]
        BY <1>4 DEF RefreshAccount, AccountYield
    <2> HIDE DEF yield
    <2>2. CASE a = b
        <3>1. accounts'[a] = next
            BY <1>1, <2>1, <2>2
        <3>2. /\ next.open = accounts[a].open /\ next.rate = accounts[a].rate
              /\ next.daaPerYear = accounts[a].daaPerYear
              /\ next.referralPpm = accounts[a].referralPpm
              /\ next.remaining = accounts[a].remaining - accrual /\ next.age = 0
            BY <1>1, <2>2 DEF AccountStates
        <3>3. AccountRefreshed(a, accrual)
            BY <2>1, <2>2, <3>1, <3>2 DEF AccountRefreshed, ClaimDue
        <3>4. QED
            BY <3>3
    <2>3. CASE a # b
        BY <1>1, <2>1, <2>3
    <2>4. QED
        BY <2>2, <2>3
<1>5. ASSUME NEW b, NEW policy, NEW c, CloseAccount(b, policy, c)
      PROVE  Moves
    <2>1. accounts' = [accounts EXCEPT ![b] = NoAccount]
        BY <1>5 DEF CloseAccount
    <2>2. accounts'[a] = accounts[a] \/ accounts'[a] = NoAccount
        BY <1>1, <2>1
    <2>3. QED
        BY <2>2, BlankSavings
<1>6. ASSUME NEW c, AccountStep(c)
      PROVE  Moves
    <2>1. CASE InitializeGovernance(c) \/ ExecuteSeries(c)
        BY <1>2, <2>1 DEF InitializeGovernance, ExecuteSeries
    <2>2. QED
        BY <1>3, <1>4, <1>5, <1>6, <2>1 DEF AccountStep
<1>7. CASE InitializeRegistry \/ SeriesStep
    BY <1>2, <1>7 DEF InitializeRegistry, SeriesStep, ProposeSeries, ActivateSeries,
                      CancelSeries, VetoSeries, accountVars
<1>8. CASE \/ DelegationStep /\ UNCHANGED savingsVars
           \/ ReserveStep /\ UNCHANGED <<governanceVars, savingsVars>>
           \/ UNCHANGED allVars
    BY <1>2, <1>8 DEF allVars, savingsVars, accountVars
<1>9. ASSUME NEW b \in AccountSlots, NEW u, NEW amount, NEW v, NEW ppm, NEW terms \in OtherTerms,
             CreateAccount(b, u, amount, v, ppm, terms)
      PROVE  Moves
    <2> DEFINE fresh == [open |-> TRUE, owner |-> u, saved |-> amount, rate |-> terms.rate,
                         delay |-> terms.delay, remaining |-> terms.maxAccrual,
                         daaPerYear |-> terms.daaPerYear,
                         referrer |-> v, referralPpm |-> ppm, value |-> AccountValue,
                         age |-> 0]
    <2>1. /\ b \notin OpenedSlots /\ ~accounts[b].open
          /\ accounts' = [accounts EXCEPT ![b] = fresh]
        BY <1>9 DEF CreateAccount
    <2>2. CASE a = b
        <3>1. accounts'[a] = fresh
            BY <1>1, <2>1, <2>2
        <3>2. terms \in Terms
            BY SavingsConstants
        <3>3. TermsOf(accounts'[a]) = terms
            BY <3>1, <3>2 DEF TermsOf, Terms
        <3>4. AccountMade(a)
            BY <2>1, <2>2, <3>1, <3>3 DEF AccountMade
        <3>5. QED
            BY <3>4
    <2>3. CASE a # b
        BY <1>1, <2>1, <2>3
    <2>4. QED
        BY <2>2, <2>3
<1>10. QED
    BY <1>6, <1>7, <1>8, <1>9 DEF SavingsNext

(* The observers. *)
LEMMA HistoryMoves ==
    ASSUME EarnedInv, ObserveSavings, NEW a \in AccountSlots
    PROVE  /\ ~accounts'[a].open => history'[a] = NoHistory
           /\ ~accounts[a].open /\ accounts'[a].open =>
                  /\ history'[a].openFor = 0 /\ history'[a].claimed = 0
                  /\ history'[a].terms = FirstTerms(a)
           /\ accounts[a].open /\ accounts'[a].open =>
                  /\ history'[a].terms = history[a].terms
                  /\ history'[a].claimed = history[a].claimed + accounts[a].remaining
                                               - accounts'[a].remaining
                  /\ history'[a].openFor \in {history[a].openFor, history[a].openFor + 1}
                  /\ SavingsTick /\ history[a].openFor < MaxAccountAge =>
                         history'[a].openFor = history[a].openFor + 1
<1>1. history[a] \in HistoryStates /\ history'[a] = ObservedAccount(a)
    BY DEF EarnedInv, ObserveSavings
<1>2. CASE ~accounts'[a].open
    BY <1>1, <1>2 DEF ObservedAccount
<1>3. CASE ~accounts[a].open /\ accounts'[a].open
    <2>1. history'[a] = [NoHistory EXCEPT !.terms = FirstTerms(a)]
        BY <1>1, <1>3, Zenon DEF ObservedAccount
    <2>2. QED
        BY <1>3, <2>1 DEF NoHistory
<1>4. CASE accounts[a].open /\ accounts'[a].open
    <2> DEFINE claimed == history[a].claimed + accounts[a].remaining - accounts'[a].remaining
               openFor == IF SavingsTick /\ history[a].openFor < MaxAccountAge
                          THEN history[a].openFor + 1 ELSE history[a].openFor
    <2>1. history'[a] = [history[a] EXCEPT !.openFor = openFor, !.claimed = claimed]
        BY <1>1, <1>4, Zenon DEF ObservedAccount
    <2>2. openFor \in {history[a].openFor, history[a].openFor + 1}
        OBVIOUS
    <2>3. SavingsTick /\ history[a].openFor < MaxAccountAge => openFor = history[a].openFor + 1
        OBVIOUS
    <2> HIDE DEF openFor, claimed
    <2>4. /\ history'[a].terms = history[a].terms /\ history'[a].claimed = claimed
          /\ history'[a].openFor = openFor
        BY <1>1, <2>1 DEF HistoryStates
    <2>5. QED
        BY <1>4, <2>2, <2>3, <2>4 DEF claimed
<1>5. QED
    BY <1>2, <1>3, <1>4

LEMMA AccountTimedStep ==
    ASSUME EarnedInv, [SavingsNext]_allVars, ObserveSavings, NEW a \in AccountSlots
    PROVE  AccountTimed(a)' /\ history'[a] \in HistoryStates
<1> DEFINE h == history[a]
           g == history'[a]
           account == accounts[a]
           next == accounts'[a]
<1>1. /\ SavingsInv /\ SavingsInv'
      /\ account \in AccountStates /\ next \in AccountStates
      /\ h \in HistoryStates /\ h.openFor \in Nat /\ h.claimed \in Nat /\ h.terms \in Terms
      /\ MaxAccountAge \in Nat
    <2>1. SavingsInv /\ SavingsInv'
        BY SavingsStep DEF EarnedInv, SavingsKeeps
    <2>2. account \in AccountStates /\ next \in AccountStates
        BY <2>1, AccountFacts DEF SavingsInv, SavingsTypes
    <2>3. QED
        BY <2>1, <2>2, SavingsConstants DEF EarnedInv, HistoryStates
<1>2. /\ account.age \in Nat /\ account.delay \in Nat /\ account.remaining \in Nat
      /\ next.age \in 0..MaxAccountAge /\ next.remaining \in Nat
    BY <1>1 DEF AccountStates
<1>3. CASE ~next.open
    <2>1. g = NoHistory
        BY <1>3, HistoryMoves
    <2>2. g \in HistoryStates
        BY <2>1, BlankSavings DEF NoHistory, HistoryStates
    <2>3. QED
        BY <1>3, <2>2 DEF AccountTimed
<1>4. CASE ~account.open /\ next.open
    <2> DEFINE terms == FirstTerms(a)
    <2>1. g.openFor = 0 /\ g.claimed = 0 /\ g.terms = terms
        BY <1>4, HistoryMoves
    <2>2. AccountOpened(a) \/ AccountMade(a)
        <3>1. ~SavingsTick
            BY <1>1, <1>4 DEF SavingsTick, AccountStates
        <3>2. QED
            BY <1>1, <1>4, <3>1, AccountMoves DEF AccountRefreshed
    <2>3. /\ terms \in SeriesTerms \cup OtherTerms
          /\ next.rate = terms.rate /\ next.delay = terms.delay
          /\ next.daaPerYear = terms.daaPerYear
          /\ next.remaining = terms.maxAccrual /\ next.age = 0
        <3>1. CASE AccountOpened(a)
            BY <3>1 DEF AccountOpened, EarnedInv, TermsVoted, FirstTerms
        <3>2. CASE AccountMade(a)
            BY <3>2 DEF AccountMade, TermsOf, FirstTerms
        <3>3. QED
            BY <2>2, <3>1, <3>2
    <2>4. terms.maxAccrual \in Nat /\ terms \in Terms
        BY <2>3, TermsFacts
    <2>5. g \in HistoryStates
        <3>1. g = [NoHistory EXCEPT !.terms = terms]
            BY <1>4, Zenon DEF ObserveSavings, ObservedAccount
        <3>2. QED
            BY <2>4, <3>1 DEF NoHistory, HistoryStates
    <2> HIDE DEF terms
    <2>6. 0 + next.remaining = terms.maxAccrual /\ next.age <= g.openFor
        BY <2>1, <2>3, <2>4
    <2>7. QED
        BY <2>1, <2>3, <2>5, <2>6 DEF AccountTimed
<1>5. CASE account.open /\ next.open
    <2>1. /\ g.terms = h.terms
          /\ g.claimed = h.claimed + account.remaining - next.remaining
          /\ g.openFor \in {h.openFor, h.openFor + 1}
          /\ SavingsTick /\ h.openFor < MaxAccountAge => g.openFor = h.openFor + 1
        BY <1>5, HistoryMoves
    <2>2. /\ h.terms \in SeriesTerms \cup OtherTerms
          /\ account.rate = h.terms.rate
          /\ account.daaPerYear = h.terms.daaPerYear
          /\ h.claimed + account.remaining = h.terms.maxAccrual
          /\ h.claimed = 0 => account.delay = h.terms.delay
          /\ \/ h.openFor >= MaxAccountAge
             \/ h.claimed = 0 /\ account.age <= h.openFor
             \/ h.terms.delay + h.claimed + account.age <= h.openFor
        BY <1>5 DEF EarnedInv, AccountTimed
    <2>3. /\ h.terms.delay \in Nat /\ h.terms.maxAccrual \in Nat
        BY <2>2, TermsFacts
    <2>4. g.openFor \in Nat /\ g.openFor >= h.openFor
        BY <1>1, <2>1
    <2>5. ASSUME g.claimed \in Nat
          PROVE  g \in HistoryStates
        <3>1. \E n, k : g = [h EXCEPT !.openFor = n, !.claimed = k]
            BY <1>5, Zenon DEF ObserveSavings, ObservedAccount
        <3>2. PICK n, k : g = [h EXCEPT !.openFor = n, !.claimed = k]
            BY <3>1, Zenon
        <3>3. n = g.openFor /\ k = g.claimed
            BY <1>1, <3>2 DEF HistoryStates
        <3>4. QED
            BY <1>1, <2>4, <2>5, <3>2, <3>3 DEF HistoryStates
    <2>6. CASE next = account \/ SavingsTick
        <3>1. /\ next.rate = account.rate /\ next.delay = account.delay
              /\ next.daaPerYear = account.daaPerYear
              /\ next.remaining = account.remaining
              /\ next.age = account.age \/ (SavingsTick /\ next.age = account.age + 1)
            <4>1. CASE next = account
                BY <4>1
            <4>2. CASE SavingsTick
                <5>1. next = [account EXCEPT !.age = IF account.open /\ @ < MaxAccountAge
                                                     THEN @ + 1 ELSE @]
                    BY <4>2 DEF SavingsTick
                <5>2. QED
                    BY <1>1, <4>2, <5>1 DEF AccountStates
            <4>3. QED
                BY <2>6, <4>1, <4>2
        <3>2. g.claimed = h.claimed
            BY <1>1, <1>2, <2>1, <3>1
        <3>3. \/ g.openFor >= MaxAccountAge
              \/ g.claimed = 0 /\ next.age <= g.openFor
              \/ h.terms.delay + g.claimed + next.age <= g.openFor
            <4>1. CASE h.openFor >= MaxAccountAge
                BY <1>1, <2>4, <4>1
            <4>2. CASE h.openFor < MaxAccountAge /\ next.age # account.age
                <5>1. next.age = account.age + 1 /\ g.openFor = h.openFor + 1
                    BY <2>1, <3>1, <4>2
                <5>2. QED
                    BY <1>1, <1>2, <2>2, <2>3, <3>2, <4>2, <5>1
            <4>3. CASE h.openFor < MaxAccountAge /\ next.age = account.age
                BY <1>1, <1>2, <2>2, <2>3, <2>4, <3>2, <4>3
            <4>4. QED
                BY <1>1, <4>1, <4>2, <4>3
        <3>4. g.claimed + next.remaining = h.terms.maxAccrual /\ g.claimed \in Nat
            BY <1>1, <2>2, <3>1, <3>2
        <3>5. QED
            BY <2>1, <2>2, <2>5, <3>1, <3>2, <3>3, <3>4 DEF AccountTimed
    <2>7. ASSUME NEW accrual, AccountRefreshed(a, accrual)
          PROVE  AccountTimed(a)' /\ g \in HistoryStates
        <3>1. /\ accrual \in 1..account.remaining
              /\ account.age >= account.delay + accrual
              /\ next.rate = account.rate /\ next.daaPerYear = account.daaPerYear
              /\ next.remaining = account.remaining - accrual
              /\ next.age = 0
            BY <2>7 DEF AccountRefreshed
        <3>2. g.claimed = h.claimed + accrual /\ g.claimed \in Nat /\ g.claimed # 0
            BY <1>1, <1>2, <2>1, <3>1
        <3>3. g.claimed + next.remaining = h.terms.maxAccrual
            BY <1>1, <1>2, <2>2, <3>1, <3>2
        <3>4. g.openFor >= MaxAccountAge \/ h.terms.delay + g.claimed + next.age <= g.openFor
            BY <1>1, <1>2, <2>2, <2>3, <2>4, <3>1, <3>2
        <3>5. QED
            BY <2>1, <2>2, <2>5, <3>1, <3>2, <3>3, <3>4 DEF AccountTimed
    <2>8. QED
        BY <1>1, <1>5, <2>6, <2>7, AccountMoves DEF AccountOpened, AccountMade
<1>6. QED
    BY <1>3, <1>4, <1>5

LEMMA TermsVotedStep ==
    ASSUME EarnedInv, [SavingsNext]_allVars, ObserveSavings
    PROVE  TermsVoted' /\ voted' \in Terms
<1>1. SavingsInv /\ TermsVoted /\ voted \in Terms /\ series \in SeriesStates
    BY SavingsFacts DEF EarnedInv
<1>2. voted' = IF controller'.seriesNonce # controller.seriesNonce THEN series.terms ELSE voted
    BY DEF ObserveSavings
<1>3. series'.stage # "none" => series'.terms \in SeriesTerms
    <2>1. CASE SavingsTick
        <3>1. series'.stage = series.stage /\ series'.terms = series.terms
            BY <1>1, <2>1 DEF SavingsTick, SeriesStates
        <3>2. QED
            BY <1>1, <3>1 DEF TermsVoted
    <2>2. CASE ActivateSeries
        <3>1. series.stage = "pending" /\ series'.terms = series.terms
            BY <1>1, <2>2 DEF ActivateSeries, SeriesStates
        <3>2. QED
            BY <1>1, <3>1 DEF TermsVoted
    <2>3. CASE series' = series \/ series' = NoSeries
        BY <1>1, <2>3, BlankSavings DEF TermsVoted
    <2>4. QED
        BY <1>1, <2>1, <2>2, <2>3, SeriesMoves
<1>4. CASE TermsKept
    BY <1>1, <1>2, <1>3, <1>4 DEF TermsKept, TermsVoted
<1>5. CASE TermsTaken
    <2>1. series.terms \in SeriesTerms /\ voted' = series.terms
        BY <1>1, <1>2, <1>5 DEF TermsTaken, TermsVoted
    <2>2. QED
        BY <1>3, <1>5, <2>1, TermsFacts DEF TermsTaken, TermsVoted
<1>6. QED
    BY <1>1, <1>4, <1>5, ControllerMoves

LEMMA SeriesNoticedStep ==
    ASSUME EarnedInv, [SavingsNext]_allVars, ObserveSavings
    PROVE  SeriesNoticed' /\ proposedFor' \in Nat
<1>1. /\ SavingsInv /\ SavingsInv' /\ SeriesNoticed /\ proposedFor \in Nat
      /\ series \in SeriesStates /\ series.age \in Nat /\ SeriesVotingDelay \in Nat
    <2>1. SavingsInv /\ SavingsInv'
        BY SavingsStep DEF EarnedInv, SavingsKeeps
    <2>2. series \in SeriesStates /\ series.age \in 0..MaxSeriesAge /\ MaxSeriesAge \in Nat
        BY <2>1, SavingsFacts, SavingsConstants
    <2>3. QED
        BY <2>1, <2>2, SavingsAssumption DEF EarnedInv
<1>2. proposedFor' =
          IF governor'.active # governor.active \/ governor.active = 0 THEN 0
          ELSE IF SavingsTick /\ proposedFor < SeriesVotingDelay THEN proposedFor + 1
          ELSE proposedFor
    BY DEF ObserveSavings
<1>3. proposedFor' \in Nat
    BY <1>1, <1>2
<1>4. series.stage # "none" => governor.active # 0
    BY <1>1, BlankSavings DEF SavingsInv, SeriesBacked
<1>5. CASE series' = series /\ governor'.active = governor.active
    <2>1. series.stage # "none" => proposedFor' >= proposedFor
        BY <1>1, <1>2, <1>4, <1>5
    <2>2. QED
        BY <1>1, <1>3, <1>5, <2>1 DEF SeriesNoticed
<1>6. CASE SavingsTick
    <2>1. governor' = governor
        BY <1>6 DEF SavingsTick
    <2>2. series'.stage = series.stage /\ series'.age \in {series.age, series.age + 1}
        BY <1>1, <1>6 DEF SavingsTick, SeriesStates
    <2>3. series.stage # "none" =>
              proposedFor' = IF proposedFor < SeriesVotingDelay THEN proposedFor + 1
                             ELSE proposedFor
        BY <1>2, <1>4, <1>6, <2>1
    <2>4. QED
        BY <1>1, <1>3, <2>2, <2>3 DEF SeriesNoticed
<1>7. CASE series' = NoSeries
    BY <1>3, <1>7, BlankSavings DEF SeriesNoticed
<1>8. CASE series'.stage = "pending" /\ series'.age = 0
    BY <1>3, <1>8 DEF SeriesNoticed
<1>9. CASE ActivateSeries
    <2>1. /\ series.stage = "pending" /\ series.age >= SeriesVotingDelay
          /\ series'.stage = "activated" /\ governor' = governor
        BY <1>1, <1>9 DEF ActivateSeries, SeriesStates
    <2>2. proposedFor >= SeriesVotingDelay
        BY <1>1, <2>1 DEF SeriesNoticed
    <2>3. proposedFor' >= proposedFor
        BY <1>1, <1>2, <1>4, <2>1
    <2>4. QED
        BY <1>1, <1>3, <2>1, <2>2, <2>3 DEF SeriesNoticed
<1>10. QED
    BY <1>1, <1>3, <1>5, <1>6, <1>7, <1>8, <1>9, SeriesMoves

LEMMA EarnedStep ==
    ASSUME EarnedInv, [ObservedNext]_observedVars
    PROVE  EarnedInv'
<1>1. CASE ObservedNext
    <2>1. SavingsInv' /\ [SavingsNext]_allVars /\ ObserveSavings
        BY <1>1, SavingsStep DEF EarnedInv, SavingsKeeps, ObservedNext
    <2>2. TermsVoted' /\ voted' \in Terms /\ SeriesNoticed' /\ proposedFor' \in Nat
        BY <2>1, TermsVotedStep, SeriesNoticedStep
    <2>3. \A a \in AccountSlots : AccountTimed(a)' /\ history'[a] \in HistoryStates
        BY <2>1, AccountTimedStep
    <2>4. history' \in [AccountSlots -> HistoryStates]
        <3>1. history' = [a \in AccountSlots |-> ObservedAccount(a)]
            BY <2>1 DEF ObserveSavings
        <3>2. \A a \in AccountSlots : ObservedAccount(a) \in HistoryStates
            BY <2>3, <3>1
        <3>3. QED
            BY <3>1, <3>2
    <2>5. QED
        BY <2>1, <2>2, <2>3, <2>4 DEF EarnedInv
<1>2. CASE UNCHANGED observedVars
    <2>1. UNCHANGED allVars /\ UNCHANGED <<proposedFor, voted, history>>
        BY <1>2 DEF observedVars
    <2>2. SavingsInv'
        BY <2>1, SavingsStep DEF EarnedInv, SavingsKeeps
    <2>3. UNCHANGED <<controller, series, accounts>>
        BY <2>1 DEF allVars, savingsVars, seriesVars, accountVars
    <2>4. QED
        BY <2>1, <2>2, <2>3 DEF EarnedInv, TermsVoted, SeriesNoticed, AccountTimed
<1>3. QED
    BY <1>1, <1>2

LEMMA EarnedInvariant == ObservedSpec => []EarnedInv
<1>1. ObservedInit => EarnedInv
    <2> SUFFICES ASSUME ObservedInit PROVE EarnedInv
        OBVIOUS
    <2>1. /\ SavingsInv /\ proposedFor = 0 /\ voted = NoTerms
          /\ history = [a \in AccountSlots |-> NoHistory]
        BY InitialSavings DEF ObservedInit
    <2>2. series.stage = "none" /\ ~controller.enabled
        BY BlankSavings DEF ObservedInit, SavingsInit
    <2>3. \A a \in AccountSlots : ~accounts[a].open
        BY BlankSavings DEF ObservedInit, SavingsInit
    <2>4. NoHistory \in HistoryStates /\ NoTerms \in Terms
        BY BlankSavings DEF NoHistory, HistoryStates
    <2>5. QED
        BY <2>1, <2>2, <2>3, <2>4 DEF EarnedInv, TermsVoted, SeriesNoticed, AccountTimed
<1>2. EarnedInv /\ [ObservedNext]_observedVars => EarnedInv'
    BY EarnedStep
<1>3. QED
    BY <1>1, <1>2, PTL DEF ObservedSpec

(* Over all refreshes an Account is paid for no more time than it has been *)
(* open after its delay, for exactly what it gave up of its largest        *)
(* accrual, and at the rate and year it started with: those voted when the *)
(* Controller opened it, or those the wallet that made it chose.           *)
THEOREM InterestIsEarned == ObservedSpec => []InterestEarned
<1>1. ASSUME EarnedInv, NEW a \in AccountSlots, accounts[a].open
      PROVE  /\ history[a].claimed > 0 =>
                    history[a].terms.delay + history[a].claimed <= history[a].openFor
             /\ history[a].claimed + accounts[a].remaining = history[a].terms.maxAccrual
             /\ accounts[a].rate = history[a].terms.rate
             /\ accounts[a].daaPerYear = history[a].terms.daaPerYear
    <2>1. /\ history[a].openFor \in Nat /\ history[a].claimed \in Nat
          /\ accounts[a].remaining \in Nat /\ accounts[a].age \in Nat
        <3>1. history[a] \in HistoryStates
            BY <1>1 DEF EarnedInv
        <3>2. accounts[a].age \in 0..MaxAccountAge /\ accounts[a].remaining \in Nat
              /\ MaxAccountAge \in Nat
            BY <1>1, AccountFacts, SavingsConstants DEF EarnedInv
        <3>3. QED
            BY <3>1, <3>2 DEF HistoryStates
    <2>2. AccountTimed(a)
        BY <1>1 DEF EarnedInv
    <2>3. /\ history[a].terms.delay \in Nat /\ history[a].terms.maxAccrual \in Nat
          /\ history[a].terms.delay + history[a].terms.maxAccrual <= MaxAccountAge
        BY <1>1, <2>2, TermsFacts DEF AccountTimed
    <2>4. MaxAccountAge \in Nat
        BY SavingsConstants
    <2>5. QED
        BY <1>1, <2>1, <2>2, <2>3, <2>4 DEF AccountTimed
<1>2. EarnedInv => InterestEarned
    BY <1>1 DEF InterestEarned
<1>3. QED
    BY <1>2, EarnedInvariant, PTL

(* No terms are applied sooner than the voting delay after their proposal, *)
(* in whatever transaction the Controller takes them over.                 *)
THEOREM SeriesNoticeIsGiven == ObservedSpec => SeriesNoticeGiven
<1>1. EarnedInv /\ [ObservedNext]_observedVars =>
          [controller'.seriesNonce # controller.seriesNonce =>
               proposedFor >= SeriesVotingDelay]_observedVars
    BY ControllerMoves DEF EarnedInv, ObservedNext, TermsKept, TermsTaken, SeriesNoticed
<1>2. QED
    BY <1>1, EarnedInvariant, PTL DEF ObservedSpec, SeriesNoticeGiven

-----------------------------------------------------------------------------
(* What the client builds, for the calls of SavingsCalls *)

(* Terms that validate lets pass. *)
Sound(terms) ==
    /\ terms.rate \in 0..PPM
    /\ terms.delay > 0 /\ terms.maxAccrual > 0 /\ terms.daaPerYear > 0

(* The Controller's terms stay positive, and the active proposal is the    *)
(* last one made.                                                          *)
TermsSound ==
    /\ controller.delay > 0 /\ controller.maxAccrual > 0
    /\ governor.active # 0 => governor.active = governor.proposalNonce /\ Sound(series.terms)

(* An Account the Controller opened has terms that validate lets pass, and *)
(* the Controller's year.                                                  *)
SoundAccount(x) ==
    x.rate \in 0..PPM /\ x.referralPpm \in 0..MaxReferralPpm /\ x.daaPerYear = DaaPerYear
AccountsSound == \A a \in OpenedSlots : accounts[a].open => SoundAccount(accounts[a])

(* The inductive invariant. *)
ClientInv == SavingsInv /\ TermsSound /\ AccountsSound

(* Both halves of ExecuteSeriesBuilt: the Governor's, with the Proposal's, *)
(* and the Controller's, which need not happen together.                   *)
GovernorExecuteBuilt ==
    governor'.executionNonce # governor.executionNonce =>
        /\ GovernorExecuteCall(SeriesParams, Concluded(SeriesParams))
               = Call(TRUE, governor, [governor |-> governor', series |-> SeriesOf(series)],
                      <<>>)
        /\ ProposalExecuteSeriesCall(SeriesParams) = Call(TRUE, SeriesOf(series), <<>>, <<>>)
ControllerExecuteBuilt ==
    controller'.seriesNonce # controller.seriesNonce =>
        LET next == Enabled(SavingsParams, series.terms)
        IN  /\ ControllerExecuteCall(SavingsParams, next)
                   = Call(TRUE, controller, controller', <<>>)
            /\ CompileControllerState(next) = Artifact(TRUE, controller')

LEMMA BothExecute ==
    ASSUME GovernorExecuteBuilt, ControllerExecuteBuilt
    PROVE  ExecuteSeriesBuilt
BY DEF GovernorExecuteBuilt, ControllerExecuteBuilt, ExecuteSeriesBuilt

-----------------------------------------------------------------------------
(* Parameters that hold the state of a covenant build exactly that state. *)

LEMMA ControllerRead ==
    ASSUME NEW p, NEW k \in ControllerStates,
           p.governed = k.governed, p.enabled = k.enabled, p.seriesNonce = k.seriesNonce,
           p.accountNonce = k.accountNonce, p.totalSaved = k.totalSaved,
           p.currentRate = k.rate, p.delay = k.delay, p.maxAccrual = k.maxAccrual
    PROVE  ControllerArgs(p) = k /\ ControllerState(p) = k
BY DEF ControllerArgs, ControllerState, ControllerStates

LEMMA GovernorRead ==
    ASSUME NEW p, NEW g \in GovernorStates,
           p.proposalNonce = g.proposalNonce, p.executionNonce = g.executionNonce,
           p.active = g.active
    PROVE  GovernorArgs(p) = g /\ GovernorState(p) = g
BY DEF GovernorArgs, GovernorState, GovernorStates

LEMMA SeriesRead ==
    ASSUME NEW p, NEW x, NEW b \in BOOLEAN, (x.stage = "activated") = b,
           p.proposer = x.proposer, p.proposalNonce = x.nonce,
           p.rate = x.terms.rate, p.delay = x.terms.delay,
           p.maxAccrual = x.terms.maxAccrual, p.daaPerYear = x.terms.daaPerYear
    PROVE  SeriesArgs(p, b) = SeriesOf(x) /\ SeriesState(p, b) = SeriesOf(x)
BY DEF SeriesArgs, SeriesState, SeriesOf

LEMMA AccountRead ==
    ASSUME NEW p, NEW x,
           p.owner = x.owner, p.saved = x.saved, p.rate = x.rate, p.delayRemaining = x.delay,
           p.remaining = x.remaining, p.daaPerYear = x.daaPerYear,
           p.referrer = x.referrer, p.referralPpm = x.referralPpm
    PROVE  AccountArgs(p) = AccountOf(x) /\ AccountState(p) = AccountOf(x)
BY DEF AccountArgs, AccountState, AccountOf

LEMMA ValidWhen ==
    ASSUME NEW p, p.rate \in 0..PPM, p.currentRate \in 0..PPM,
           p.referralPpm \in 0..MaxReferralPpm,
           p.delay > 0, p.maxAccrual > 0, p.daaPerYear > 0,
           p.delayRemaining >= 0, p.remaining >= 0, p.saved >= 0, p.totalSaved >= 0
    PROVE  ValidSavings(p)
BY SavingsAssumption, ConfiguredSavings DEF ValidSavings

(* The parameters as they are read from the chain. *)
LEMMA ChainFields ==
    ASSUME NEW p, p = SavingsParams
    PROVE  /\ p.named = registry /\ p.governed = controller.governed
           /\ p.enabled = controller.enabled /\ p.proposer = series.proposer
           /\ p.active = governor.active /\ p.proposalNonce = governor.proposalNonce
           /\ p.executionNonce = governor.executionNonce
           /\ p.seriesNonce = controller.seriesNonce
           /\ p.accountNonce = controller.accountNonce
           /\ p.totalSaved = controller.totalSaved /\ p.currentRate = controller.rate
           /\ p.delay = controller.delay /\ p.maxAccrual = controller.maxAccrual
           /\ p.daaPerYear = DaaPerYear /\ p.rate = controller.rate
           /\ p.saved = 0 /\ p.delayRemaining = 0 /\ p.remaining = 0 /\ p.referralPpm = 0
BY DEF SavingsParams

LEMMA ChainRead ==
    ASSUME ClientInv, NEW p, p = SavingsParams
    PROVE  /\ ValidSavings(p) /\ ControllerArgs(p) = controller /\ GovernorArgs(p) = governor
<1>1. /\ controller \in ControllerStates /\ governor \in GovernorStates
      /\ controller.totalSaved \in Nat /\ controller.delay > 0 /\ controller.maxAccrual > 0
    BY SavingsFacts DEF ClientInv, TermsSound
<1>2. controller.rate \in 0..PPM /\ DaaPerYear > 0 /\ 0 \in 0..MaxReferralPpm
    BY <1>1, SavingsConstants DEF ControllerStates
<1>3. ValidSavings(p)
    BY <1>1, <1>2, ChainFields, ValidWhen
<1>4. ControllerArgs(p) = controller
    BY <1>1, ChainFields, ControllerRead
<1>5. GovernorArgs(p) = governor
    BY <1>1, ChainFields, GovernorRead
<1>6. QED
    BY <1>3, <1>4, <1>5

-----------------------------------------------------------------------------
(* Series proposals *)

(* The parameters with the terms of a proposal. *)
LEMMA TermsFields ==
    ASSUME NEW u, NEW terms, NEW p, p = WithTerms(SavingsParams, u, terms)
    PROVE  /\ p.proposer = u /\ p.rate = terms.rate /\ p.delay = terms.delay
           /\ p.maxAccrual = terms.maxAccrual /\ p.daaPerYear = terms.daaPerYear
           /\ p.proposalNonce = governor.proposalNonce
           /\ p.executionNonce = governor.executionNonce /\ p.active = governor.active
           /\ p.currentRate = controller.rate /\ p.totalSaved = controller.totalSaved
           /\ p.saved = 0 /\ p.delayRemaining = 0 /\ p.remaining = 0 /\ p.referralPpm = 0
BY DEF WithTerms, SavingsParams

LEMMA TermsValid ==
    ASSUME ClientInv, NEW terms, Sound(terms), NEW p,
           p.rate = terms.rate, p.delay = terms.delay, p.maxAccrual = terms.maxAccrual,
           p.daaPerYear = terms.daaPerYear, p.currentRate = controller.rate,
           p.totalSaved = controller.totalSaved,
           p.saved = 0, p.delayRemaining = 0, p.remaining = 0, p.referralPpm = 0
    PROVE  ValidSavings(p)
<1>1. controller.totalSaved \in Nat /\ controller.rate \in 0..PPM /\ 0 \in 0..MaxReferralPpm
    BY SavingsFacts, SavingsConstants DEF ClientInv, ControllerStates
<1>2. /\ p.rate \in 0..PPM /\ p.currentRate \in 0..PPM
      /\ p.delay > 0 /\ p.maxAccrual > 0 /\ p.daaPerYear > 0
      /\ p.totalSaved >= 0 /\ p.referralPpm \in 0..MaxReferralPpm
    BY <1>1 DEF Sound
<1>3. p.saved >= 0 /\ p.delayRemaining >= 0 /\ p.remaining >= 0
    OBVIOUS
<1>4. QED
    BY <1>2, <1>3, ValidWhen

LEMMA ProposeSeriesIsBuilt ==
    ASSUME ClientInv, NEW u \in Users, NEW terms \in SeriesTerms, ProposeSeries(u, terms)
    PROVE  /\ ProposeSeriesBuilt
           /\ governor'.active # 0 =>
                  governor'.active = governor'.proposalNonce /\ Sound(series'.terms)
<1> DEFINE p == SavingsParams
           q == WithTerms(SavingsParams, series'.proposer, series'.terms)
           next == Proposed(q, governor'.active)
<1>1. /\ governor.active = 0 /\ governor \in GovernorStates /\ governor.proposalNonce \in Nat
      /\ Sound(terms)
      /\ governor' = [governor EXCEPT !.proposalNonce = governor.proposalNonce + 1,
                                      !.active = governor.proposalNonce + 1]
      /\ series' = [stage |-> "pending", proposer |-> u, nonce |-> governor.proposalNonce + 1,
                    terms |-> terms, deposit |-> SeriesDeposit, age |-> 0]
    BY SavingsFacts, SavingsConstants DEF ProposeSeries, ClientInv, Sound
<1>2. /\ governor'.proposalNonce = governor.proposalNonce + 1
      /\ governor'.executionNonce = governor.executionNonce
      /\ governor'.active = governor.proposalNonce + 1
    BY <1>1 DEF GovernorStates
<1>3. /\ series'.proposer = u /\ series'.nonce = governor.proposalNonce + 1
      /\ series'.terms = terms /\ (series'.stage = "activated") = FALSE
    BY <1>1
<1>4. governor' \in GovernorStates
    <2>1. SavingsInv'
        BY ProposeSeriesStep DEF ClientInv, SavingsKeeps
    <2>2. QED
        BY <2>1 DEF SavingsInv, SavingsTypes
<1>5. /\ q.proposer = u /\ q.rate = terms.rate /\ q.delay = terms.delay
      /\ q.maxAccrual = terms.maxAccrual /\ q.daaPerYear = terms.daaPerYear
      /\ q.proposalNonce = governor.proposalNonce
      /\ q.executionNonce = governor.executionNonce /\ q.active = governor.active
      /\ q.currentRate = controller.rate /\ q.totalSaved = controller.totalSaved
      /\ q.saved = 0 /\ q.delayRemaining = 0 /\ q.remaining = 0 /\ q.referralPpm = 0
    BY <1>3, TermsFields
<1>6. /\ next.proposalNonce = governor.proposalNonce + 1
      /\ next.active = governor.proposalNonce + 1
      /\ next.executionNonce = q.executionNonce
      /\ next.proposer = q.proposer /\ next.rate = q.rate /\ next.delay = q.delay
      /\ next.maxAccrual = q.maxAccrual /\ next.daaPerYear = q.daaPerYear
      /\ next.currentRate = q.currentRate /\ next.totalSaved = q.totalSaved
      /\ next.saved = q.saved /\ next.delayRemaining = q.delayRemaining
      /\ next.remaining = q.remaining /\ next.referralPpm = q.referralPpm
    BY <1>2 DEF Proposed, WithTerms, SavingsParams
<1>7. ValidSavings(p) /\ GovernorArgs(p) = governor
    BY ChainRead
<1> HIDE DEF p, q, next
<1>8. ValidSavings(next)
    BY <1>1, <1>5, <1>6, TermsValid
<1>9. GovernorArgs(next) = governor' /\ GovernorState(next) = governor'
    BY <1>2, <1>4, <1>5, <1>6, GovernorRead
<1>10. SeriesArgs(next, FALSE) = SeriesOf(series') /\ SeriesState(next, FALSE) = SeriesOf(series')
    BY <1>3, <1>5, <1>6, SeriesRead
<1>11. GovernorProposeCall(p, next)
           = Call(TRUE, governor, [governor |-> governor', series |-> SeriesOf(series')], <<>>)
    BY <1>7, <1>9, <1>10 DEF GovernorProposeCall, Call
<1>12. /\ CompileGovernorState(next) = Artifact(TRUE, governor')
       /\ CompileProposalState(next, FALSE) = Artifact(TRUE, SeriesOf(series'))
    BY <1>8, <1>9, <1>10 DEF CompileGovernorState, CompileProposalState, Artifact
<1>13. ProposeSeriesBuilt
    BY <1>11, <1>12 DEF ProposeSeriesBuilt, p, q, next
<1>14. QED
    BY <1>1, <1>2, <1>3, <1>13

(* The parameters of the active proposal are its own. *)
LEMMA ActiveSeriesRead ==
    ASSUME ClientInv, governor.active # 0, NEW p, p = SeriesParams
    PROVE  /\ ValidSavings(p) /\ Sound(series.terms)
           /\ p.proposer = series.proposer /\ p.proposalNonce = series.nonce
           /\ p.rate = series.terms.rate /\ p.delay = series.terms.delay
           /\ p.maxAccrual = series.terms.maxAccrual /\ p.daaPerYear = series.terms.daaPerYear
           /\ GovernorArgs(p) = governor
<1>1. /\ p.proposer = series.proposer /\ p.rate = series.terms.rate
      /\ p.delay = series.terms.delay /\ p.maxAccrual = series.terms.maxAccrual
      /\ p.daaPerYear = series.terms.daaPerYear
      /\ p.proposalNonce = governor.proposalNonce
      /\ p.executionNonce = governor.executionNonce /\ p.active = governor.active
      /\ p.currentRate = controller.rate /\ p.totalSaved = controller.totalSaved
      /\ p.saved = 0 /\ p.delayRemaining = 0 /\ p.remaining = 0 /\ p.referralPpm = 0
    BY TermsFields DEF SeriesParams
<1>2. governor.active = governor.proposalNonce /\ Sound(series.terms)
      /\ series.nonce = governor.active
    BY SavingsFacts DEF ClientInv, TermsSound, SeriesBacked
<1>3. ValidSavings(p)
    BY <1>1, <1>2, TermsValid
<1>4. GovernorArgs(p) = governor
    BY <1>1, SavingsFacts, GovernorRead DEF ClientInv
<1>5. QED
    BY <1>1, <1>2, <1>3, <1>4

LEMMA ActivateSeriesIsBuilt ==
    ASSUME ClientInv, ActivateSeries
    PROVE  ActivateSeriesBuilt /\ series'.terms = series.terms
<1> DEFINE p == SeriesParams
<1>1. /\ series.stage = "pending" /\ series \in SeriesStates
      /\ series' = [series EXCEPT !.stage = "activated", !.age = 0]
    BY SavingsFacts DEF ActivateSeries, ClientInv
<1>2. governor.active # 0
    BY <1>1, SavingsFacts, BlankSavings DEF ClientInv, SeriesBacked
<1>3. /\ series'.proposer = series.proposer /\ series'.nonce = series.nonce
      /\ series'.terms = series.terms
      /\ (series.stage = "activated") = FALSE /\ (series'.stage = "activated") = TRUE
    BY <1>1 DEF SeriesStates
<1>4. /\ ValidSavings(p)
      /\ p.proposer = series.proposer /\ p.proposalNonce = series.nonce
      /\ p.rate = series.terms.rate /\ p.delay = series.terms.delay
      /\ p.maxAccrual = series.terms.maxAccrual /\ p.daaPerYear = series.terms.daaPerYear
    BY <1>2, ActiveSeriesRead
<1> HIDE DEF p
<1>5. SeriesArgs(p, FALSE) = SeriesOf(series)
    <2>1. FALSE \in BOOLEAN /\ (series.stage = "activated") = FALSE
        BY <1>3
    <2> DEFINE b == FALSE
               x == series
    <2>2. b \in BOOLEAN /\ (x.stage = "activated") = b
        BY <2>1
    <2>3. /\ p.proposer = x.proposer /\ p.proposalNonce = x.nonce
          /\ p.rate = x.terms.rate /\ p.delay = x.terms.delay
          /\ p.maxAccrual = x.terms.maxAccrual /\ p.daaPerYear = x.terms.daaPerYear
        BY <1>4
    <2> HIDE DEF b, x
    <2>4. SeriesArgs(p, b) = SeriesOf(x)
        BY <2>2, <2>3, SeriesRead
    <2>5. QED
        BY <2>4 DEF b, x
<1>6. SeriesState(p, TRUE) = SeriesOf(series') /\ SeriesArgs(p, TRUE) = SeriesOf(series')
    <2> DEFINE b == TRUE
               x == series'
    <2>2. b \in BOOLEAN /\ (x.stage = "activated") = b
        BY <1>3
    <2>3. /\ p.proposer = x.proposer /\ p.proposalNonce = x.nonce
          /\ p.rate = x.terms.rate /\ p.delay = x.terms.delay
          /\ p.maxAccrual = x.terms.maxAccrual /\ p.daaPerYear = x.terms.daaPerYear
        BY <1>3, <1>4
    <2> HIDE DEF b, x
    <2>4. SeriesArgs(p, b) = SeriesOf(x) /\ SeriesState(p, b) = SeriesOf(x)
        BY <2>2, <2>3, SeriesRead
    <2>5. QED
        BY <2>4 DEF b, x
<1>7. /\ ProposalActivateSeriesCall(p) = Call(TRUE, SeriesOf(series), SeriesOf(series'), <<>>)
      /\ CompileProposalState(p, TRUE) = Artifact(TRUE, SeriesOf(series'))
    BY <1>4, <1>5, <1>6 DEF ProposalActivateSeriesCall, CompileProposalState, Artifact
<1>8. QED
    BY <1>3, <1>7 DEF ActivateSeriesBuilt, p

(* A proposal that ends: the Governor's half, whatever else happens. *)
LEMMA ConcludeIsBuilt ==
    ASSUME ClientInv, SavingsInv', NEW c, Conclude(c)
    PROVE  /\ ProposeSeriesBuilt /\ ActivateSeriesBuilt /\ GovernorExecuteBuilt
           /\ \/ governor'.active = 0
              \/ /\ governor'.active = governor.active
                 /\ governor'.proposalNonce = governor.proposalNonce
                 /\ series'.terms = series.terms
<1>1. governor \in GovernorStates /\ governor' \in GovernorStates
    BY SavingsFacts DEF ClientInv, SavingsInv, SavingsTypes
<1>2. CASE c = Nothing
    <2>1. governor' = governor /\ series' = series
        BY <1>2 DEF Conclude
    <2>2. QED
        BY <2>1 DEF ProposeSeriesBuilt, ActivateSeriesBuilt, GovernorExecuteBuilt
<1>3. CASE c # Nothing
    <2> DEFINE n == IF c.governor = "execute_series" THEN governor.executionNonce + 1
                    ELSE governor.executionNonce
               p == SeriesParams
               next == Concluded(p)
    <2>1. /\ governor.active # 0 /\ series.stage = "activated" /\ series' = NoSeries
          /\ governor' = [governor EXCEPT !.active = 0, !.executionNonce = n]
        BY <1>3 DEF Conclude, ActiveSeriesSpent
    <2>2. /\ governor'.active = 0 /\ governor'.executionNonce = n
          /\ governor'.proposalNonce = governor.proposalNonce
        BY <1>1, <2>1 DEF GovernorStates
    <2>3. ProposeSeriesBuilt /\ ActivateSeriesBuilt
        BY <2>1, <2>2 DEF ProposeSeriesBuilt, ActivateSeriesBuilt
    <2>4. /\ ValidSavings(p) /\ GovernorArgs(p) = governor
          /\ p.proposer = series.proposer /\ p.proposalNonce = series.nonce
          /\ p.rate = series.terms.rate /\ p.delay = series.terms.delay
          /\ p.maxAccrual = series.terms.maxAccrual /\ p.daaPerYear = series.terms.daaPerYear
        BY <2>1, ActiveSeriesRead
    <2>5. /\ next.active = 0 /\ next.executionNonce = governor.executionNonce + 1
          /\ next.proposalNonce = governor.proposalNonce
        BY DEF Concluded, SeriesParams, WithTerms, SavingsParams
    <2>6. (series.stage = "activated") = TRUE
        BY <2>1
    <2>7. ASSUME governor'.executionNonce # governor.executionNonce
          PROVE  n = governor.executionNonce + 1
        BY <2>2, <2>7
    <2> HIDE DEF n, p, next
    <2>8. SeriesArgs(p, TRUE) = SeriesOf(series) /\ SeriesState(p, TRUE) = SeriesOf(series)
        BY <2>4, <2>6, SeriesRead
    <2>9. ASSUME governor'.executionNonce # governor.executionNonce
          PROVE  /\ GovernorExecuteCall(p, next)
                        = Call(TRUE, governor,
                               [governor |-> governor', series |-> SeriesOf(series)], <<>>)
                 /\ ProposalExecuteSeriesCall(p) = Call(TRUE, SeriesOf(series), <<>>, <<>>)
        <3>1. GovernorState(next) = governor'
            BY <1>1, <2>2, <2>5, <2>7, <2>9, GovernorRead
        <3>2. QED
            BY <2>4, <2>8, <3>1 DEF GovernorExecuteCall, ProposalExecuteSeriesCall, Call
    <2>10. GovernorExecuteBuilt
        BY <2>9 DEF GovernorExecuteBuilt, p, next
    <2>11. QED
        BY <2>2, <2>3, <2>10
<1>4. QED
    BY <1>2, <1>3

-----------------------------------------------------------------------------
(* The Controller and the Registry *)

LEMMA ExecutedIsBuilt ==
    ASSUME ClientInv, NEW c, SeriesExecuted(c), Conclude(c)
    PROVE  /\ ControllerExecuteBuilt
           /\ controller'.governed = controller.governed
           /\ controller'.seriesNonce # controller.seriesNonce
           /\ controller'.delay > 0 /\ controller'.maxAccrual > 0
<1> DEFINE terms == series.terms
           p == SavingsParams
           next == Enabled(p, terms)
           e == terms.rate > 0
           n == controller.seriesNonce + 1
<1>1. /\ controller \in ControllerStates /\ controller.seriesNonce \in Nat
      /\ controller.totalSaved \in Nat /\ controller' \in ControllerStates
    BY SavingsFacts, ExecutedController DEF ClientInv
<1>2. /\ terms.rate \in 0..PPM /\ terms.delay > 0 /\ terms.maxAccrual > 0
      /\ controller' = [controller EXCEPT !.enabled = e, !.seriesNonce = n,
                                          !.rate = terms.rate, !.delay = terms.delay,
                                          !.maxAccrual = terms.maxAccrual]
    BY DEF SeriesExecuted
<1>3. /\ next.governed = controller.governed /\ next.enabled = e /\ next.seriesNonce = n
      /\ next.accountNonce = controller.accountNonce
      /\ next.totalSaved = controller.totalSaved /\ next.currentRate = terms.rate
      /\ next.delay = terms.delay /\ next.maxAccrual = terms.maxAccrual
      /\ next.rate = controller.rate /\ next.daaPerYear = DaaPerYear
      /\ next.saved = 0 /\ next.delayRemaining = 0 /\ next.remaining = 0
      /\ next.referralPpm = 0
    BY DEF Enabled, SavingsParams
<1>4. ValidSavings(p) /\ ControllerArgs(p) = controller
    BY ChainRead
<1> HIDE DEF p, next, e, n, terms
<1>5. /\ controller'.governed = controller.governed /\ controller'.enabled = e
      /\ controller'.seriesNonce = n /\ controller'.accountNonce = controller.accountNonce
      /\ controller'.totalSaved = controller.totalSaved /\ controller'.rate = terms.rate
      /\ controller'.delay = terms.delay /\ controller'.maxAccrual = terms.maxAccrual
    BY <1>1, <1>2 DEF ControllerStates
<1>6. /\ next.governed = controller'.governed /\ next.enabled = controller'.enabled
      /\ next.seriesNonce = controller'.seriesNonce
      /\ next.accountNonce = controller'.accountNonce
      /\ next.totalSaved = controller'.totalSaved /\ next.currentRate = controller'.rate
      /\ next.delay = controller'.delay /\ next.maxAccrual = controller'.maxAccrual
    BY <1>3, <1>5
<1>7. ControllerArgs(next) = controller' /\ ControllerState(next) = controller'
    BY <1>1, <1>6, ControllerRead
<1>8. ValidSavings(next)
    <2>1. /\ next.rate \in 0..PPM /\ next.currentRate \in 0..PPM
          /\ next.referralPpm \in 0..MaxReferralPpm
          /\ next.delay > 0 /\ next.maxAccrual > 0 /\ next.daaPerYear > 0
          /\ next.totalSaved >= 0
        BY <1>1, <1>2, <1>3, SavingsConstants DEF ControllerStates
    <2>2. next.saved >= 0 /\ next.delayRemaining >= 0 /\ next.remaining >= 0
        BY <1>3
    <2>3. QED
        BY <2>1, <2>2, ValidWhen
<1>9. ControllerExecuteBuilt
    <2>1. /\ ControllerExecuteCall(p, next) = Call(TRUE, controller, controller', <<>>)
          /\ CompileControllerState(next) = Artifact(TRUE, controller')
        BY <1>4, <1>7, <1>8 DEF ControllerExecuteCall, CompileControllerState, Artifact
    <2>2. QED
        BY <2>1 DEF ControllerExecuteBuilt, p, next, terms
<1>10. n # controller.seriesNonce
    BY <1>1 DEF n
<1>11. QED
    BY <1>2, <1>5, <1>9, <1>10

(* Steps that leave the deployment and the series in force alone. *)
LEMMA DeploymentUntouched ==
    ASSUME registry' = registry, controller'.governed = controller.governed
    PROVE  DeploymentBuilt
BY DEF DeploymentBuilt

LEMMA SeriesInForceUntouched ==
    ASSUME controller'.seriesNonce = controller.seriesNonce
    PROVE  ControllerExecuteBuilt
BY DEF ControllerExecuteBuilt

LEMMA InitializeRegistryIsBuilt ==
    ASSUME ClientInv, InitializeRegistry
    PROVE  DeploymentBuilt
<1> DEFINE next == [SavingsParams EXCEPT !.named = TRUE]
<1>1. registry = FALSE /\ registry' = TRUE /\ controller' = controller
    BY SavingsFacts DEF ClientInv, InitializeRegistry, accountVars
<1>2. next.named = TRUE /\ SavingsParams.named = FALSE
    BY <1>1 DEF SavingsParams
<1> HIDE DEF next
<1>3. RegistryInitializeCall(SavingsParams, next) = Call(TRUE, registry, registry', <<>>)
    BY <1>1, <1>2 DEF RegistryInitializeCall, Call
<1>4. QED
    BY <1>1, <1>3 DEF DeploymentBuilt, next

LEMMA InitializeGovernanceIsBuilt ==
    ASSUME ClientInv, SavingsInv', NEW c, InitializeGovernance(c)
    PROVE  /\ DeploymentBuilt /\ ControllerExecuteBuilt
           /\ controller'.delay = controller.delay
           /\ controller'.maxAccrual = controller.maxAccrual
<1> DEFINE p == SavingsParams
           next == [SavingsParams EXCEPT !.governed = TRUE]
<1>1. /\ controller \in ControllerStates /\ controller' \in ControllerStates
      /\ controller.governed = FALSE /\ registry' = registry
      /\ controller' = [controller EXCEPT !.governed = TRUE]
    BY SavingsFacts DEF ClientInv, SavingsInv, SavingsTypes, ControllerStates,
                        InitializeGovernance
<1>2. /\ controller'.governed = TRUE /\ controller'.enabled = controller.enabled
      /\ controller'.seriesNonce = controller.seriesNonce
      /\ controller'.accountNonce = controller.accountNonce
      /\ controller'.totalSaved = controller.totalSaved /\ controller'.rate = controller.rate
      /\ controller'.delay = controller.delay
      /\ controller'.maxAccrual = controller.maxAccrual
    BY <1>1 DEF ControllerStates
<1>3. /\ next.governed = TRUE /\ next.enabled = controller.enabled
      /\ next.seriesNonce = controller.seriesNonce
      /\ next.accountNonce = controller.accountNonce
      /\ next.totalSaved = controller.totalSaved /\ next.currentRate = controller.rate
      /\ next.delay = controller.delay /\ next.maxAccrual = controller.maxAccrual
    BY DEF SavingsParams
<1>4. p.governed = FALSE /\ ValidSavings(p) /\ ControllerArgs(p) = controller
    BY <1>1, ChainRead, ChainFields
<1> HIDE DEF p, next
<1>5. ControllerState(next) = controller'
    <2>1. /\ next.governed = controller'.governed /\ next.enabled = controller'.enabled
          /\ next.seriesNonce = controller'.seriesNonce
          /\ next.accountNonce = controller'.accountNonce
          /\ next.totalSaved = controller'.totalSaved /\ next.currentRate = controller'.rate
          /\ next.delay = controller'.delay /\ next.maxAccrual = controller'.maxAccrual
        BY <1>2, <1>3
    <2>2. QED
        BY <1>1, <2>1, ControllerRead
<1>6. ControllerInitializeCall(p, next) = Call(TRUE, controller, controller', <<>>)
    BY <1>3, <1>4, <1>5 DEF ControllerInitializeCall, Call
<1>7. DeploymentBuilt
    BY <1>1, <1>6 DEF DeploymentBuilt, p, next
<1>8. QED
    BY <1>2, <1>7, SeriesInForceUntouched

-----------------------------------------------------------------------------
(* Accounts *)

AccountBuilt(a) == OpenBuilt(a) /\ RefreshBuilt(a) /\ CloseBuilt(a)

(* Neither opened nor refreshed nor closed. *)
LEMMA AccountUntouched ==
    ASSUME ClientInv, NEW a \in AccountSlots,
           accounts'[a].open = accounts[a].open,
           accounts'[a].remaining = accounts[a].remaining
    PROVE  AccountBuilt(a)
<1>1. OpenBuilt(a) /\ CloseBuilt(a)
    BY DEF OpenBuilt, CloseBuilt
<1> DEFINE accrual == accounts[a].remaining - accounts'[a].remaining
<1>2. ~(accrual > 0)
    BY AccountFacts DEF ClientInv
<1>3. RefreshBuilt(a)
    BY <1>2 DEF RefreshBuilt
<1>4. QED
    BY <1>1, <1>3 DEF AccountBuilt

(* The parameters with the fields of an Account. *)
LEMMA AccountFields ==
    ASSUME NEW x, NEW p, p = WithAccount(SavingsParams, x)
    PROVE  /\ p.owner = x.owner /\ p.referrer = x.referrer /\ p.saved = x.saved
           /\ p.rate = x.rate /\ p.delayRemaining = x.delay /\ p.remaining = x.remaining
           /\ p.referralPpm = x.referralPpm
           /\ p.currentRate = controller.rate /\ p.totalSaved = controller.totalSaved
           /\ p.delay = controller.delay /\ p.maxAccrual = controller.maxAccrual
           /\ p.daaPerYear = DaaPerYear
BY DEF WithAccount, SavingsParams

LEMMA AccountsSoundStep ==
    ASSUME ClientInv, [SavingsNext]_allVars
    PROVE  AccountsSound'
<1>1. SUFFICES ASSUME NEW a \in OpenedSlots, accounts'[a].open
               PROVE  SoundAccount(accounts'[a])
    BY DEF AccountsSound
<1>2. SavingsInv /\ a \in AccountSlots /\ accounts[a] \in AccountStates
    BY AccountFacts, SavingsConstants DEF ClientInv
<1>3. accounts[a].open => SoundAccount(accounts[a])
    BY DEF ClientInv, AccountsSound
<1>4. CASE accounts'[a] = accounts[a]
    BY <1>1, <1>3, <1>4
<1>5. CASE SavingsTick
    <2>1. PICK age : accounts'[a] = [accounts[a] EXCEPT !.age = age]
        BY <1>2, <1>5 DEF SavingsTick
    <2>2. QED
        BY <1>1, <1>2, <1>3, <2>1 DEF AccountStates, SoundAccount
<1>6. CASE AccountOpened(a)
    <2>1. controller.rate \in 0..PPM
        BY <1>2, SavingsFacts DEF ControllerStates
    <2>2. QED
        BY <1>6, <2>1 DEF AccountOpened, SoundAccount
<1>7. ASSUME NEW accrual, AccountRefreshed(a, accrual)
      PROVE  SoundAccount(accounts'[a])
    BY <1>3, <1>7 DEF AccountRefreshed, SoundAccount
<1>8. QED
    BY <1>1, <1>2, <1>4, <1>5, <1>6, <1>7, AccountMoves DEF AccountMade

LEMMA AccountValid ==
    ASSUME ClientInv, NEW x \in AccountStates, SoundAccount(x),
           NEW p, p = WithAccount(SavingsParams, x)
    PROVE  /\ ValidSavings(p) /\ AccountArgs(p) = AccountOf(x) /\ AccountState(p) = AccountOf(x)
<1>1. /\ x.rate \in 0..PPM /\ x.delay \in Nat /\ x.remaining \in Nat /\ x.saved \in Nat
      /\ x.referralPpm \in 0..MaxReferralPpm /\ x.daaPerYear = DaaPerYear
    BY DEF AccountStates, SoundAccount
<1>2. /\ controller.rate \in 0..PPM /\ controller.totalSaved \in Nat
      /\ controller.delay > 0 /\ controller.maxAccrual > 0 /\ DaaPerYear > 0
    BY SavingsFacts, SavingsConstants DEF ClientInv, TermsSound, ControllerStates
<1>3. /\ p.owner = x.owner /\ p.referrer = x.referrer /\ p.saved = x.saved
      /\ p.rate = x.rate /\ p.delayRemaining = x.delay /\ p.remaining = x.remaining
      /\ p.referralPpm = x.referralPpm
      /\ p.currentRate = controller.rate /\ p.totalSaved = controller.totalSaved
      /\ p.delay = controller.delay /\ p.maxAccrual = controller.maxAccrual
      /\ p.daaPerYear = DaaPerYear
    BY AccountFields
<1>4. ValidSavings(p)
    <2>1. p.saved >= 0 /\ p.delayRemaining >= 0 /\ p.remaining >= 0 /\ p.totalSaved >= 0
        BY <1>1, <1>2, <1>3
    <2>2. QED
        BY <1>1, <1>2, <1>3, <2>1, ValidWhen
<1>5. AccountArgs(p) = AccountOf(x) /\ AccountState(p) = AccountOf(x)
    BY <1>1, <1>3, AccountRead
<1>6. QED
    BY <1>4, <1>5

(* The Controller with another total: what refresh and close ask of it. *)
LEMMA TotalRead ==
    ASSUME ClientInv, NEW total \in Nat, controller' = [controller EXCEPT !.totalSaved = total],
           NEW p, p = [SavingsParams EXCEPT !.totalSaved = total]
    PROVE  ControllerState(p) = controller'
<1>1. controller \in ControllerStates
    BY SavingsFacts DEF ClientInv
<1>2. /\ controller' \in ControllerStates
      /\ controller'.governed = controller.governed /\ controller'.enabled = controller.enabled
      /\ controller'.seriesNonce = controller.seriesNonce
      /\ controller'.accountNonce = controller.accountNonce
      /\ controller'.totalSaved = total /\ controller'.rate = controller.rate
      /\ controller'.delay = controller.delay
      /\ controller'.maxAccrual = controller.maxAccrual
    BY <1>1 DEF ControllerStates
<1>3. /\ p.governed = controller.governed /\ p.enabled = controller.enabled
      /\ p.seriesNonce = controller.seriesNonce /\ p.accountNonce = controller.accountNonce
      /\ p.totalSaved = total /\ p.currentRate = controller.rate
      /\ p.delay = controller.delay /\ p.maxAccrual = controller.maxAccrual
    BY DEF SavingsParams
<1>4. /\ p.governed = controller'.governed /\ p.enabled = controller'.enabled
      /\ p.seriesNonce = controller'.seriesNonce /\ p.accountNonce = controller'.accountNonce
      /\ p.totalSaved = controller'.totalSaved /\ p.currentRate = controller'.rate
      /\ p.delay = controller'.delay /\ p.maxAccrual = controller'.maxAccrual
    BY <1>2, <1>3
<1>5. QED
    BY <1>2, <1>4, ControllerRead

LEMMA OpenIsBuilt ==
    ASSUME ClientInv, SavingsInv', NEW u \in Users, NEW v \in Users, NEW amount, NEW ppm, NEW c,
           OpenAccount(u, amount, v, ppm, c)
    PROVE  /\ \A b \in OpenedSlots : AccountBuilt(b)
           /\ UNCHANGED registry /\ controller'.governed = controller.governed
           /\ controller'.seriesNonce = controller.seriesNonce
           /\ controller'.delay = controller.delay
           /\ controller'.maxAccrual = controller.maxAccrual
<1> DEFINE a == controller.accountNonce + 1
           total == controller.totalSaved + amount
           r == [open |-> TRUE, owner |-> u, saved |-> amount, rate |-> controller.rate,
                 delay |-> controller.delay, remaining |-> controller.maxAccrual,
                 daaPerYear |-> DaaPerYear,
                 referrer |-> v, referralPpm |-> ppm, value |-> AccountValue, age |-> 0]
           next == [SavingsParams EXCEPT !.accountNonce = @ + 1, !.totalSaved = @ + r.saved]
<1>1. /\ controller \in ControllerStates /\ controller' \in ControllerStates
      /\ controller.accountNonce \in 0..NumAccounts
      /\ accounts \in [AccountSlots -> AccountStates]
      /\ accounts' \in [AccountSlots -> AccountStates]
      /\ accountToken \in [AccountSlots -> Nat]
    BY SavingsFacts DEF ClientInv, SavingsInv, SavingsTypes
<1>2. /\ controller.accountNonce < NumAccounts /\ ppm \in 0..MaxReferralPpm
      /\ controller' = [controller EXCEPT !.accountNonce = a, !.totalSaved = total]
      /\ accounts' = [accounts EXCEPT ![a] = r]
      /\ accountToken' = [accountToken EXCEPT ![a] = amount]
      /\ registry' = registry
    BY DEF OpenAccount
<1>3. a \in OpenedSlots /\ a \in AccountSlots /\ a > controller.accountNonce
    <2>1. a \in OpenedSlots /\ a > controller.accountNonce
        BY <1>1, <1>2, SavingsConstants DEF OpenedSlots
    <2>2. QED
        BY <2>1, SavingsConstants
<1>4. /\ next.governed = controller.governed /\ next.enabled = controller.enabled
      /\ next.seriesNonce = controller.seriesNonce /\ next.accountNonce = a
      /\ next.totalSaved = total /\ next.currentRate = controller.rate
      /\ next.delay = controller.delay /\ next.maxAccrual = controller.maxAccrual
    BY DEF SavingsParams
<1>5. r.saved = amount /\ SoundAccount(r)
    BY <1>1, <1>2 DEF SoundAccount, ControllerStates
<1> HIDE DEF a, total, r, next
<1>6. /\ controller'.governed = controller.governed /\ controller'.enabled = controller.enabled
      /\ controller'.seriesNonce = controller.seriesNonce /\ controller'.accountNonce = a
      /\ controller'.totalSaved = total /\ controller'.rate = controller.rate
      /\ controller'.delay = controller.delay
      /\ controller'.maxAccrual = controller.maxAccrual
    BY <1>1, <1>2 DEF ControllerStates
<1>7. accounts'[a] = r /\ accountToken'[a] = amount /\ r \in AccountStates
    <2>1. accounts'[a] = r /\ accountToken'[a] = amount
        BY <1>1, <1>2, <1>3
    <2>2. QED
        BY <1>1, <1>3, <2>1
<1>8. ~accounts[a].open
    BY <1>3, BlankSavings, SavingsFacts DEF ClientInv, BlankAccounts
<1>9. ASSUME NEW b \in OpenedSlots, b # a
      PROVE  AccountBuilt(b)
    <2>1. b \in AccountSlots
        BY SavingsConstants
    <2>2. accounts'[b] = accounts[b]
        BY <1>1, <1>2, <1>9, <2>1
    <2>3. QED
        BY <2>1, <2>2, AccountUntouched
<1>10. AccountBuilt(a)
    <2> DEFINE p == SavingsParams
               account == WithAccount(SavingsParams, r)
    <2>1. ValidSavings(p) /\ ControllerArgs(p) = controller
        BY ChainRead
    <2>2. /\ ValidSavings(account) /\ AccountArgs(account) = AccountOf(r)
          /\ AccountState(account) = AccountOf(r) /\ account.saved = amount
        BY <1>5, <1>7, AccountValid, AccountFields
    <2> HIDE DEF p, account
    <2>3. ControllerState(next) = controller'
        <3>1. /\ next.governed = controller'.governed /\ next.enabled = controller'.enabled
              /\ next.seriesNonce = controller'.seriesNonce
              /\ next.accountNonce = controller'.accountNonce
              /\ next.totalSaved = controller'.totalSaved
              /\ next.currentRate = controller'.rate
              /\ next.delay = controller'.delay /\ next.maxAccrual = controller'.maxAccrual
            BY <1>4, <1>6
        <3>2. QED
            BY <1>1, <3>1, ControllerRead
    <2>4. /\ ControllerOpenCall(p, next, account)
                 = Call(TRUE, controller,
                        [controller |-> controller', account |-> AccountOf(r)],
                        [account |-> amount])
          /\ CompileAccountState(account) = Artifact(TRUE, AccountOf(r))
        BY <2>1, <2>2, <2>3 DEF ControllerOpenCall, CompileAccountState, Artifact
    <2>5. OpenBuilt(a)
        BY <1>7, <2>4 DEF OpenBuilt, p, account, next
    <2>6. RefreshBuilt(a) /\ CloseBuilt(a)
        BY <1>8 DEF RefreshBuilt, CloseBuilt
    <2>7. QED
        BY <2>5, <2>6 DEF AccountBuilt
<1>11. QED
    BY <1>2, <1>6, <1>9, <1>10

LEMMA CloseIsBuilt ==
    ASSUME ClientInv, SavingsInv', NEW a \in AccountSlots, NEW policy, NEW c,
           CloseAccount(a, policy, c)
    PROVE  /\ \A b \in OpenedSlots : AccountBuilt(b)
           /\ UNCHANGED registry /\ controller'.governed = controller.governed
           /\ ControllerExecuteBuilt
           /\ controller'.delay > 0 /\ controller'.maxAccrual > 0
<1> DEFINE x == accounts[a]
           total == controller.totalSaved - x.saved
           p == SavingsParams
           account == WithAccount(SavingsParams, x)
           next == [SavingsParams EXCEPT !.totalSaved = @ - x.saved]
<1>1. /\ controller \in ControllerStates /\ controller.totalSaved \in Nat
      /\ controller.delay > 0 /\ controller.maxAccrual > 0
      /\ accounts \in [AccountSlots -> AccountStates]
      /\ x \in AccountStates /\ x.owner \in Users /\ x.saved \in Nat
      /\ kusd \in [Users -> Nat]
    BY SavingsFacts, AccountFacts DEF ClientInv, TermsSound
<1>2. /\ x.open /\ controller.totalSaved >= x.saved
      /\ IF policy = "execute_series" THEN SeriesExecuted(c)
         ELSE controller' = [controller EXCEPT !.totalSaved = total]
      /\ Conclude(c)
      /\ accounts' = [accounts EXCEPT ![a] = NoAccount]
      /\ kusd' = Credit(kusd, x.owner, x.saved)
      /\ registry' = registry
    BY DEF CloseAccount, ControllerCloses
<1>3. total \in Nat
    BY <1>1, <1>2
<1>4. next = [SavingsParams EXCEPT !.totalSaved = total]
    BY DEF SavingsParams
<1>5. ValidSavings(p) /\ ControllerArgs(p) = controller
    BY ChainRead
<1>6. ASSUME a \in OpenedSlots
      PROVE  /\ ValidSavings(account) /\ AccountArgs(account) = AccountOf(x)
             /\ account.saved = x.saved
    <2>1. SoundAccount(x)
        BY <1>2, <1>6 DEF ClientInv, AccountsSound
    <2>2. QED
        BY <1>1, <2>1, AccountValid, AccountFields
<1>7. kusd'[x.owner] - kusd[x.owner] = x.saved
    BY <1>1, <1>2 DEF Credit
<1> HIDE DEF x, total, p, account, next
<1>8. ASSUME policy # "execute_series"
      PROVE  controller' = [controller EXCEPT !.totalSaved = total]
    BY <1>2, <1>8
<1>9. ASSUME controller'.seriesNonce = controller.seriesNonce
      PROVE  ControllerCloseCall(p, next) = Call(TRUE, controller, controller', <<>>)
    <2>1. policy # "execute_series"
        BY <1>2, <1>9, ExecutedIsBuilt
    <2>2. ControllerState(next) = controller'
        BY <1>3, <1>4, <1>8, <2>1, TotalRead
    <2>3. QED
        BY <1>5, <2>2 DEF ControllerCloseCall
<1>10. ASSUME a \in OpenedSlots
       PROVE  AccountCloseCall(account, next)
                  = Call(TRUE, AccountOf(x), ControllerState(next),
                         [owner |-> kusd'[x.owner] - kusd[x.owner]])
    BY <1>6, <1>7, <1>10 DEF AccountCloseCall
<1>11. ASSUME a \in OpenedSlots
       PROVE  CloseBuilt(a)
    BY <1>9, <1>10, <1>11 DEF CloseBuilt, x, p, account, next
<1>12. ~accounts'[a].open
    BY <1>1, <1>2, BlankSavings
<1>13. ASSUME NEW b \in OpenedSlots
       PROVE  AccountBuilt(b)
    <2>1. CASE b = a
        BY <1>11, <1>12, <2>1 DEF AccountBuilt, OpenBuilt, RefreshBuilt
    <2>2. CASE b # a
        <3>1. accounts'[b] = accounts[b] /\ b \in AccountSlots
            BY <1>1, <1>2, <2>2, SavingsConstants
        <3>2. QED
            BY <3>1, AccountUntouched
    <2>3. QED
        BY <2>1, <2>2
<1>14. /\ controller'.governed = controller.governed /\ ControllerExecuteBuilt
       /\ controller'.delay > 0 /\ controller'.maxAccrual > 0
    <2>1. CASE policy = "execute_series"
        BY <1>2, <2>1, ExecutedIsBuilt
    <2>2. CASE policy # "execute_series"
        <3>1. /\ controller'.governed = controller.governed
              /\ controller'.seriesNonce = controller.seriesNonce
              /\ controller'.delay = controller.delay
              /\ controller'.maxAccrual = controller.maxAccrual
            BY <1>1, <1>8, <2>2 DEF ControllerStates
        <3>2. QED
            BY <1>1, <3>1, SeriesInForceUntouched
    <2>3. QED
        BY <2>1, <2>2
<1>15. QED
    BY <1>2, <1>13, <1>14

(* savings_cli's interest is the Account's. *)
LEMMA InterestIsYield ==
    ASSUME NEW a \in AccountSlots, NEW accrual,
           NEW p, p.saved = accounts[a].saved, p.rate = accounts[a].rate,
           p.referralPpm = accounts[a].referralPpm,
           p.daaPerYear = accounts[a].daaPerYear
    PROVE  /\ Interest(p, accrual).gross = AccountYield(a, accrual).gross
           /\ Interest(p, accrual).referral = AccountYield(a, accrual).fee
           /\ Interest(p, accrual).net = AccountYield(a, accrual).net
BY DEF Interest, AccountYield, Yield, MulDivFloor

LEMMA RefreshIsBuilt ==
    ASSUME ClientInv, SavingsInv', NEW a \in OpenedSlots, NEW accrual, NEW policy, NEW c,
           RefreshAccount(a, accrual, policy, c)
    PROVE  AccountBuilt(a)
<1> DEFINE x == accounts[a]
           yield == AccountYield(a, accrual)
           saved == x.saved + yield.net
           left == x.remaining - accrual
           r == [x EXCEPT !.saved = saved, !.delay = 0, !.remaining = left, !.age = 0]
           total == controller.totalSaved + yield.net
           p == SavingsParams
           account == WithAccount(SavingsParams, x)
           interest == Interest(account, accrual)
           refreshed == Refreshed(account, accrual)
           next == [SavingsParams EXCEPT !.totalSaved = @ + interest.net]
           nextKusd == reserve.kusd - interest.gross
<1>1. /\ controller \in ControllerStates /\ controller.totalSaved \in Nat
      /\ controller.delay > 0 /\ controller.maxAccrual > 0
      /\ accounts \in [AccountSlots -> AccountStates]
      /\ accountToken \in [AccountSlots -> Nat] /\ accountToken[a] = x.saved
      /\ x \in AccountStates /\ x.referrer \in Users /\ x.saved \in Nat /\ x.remaining \in Nat
      /\ kusd \in [Users -> Nat] /\ registry \in BOOLEAN
      /\ reserve \in ReserveStates /\ reserve.kusd \in Nat /\ reserveToken = reserve.kusd
      /\ a \in AccountSlots /\ SoundAccount(x)
    <2>1. a \in AccountSlots /\ x.open
        BY SavingsConstants DEF RefreshAccount
    <2>2. SoundAccount(x)
        BY <2>1 DEF ClientInv, AccountsSound
    <2>3. QED
        BY <2>1, <2>2, SavingsFacts, AccountFacts, ReserveFacts DEF ClientInv, TermsSound
<1>2. /\ x.open /\ ClaimDue(x, accrual) /\ yield.net > 0 /\ PaySavings(yield.gross)
      /\ IF policy = "execute_series" THEN SeriesExecuted(c)
         ELSE controller' = [controller EXCEPT !.totalSaved = total]
      /\ Conclude(c)
      /\ accounts' = [accounts EXCEPT ![a] = r]
      /\ accountToken' = [accountToken EXCEPT ![a] = @ + yield.net]
      /\ kusd' = Credit(kusd, x.referrer, yield.fee)
      /\ registry' = registry
    BY DEF RefreshAccount, AccountYield
<1>3. accrual \in Nat /\ accrual > 0 /\ left \in Nat
    BY <1>1, <1>2 DEF ClaimDue
<1>4. yield.gross \in Nat /\ yield.fee \in Nat /\ yield.net = yield.gross - yield.fee
    <2>1. a \in AccountSlots /\ accounts[a].daaPerYear > 0
        BY <1>1, SavingsConstants DEF SoundAccount
    <2>2. QED
        BY <1>3, <2>1, AccountYieldNat DEF ClientInv
<1>5. /\ ValidSavings(account) /\ AccountArgs(account) = AccountOf(x)
      /\ account.owner = x.owner /\ account.referrer = x.referrer /\ account.saved = x.saved
      /\ account.rate = x.rate /\ account.remaining = x.remaining
      /\ account.referralPpm = x.referralPpm /\ account.daaPerYear = DaaPerYear
      /\ account.currentRate = controller.rate /\ account.totalSaved = controller.totalSaved
      /\ account.delay = controller.delay /\ account.maxAccrual = controller.maxAccrual
      /\ x.daaPerYear = DaaPerYear
    BY <1>1, AccountValid, AccountFields DEF SoundAccount
<1>6. /\ interest.gross = yield.gross /\ interest.referral = yield.fee
      /\ interest.net = yield.net
    <2> HIDE DEF account
    <2>1. QED
        BY <1>1, <1>5, InterestIsYield DEF x, yield, interest
<1>7. /\ refreshed.saved = account.saved + interest.net /\ refreshed.delayRemaining = 0
      /\ refreshed.remaining = account.remaining - accrual
      /\ refreshed.owner = account.owner /\ refreshed.referrer = account.referrer
      /\ refreshed.rate = account.rate /\ refreshed.referralPpm = account.referralPpm
      /\ refreshed.daaPerYear = account.daaPerYear
      /\ refreshed.currentRate = account.currentRate
      /\ refreshed.totalSaved = account.totalSaved
      /\ refreshed.delay = account.delay /\ refreshed.maxAccrual = account.maxAccrual
    <2> HIDE DEF interest
    <2>1. QED
        BY DEF Refreshed, interest, WithAccount, SavingsParams
<1>8. next = [SavingsParams EXCEPT !.totalSaved = total]
    <2> HIDE DEF interest
    <2>1. next = [SavingsParams EXCEPT !.totalSaved = SavingsParams.totalSaved + interest.net]
        OBVIOUS
    <2>2. SavingsParams.totalSaved + interest.net = total
        BY <1>6, ChainFields
    <2>3. QED
        BY <2>1, <2>2
<1>9. p.named = registry /\ ValidSavings(p) /\ ControllerArgs(p) = controller
    BY ChainFields, ChainRead
<1> HIDE DEF yield, p, account, interest, refreshed, next
<1>10. /\ yield.net \in Nat /\ saved \in Nat /\ total \in Nat
       /\ saved = refreshed.saved /\ left = refreshed.remaining
    BY <1>1, <1>2, <1>4, <1>5, <1>6, <1>7
<1> HIDE DEF x, saved, left, total
<1>11. /\ r.open = x.open /\ r.owner = x.owner /\ r.saved = saved /\ r.rate = x.rate
       /\ r.delay = 0 /\ r.remaining = left /\ r.referrer = x.referrer
       /\ r.referralPpm = x.referralPpm /\ r.daaPerYear = x.daaPerYear
    BY <1>1 DEF AccountStates
<1> HIDE DEF r
<1>12. AccountState(refreshed) = AccountOf(r)
    <2>1. /\ refreshed.owner = r.owner /\ refreshed.saved = r.saved /\ refreshed.rate = r.rate
          /\ refreshed.delayRemaining = r.delay /\ refreshed.remaining = r.remaining
          /\ refreshed.referrer = r.referrer /\ refreshed.referralPpm = r.referralPpm
          /\ refreshed.daaPerYear = r.daaPerYear
        BY <1>5, <1>7, <1>10, <1>11
    <2>2. QED
        BY <2>1, AccountRead
<1>13. ValidSavings(refreshed)
    <2>1. /\ refreshed.rate \in 0..PPM /\ refreshed.referralPpm \in 0..MaxReferralPpm
          /\ refreshed.currentRate \in 0..PPM
          /\ refreshed.delay > 0 /\ refreshed.maxAccrual > 0 /\ refreshed.daaPerYear > 0
        BY <1>1, <1>5, <1>7, SavingsConstants DEF SoundAccount, ControllerStates
    <2>2. /\ refreshed.saved >= 0 /\ refreshed.delayRemaining >= 0 /\ refreshed.remaining >= 0
          /\ refreshed.totalSaved >= 0
        BY <1>1, <1>3, <1>5, <1>7, <1>10
    <2>3. QED
        BY <2>1, <2>2, ValidWhen
<1>14. /\ accounts'[a] = r /\ accountToken'[a] = saved
       /\ kusd'[x.referrer] - kusd[x.referrer] = yield.fee
    <2>1. accounts'[a] = r /\ accountToken'[a] = accountToken[a] + yield.net
        BY <1>1, <1>2
    <2>2. kusd'[x.referrer] = kusd[x.referrer] + yield.fee
        BY <1>1, <1>2 DEF Credit
    <2>3. QED
        BY <1>1, <1>4, <2>1, <2>2 DEF saved
<1>15. registry = TRUE /\ reserve'.kusd = nextKusd /\ reserveToken' = nextKusd
    <2> DEFINE rest == reserve.kusd - yield.gross
    <2>1. /\ registry /\ reserve' = [reserve EXCEPT !.kusd = rest]
          /\ reserveToken' = reserveToken - yield.gross
        BY <1>2 DEF PaySavings
    <2>2. reserveToken' = rest /\ rest = nextKusd
        BY <1>1, <1>6, <2>1
    <2> HIDE DEF rest
    <2>3. reserve'.kusd = rest
        BY <1>1, <2>1 DEF ReserveStates
    <2>4. QED
        BY <1>1, <2>1, <2>2, <2>3
<1> HIDE DEF nextKusd
<1>16. x.remaining - r.remaining = accrual
    BY <1>1, <1>3, <1>11 DEF left
<1>17. RegistryPreserveCall(p) = Call(TRUE, registry, registry', <<>>)
    BY <1>2, <1>15 DEF RegistryPreserveCall
<1>18. AccountRefreshCall(account, refreshed, interest.referral)
           = Call(TRUE, AccountOf(x), AccountOf(r),
                  [account |-> saved, referrer |-> yield.fee])
    BY <1>5, <1>6, <1>10, <1>12 DEF AccountRefreshCall
<1>19. ReserveRefreshCall(account, reserve.kusd, nextKusd, refreshed)
           = Call(TRUE, reserve.kusd, [reserve |-> reserve'.kusd, account |-> AccountOf(r)],
                  [reserve |-> reserveToken'])
    BY <1>5, <1>12, <1>13, <1>15 DEF ReserveRefreshCall
<1>20. ASSUME policy # "execute_series"
       PROVE  controller' = [controller EXCEPT !.totalSaved = total]
    BY <1>2, <1>20
<1>21. ASSUME controller'.seriesNonce = controller.seriesNonce
       PROVE  ControllerRefreshCall(p, next, refreshed)
                  = Call(TRUE, controller,
                         [controller |-> controller', account |-> AccountOf(r)], <<>>)
    <2>1. policy # "execute_series"
        BY <1>2, <1>21, ExecutedIsBuilt
    <2>2. ControllerState(next) = controller'
        BY <1>8, <1>10, <1>20, <2>1, TotalRead
    <2>3. QED
        BY <1>9, <1>12, <2>2 DEF ControllerRefreshCall
<1>22. RefreshBuilt(a)
    <2>1. accounts[a] = x /\ accounts[a].remaining - accounts'[a].remaining = accrual
        BY <1>14, <1>16 DEF x
    <2>2. QED
        BY <1>14, <1>17, <1>18, <1>19, <1>21, <2>1
           DEF RefreshBuilt, p, account, interest, refreshed, next, nextKusd
<1>23. accounts'[a].open = accounts[a].open
    BY <1>11, <1>14 DEF x
<1>24. QED
    BY <1>22, <1>23 DEF AccountBuilt, OpenBuilt, CloseBuilt

(* The rest of a refresh, whoever made the Account. *)
LEMMA RefreshesOnly ==
    ASSUME ClientInv, NEW a \in AccountSlots, NEW accrual, NEW policy, NEW c,
           RefreshAccount(a, accrual, policy, c)
    PROVE  /\ UNCHANGED registry /\ controller'.governed = controller.governed
           /\ ControllerExecuteBuilt
           /\ controller'.delay > 0 /\ controller'.maxAccrual > 0
           /\ \A b \in OpenedSlots : b # a => accounts'[b] = accounts[b]
<1>1. /\ controller \in ControllerStates
      /\ controller.delay > 0 /\ controller.maxAccrual > 0
      /\ accounts \in [AccountSlots -> AccountStates]
    BY SavingsFacts DEF ClientInv, TermsSound
<1>2. \E r : accounts' = [accounts EXCEPT ![a] = r]
    BY Zenon DEF RefreshAccount
<1>3. \A b \in OpenedSlots : b # a => accounts'[b] = accounts[b]
    BY <1>1, <1>2, SavingsConstants
<1>4. Conclude(c) /\ registry' = registry
    BY DEF RefreshAccount
<1>5. CASE policy = "execute_series"
    <2>1. SeriesExecuted(c)
        BY <1>5 DEF RefreshAccount
    <2>2. QED
        BY <1>3, <1>4, <2>1, ExecutedIsBuilt
<1>6. CASE policy # "execute_series"
    <2>1. PICK total : controller' = [controller EXCEPT !.totalSaved = total]
        BY <1>6 DEF RefreshAccount
    <2>2. /\ controller'.governed = controller.governed
          /\ controller'.seriesNonce = controller.seriesNonce
          /\ controller'.delay = controller.delay
          /\ controller'.maxAccrual = controller.maxAccrual
        BY <1>1, <2>1 DEF ControllerStates
    <2>3. QED
        BY <1>1, <1>3, <1>4, <2>2, SeriesInForceUntouched
<1>7. QED
    BY <1>5, <1>6

-----------------------------------------------------------------------------
(* Every step *)

AllSavingsBuilt ==
    /\ DeploymentBuilt /\ ProposeSeriesBuilt /\ ActivateSeriesBuilt /\ ExecuteSeriesBuilt
    /\ \A a \in OpenedSlots : OpenBuilt(a) /\ RefreshBuilt(a) /\ CloseBuilt(a)

(* What the two halves of a transaction do, the proposal's and the         *)
(* Controller's with the Accounts'.                                        *)
SeriesHalf ==
    /\ ProposeSeriesBuilt /\ ActivateSeriesBuilt /\ GovernorExecuteBuilt
    /\ governor'.active # 0 =>
           governor'.active = governor'.proposalNonce /\ Sound(series'.terms)
ControllerHalf ==
    /\ DeploymentBuilt /\ ControllerExecuteBuilt
    /\ \A a \in OpenedSlots : AccountBuilt(a)
    /\ controller'.delay > 0 /\ controller'.maxAccrual > 0

LEMMA Halves ==
    ASSUME SeriesHalf, ControllerHalf
    PROVE  AllSavingsBuilt /\ TermsSound'
<1>1. ExecuteSeriesBuilt
    BY BothExecute DEF SeriesHalf, ControllerHalf
<1>2. QED
    BY <1>1 DEF SeriesHalf, ControllerHalf, AllSavingsBuilt, AccountBuilt, TermsSound

LEMMA ControllerIdle ==
    ASSUME ClientInv, UNCHANGED <<registry, controller, accounts>>
    PROVE  ControllerHalf
BY DeploymentUntouched, SeriesInForceUntouched, AccountUntouched, SavingsConstants
   DEF ControllerHalf, ClientInv, TermsSound

LEMMA SeriesIdle ==
    ASSUME ClientInv, governor' = governor, series'.terms = series.terms,
           series'.stage = series.stage
    PROVE  SeriesHalf
<1>1. ProposeSeriesBuilt /\ GovernorExecuteBuilt
    BY DEF ProposeSeriesBuilt, GovernorExecuteBuilt
<1>2. ActivateSeriesBuilt
    BY DEF ActivateSeriesBuilt
<1>3. Sound(series'.terms) = Sound(series.terms)
    OBVIOUS
<1>4. QED
    BY <1>1, <1>2, <1>3 DEF SeriesHalf, ClientInv, TermsSound

LEMMA ConcludeHalf ==
    ASSUME ClientInv, SavingsInv', NEW c, Conclude(c)
    PROVE  SeriesHalf
<1>1. governor.active # 0 => governor.active = governor.proposalNonce /\ Sound(series.terms)
    BY DEF ClientInv, TermsSound
<1>2. QED
    BY <1>1, ConcludeIsBuilt DEF SeriesHalf

LEMMA SeriesStepBuilt ==
    ASSUME ClientInv, SavingsInv', SeriesStep
    PROVE  SeriesHalf /\ ControllerHalf
<1>1. UNCHANGED <<registry, controller, accounts>>
    BY DEF SeriesStep, ProposeSeries, ActivateSeries, CancelSeries, VetoSeries, accountVars
<1>2. ControllerHalf
    BY <1>1, ControllerIdle
<1>3. ASSUME NEW u \in Users, NEW terms \in SeriesTerms, ProposeSeries(u, terms)
      PROVE  SeriesHalf
    <2>1. governor.active = 0 /\ series.stage # "pending"
        BY <1>3, SavingsFacts, BlankSavings DEF ProposeSeries, ClientInv, SeriesBacked
    <2>2. governor'.executionNonce = governor.executionNonce
        BY <1>3, SavingsFacts DEF ProposeSeries, ClientInv, GovernorStates
    <2>3. QED
        BY <1>3, <2>1, <2>2, ProposeSeriesIsBuilt
           DEF SeriesHalf, ActivateSeriesBuilt, GovernorExecuteBuilt
<1>4. CASE ActivateSeries
    <2>1. governor' = governor
        BY <1>4 DEF ActivateSeries
    <2>2. ProposeSeriesBuilt /\ GovernorExecuteBuilt
        BY <2>1 DEF ProposeSeriesBuilt, GovernorExecuteBuilt
    <2>3. ActivateSeriesBuilt /\ series'.terms = series.terms
        BY <1>4, ActivateSeriesIsBuilt
    <2>4. governor'.active # 0 => governor'.active = governor'.proposalNonce /\ Sound(series'.terms)
        BY <2>1, <2>3 DEF ClientInv, TermsSound
    <2>5. QED
        BY <1>2, <2>2, <2>3, <2>4 DEF SeriesHalf
<1>5. CASE CancelSeries
    <2>1. Conclude(Alone)
        BY <1>5 DEF CancelSeries
    <2>2. SeriesHalf
        BY <2>1, ConcludeHalf
    <2>3. QED
        BY <1>2, <2>2
<1>6. ASSUME NEW voters, VetoSeries(voters)
      PROVE  SeriesHalf
    <2>1. governor' = [governor EXCEPT !.active = 0] /\ series' = NoSeries
        BY <1>6 DEF VetoSeries
    <2>2. /\ governor'.active = 0 /\ governor'.proposalNonce = governor.proposalNonce
          /\ governor'.executionNonce = governor.executionNonce
          /\ series'.stage # "activated"
        BY <2>1, SavingsFacts, BlankSavings DEF ClientInv, GovernorStates
    <2>3. QED
        BY <2>2 DEF SeriesHalf, ProposeSeriesBuilt, ActivateSeriesBuilt, GovernorExecuteBuilt
<1>7. QED
    BY <1>2, <1>3, <1>4, <1>5, <1>6 DEF SeriesStep

LEMMA AccountStepBuilt ==
    ASSUME ClientInv, SavingsInv', NEW c, AccountStep(c)
    PROVE  SeriesHalf /\ ControllerHalf
<1>1. Conclude(c)
    BY AccountStepConcludes
<1>2. SeriesHalf
    BY <1>1, ConcludeHalf
<1>3. controller.delay > 0 /\ controller.maxAccrual > 0
    BY DEF ClientInv, TermsSound
<1>4. ASSUME accounts' = accounts, NEW a \in OpenedSlots
      PROVE  AccountBuilt(a)
    BY <1>4, AccountUntouched, SavingsConstants
<1>5. CASE InitializeGovernance(c)
    <2>1. accounts' = accounts
        BY <1>5 DEF InitializeGovernance
    <2>2. ControllerHalf
        BY <1>3, <1>4, <1>5, <2>1, InitializeGovernanceIsBuilt DEF ControllerHalf
    <2>3. QED
        BY <1>2, <2>2
<1>6. CASE ExecuteSeries(c)
    <2>1. accounts' = accounts /\ registry' = registry /\ SeriesExecuted(c)
        BY <1>6 DEF ExecuteSeries
    <2>2. ControllerHalf
        BY <1>1, <1>4, <2>1, ExecutedIsBuilt, DeploymentUntouched DEF ControllerHalf
    <2>3. QED
        BY <1>2, <2>2
<1>7. ASSUME NEW u \in Users, NEW v \in Users, NEW amount, NEW ppm,
             OpenAccount(u, amount, v, ppm, c)
      PROVE  ControllerHalf
    BY <1>3, <1>7, OpenIsBuilt, DeploymentUntouched, SeriesInForceUntouched DEF ControllerHalf
<1>8. ASSUME NEW a \in AccountSlots, NEW accrual, NEW policy, RefreshAccount(a, accrual, policy, c)
      PROVE  ControllerHalf
    <2>1. ASSUME NEW b \in OpenedSlots
          PROVE  AccountBuilt(b)
        <3>1. CASE b = a
            BY <1>8, <3>1, RefreshIsBuilt
        <3>2. CASE b # a
            <4>1. accounts'[b] = accounts[b] /\ b \in AccountSlots
                BY <1>8, <3>2, RefreshesOnly, SavingsConstants
            <4>2. QED
                BY <4>1, AccountUntouched
        <3>3. QED
            BY <3>1, <3>2
    <2>2. QED
        BY <1>8, <2>1, RefreshesOnly, DeploymentUntouched DEF ControllerHalf
<1>9. ASSUME NEW a \in AccountSlots, NEW policy, CloseAccount(a, policy, c)
      PROVE  ControllerHalf
    BY <1>9, CloseIsBuilt, DeploymentUntouched DEF ControllerHalf
<1>10. QED
    BY <1>2, <1>5, <1>6, <1>7, <1>8, <1>9 DEF AccountStep

LEMMA ClientStep ==
    ASSUME ClientInv, [SavingsNext]_allVars
    PROVE  ClientInv' /\ AllSavingsBuilt
<1>1. SavingsInv' /\ AccountsSound'
    BY SavingsStep, AccountsSoundStep DEF ClientInv, SavingsKeeps
<1>2. CASE SavingsTick
    <2>1. UNCHANGED <<registry, governor, controller>>
        BY <1>2 DEF SavingsTick
    <2>2. series'.terms = series.terms /\ series'.stage = series.stage
        BY <1>2, SavingsFacts DEF SavingsTick, ClientInv, SeriesStates
    <2>3. ASSUME NEW a \in OpenedSlots
          PROVE  AccountBuilt(a)
        <3>1. a \in AccountSlots /\ accounts[a] \in AccountStates
            BY AccountFacts, SavingsConstants DEF ClientInv
        <3>2. PICK age : accounts'[a] = [accounts[a] EXCEPT !.age = age]
            BY <1>2, <3>1 DEF SavingsTick
        <3>3. QED
            BY <3>1, <3>2, AccountUntouched DEF AccountStates
    <2>4. ControllerHalf
        BY <2>1, <2>3, DeploymentUntouched, SeriesInForceUntouched
           DEF ControllerHalf, ClientInv, TermsSound
    <2>5. SeriesHalf
        BY <2>1, <2>2, SeriesIdle
    <2>6. QED
        BY <1>1, <2>4, <2>5, Halves DEF ClientInv
<1>3. CASE InitializeRegistry
    <2>1. UNCHANGED <<governor, series, controller, accounts>>
        BY <1>3 DEF InitializeRegistry, accountVars
    <2>2. \A a \in OpenedSlots : AccountBuilt(a)
        BY <2>1, AccountUntouched, SavingsConstants
    <2>3. ControllerHalf
        BY <1>3, <2>1, <2>2, InitializeRegistryIsBuilt, SeriesInForceUntouched
           DEF ControllerHalf, ClientInv, TermsSound
    <2>4. SeriesHalf
        BY <2>1, SeriesIdle
    <2>5. QED
        BY <1>1, <2>3, <2>4, Halves DEF ClientInv
<1>4. CASE SeriesStep
    BY <1>1, <1>4, SeriesStepBuilt, Halves DEF ClientInv
<1>5. ASSUME NEW c, AccountStep(c)
      PROVE  ClientInv' /\ AllSavingsBuilt
    BY <1>1, <1>5, AccountStepBuilt, Halves DEF ClientInv
<1>6. CASE \/ DelegationStep /\ UNCHANGED savingsVars
           \/ ReserveStep /\ UNCHANGED <<governanceVars, savingsVars>>
           \/ UNCHANGED allVars
    <2>1. UNCHANGED <<registry, governor, series, controller, accounts>>
        BY <1>6 DEF allVars, savingsVars, seriesVars, accountVars
    <2>2. SeriesHalf /\ ControllerHalf
        BY <2>1, SeriesIdle, ControllerIdle
    <2>3. QED
        BY <1>1, <2>2, Halves DEF ClientInv
<1>7. ASSUME NEW a, NEW u, NEW amount, NEW v, NEW ppm, NEW terms,
             CreateAccount(a, u, amount, v, ppm, terms)
      PROVE  ClientInv' /\ AllSavingsBuilt
    <2>1. /\ UNCHANGED <<registry, governor, series, controller>>
          /\ a \notin OpenedSlots /\ \E r : accounts' = [accounts EXCEPT ![a] = r]
        BY <1>7, Zenon DEF CreateAccount, seriesVars
    <2>2. ASSUME NEW b \in OpenedSlots
          PROVE  AccountBuilt(b)
        <3>1. b \in AccountSlots /\ accounts'[b] = accounts[b]
            BY <2>1, SavingsFacts, SavingsConstants DEF ClientInv
        <3>2. QED
            BY <3>1, AccountUntouched
    <2>3. ControllerHalf
        BY <2>1, <2>2, DeploymentUntouched, SeriesInForceUntouched
           DEF ControllerHalf, ClientInv, TermsSound
    <2>4. SeriesHalf
        BY <2>1, SeriesIdle
    <2>5. QED
        BY <1>1, <2>3, <2>4, Halves DEF ClientInv
<1>8. QED
    BY <1>2, <1>3, <1>4, <1>5, <1>6, <1>7 DEF SavingsNext

LEMMA ClientInvariant == SavingsSpec => []ClientInv
<1>1. SavingsInit => ClientInv
    <2>1. SUFFICES ASSUME SavingsInit
                   PROVE  ClientInv
        OBVIOUS
    <2>2. /\ controller = [governed |-> FALSE, enabled |-> FALSE, seriesNonce |-> 0,
                           accountNonce |-> 0, totalSaved |-> 0, rate |-> 0, delay |-> 1,
                           maxAccrual |-> 1]
          /\ governor = [proposalNonce |-> 0, executionNonce |-> 0, active |-> 0]
        BY <2>1 DEF SavingsInit
    <2>3. controller.delay > 0 /\ controller.maxAccrual > 0 /\ governor.active = 0
        BY <2>2
    <2>4. TermsSound
        BY <2>3 DEF TermsSound
    <2>5. SavingsInv
        BY <2>1, InitialSavings
    <2>6. AccountsSound
        BY <2>1, BlankSavings, SavingsConstants DEF AccountsSound, SavingsInit
    <2>7. QED
        BY <2>4, <2>5, <2>6 DEF ClientInv
<1>2. ClientInv /\ [SavingsNext]_allVars => ClientInv'
    BY ClientStep
<1>3. QED
    BY <1>1, <1>2, PTL DEF SavingsSpec

(* Whatever transactions pair the covenants and whatever terms are voted,  *)
(* the client can build each of them but a cancellation, a veto and what   *)
(* is done with an Account the Controller never opened, and the interest,  *)
(* totals and successors it computes beforehand are the ones the covenants *)
(* require, to the last atom.                                              *)
THEOREM SavingsClientAgrees == SavingsSpec => SavingsBuilt
<1>1. ClientInv /\ [SavingsNext]_allVars =>
          [/\ DeploymentBuilt /\ ProposeSeriesBuilt /\ ActivateSeriesBuilt
           /\ ExecuteSeriesBuilt
           /\ \A a \in OpenedSlots : OpenBuilt(a) /\ RefreshBuilt(a) /\ CloseBuilt(a)]_allVars
    BY ClientStep DEF AllSavingsBuilt
<1>2. QED
    BY <1>1, ClientInvariant, PTL DEF SavingsSpec, SavingsBuilt
=============================================================================
