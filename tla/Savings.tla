------------------------------ MODULE Savings ------------------------------
(***************************************************************************)
(* KUSD saved for interest: the SavingsRegistry and SavingsController      *)
(* singletons, the SavingsGovernor with the SavingsProposal it has in      *)
(* flight, SavingsAccounts, and the EquityReserve that pays.  It shares    *)
(* the Reserve, the KPS and their delegations with Governance, whose       *)
(* Modules and proposals rest here.                                        *)
(*                                                                         *)
(* The Controller and the Reserve know an Account by its template and the  *)
(* ids it carries, not by the transaction that made it.  Accounts of the   *)
(* slots 1..NumAccounts are those the Controller opened, by accountNonce;  *)
(* the others are UTXOs of that template that a wallet made by itself.     *)
(*                                                                         *)
(* An action is one transaction.  Several covenants ask only that another  *)
(* one is spent, not by which policy: an Account may be refreshed or       *)
(* closed while the Controller executes a series, and a proposal may be    *)
(* executed while the Controller does something else.  So the actions take *)
(* the Controller's policy and the conclusion of a proposal as parameters. *)
(***************************************************************************)
EXTENDS Governance

CONSTANTS
    NumAccounts,            \* bound: accounts opened in a behaviour
    NumOtherAccounts,       \* bound: Accounts that wallets make, at a time
    OtherTerms,             \* terms such wallets choose for themselves
    MaxSeries,              \* bound: series proposals made in a behaviour
    SeriesTerms,            \* terms proposers choose
    SavedAmounts,           \* KUSD amounts savers choose
    ReferralPpms,           \* referral shares savers choose
    MaxAccountAge,          \* Account ages saturate at the largest a refresh asks for
    DaaPerYear,
    AccountValue,           \* sompi an Account holds
    SeriesVotingDelay,
    SeriesExecutionWindow,
    SeriesVetoThresholdPpm,
    SeriesDeposit           \* sompi

TotalAccounts == NumAccounts + NumOtherAccounts
AccountSlots == 1..TotalAccounts
OpenedSlots == 1..NumAccounts
MaxReferralPpm == 250000

Terms == [rate : Nat, delay : Nat, maxAccrual : Nat, daaPerYear : Nat]

ASSUME SavingsAssumption ==
    /\ NumAccounts \in Nat /\ NumOtherAccounts \in Nat /\ MaxSeries \in Nat
    /\ OtherTerms \subseteq Terms
    /\ SeriesTerms \subseteq Terms
    /\ SavedAmounts \subseteq Nat \ {0}
    /\ ReferralPpms \subseteq Nat
    /\ MaxAccountAge \in Nat
    /\ \A terms \in SeriesTerms \cup OtherTerms : terms.delay + terms.maxAccrual <= MaxAccountAge
    /\ DaaPerYear \in Nat \ {0}
    /\ AccountValue \in Nat
    /\ SeriesVotingDelay \in Nat /\ SeriesExecutionWindow \in Nat
    /\ SeriesVetoThresholdPpm \in 1..PPM
    /\ SeriesDeposit \in Nat

VARIABLES
    registry,      \* SavingsRegistry: whether it names the Controller
    controller,    \* SavingsController; governed: its governanceId is set
    governor,      \* SavingsGovernor: [proposalNonce, executionNonce, active]
    series,        \* the SavingsProposal UTXO, its value being the deposit
    accounts,      \* SavingsAccount UTXOs, those opened by accountNonce
    accountToken   \* the KUSD each Account's covenant id owns

seriesVars == <<registry, governor, series>>
accountVars == <<controller, accounts, accountToken>>
savingsVars == <<seriesVars, accountVars>>
allVars == <<vars, savingsVars>>

NoTerms == [rate |-> 0, delay |-> 0, maxAccrual |-> 0, daaPerYear |-> 0]
NoSeries == [stage |-> "none", proposer |-> 1, nonce |-> 0, terms |-> NoTerms,
             deposit |-> 0, age |-> 0]
NoAccount == [open |-> FALSE, owner |-> 1, saved |-> 0, rate |-> 0, delay |-> 0,
              remaining |-> 0, daaPerYear |-> 0, referrer |-> 1, referralPpm |-> 0,
              value |-> 0, age |-> 0]

MaxSeriesAge == Maximum(SeriesVotingDelay, SeriesExecutionWindow)

SavingsTypeOK ==
    /\ TypeOK
    /\ registry \in BOOLEAN
    /\ controller \in [governed : BOOLEAN, enabled : BOOLEAN, seriesNonce : Nat,
                       accountNonce : 0..NumAccounts, totalSaved : Nat, rate : 0..PPM,
                       delay : Nat, maxAccrual : Nat]
    /\ governor \in [proposalNonce : 0..MaxSeries, executionNonce : Nat, active : 0..MaxSeries]
    /\ series \in [stage : {"none", "pending", "activated"}, proposer : Users,
                   nonce : 0..MaxSeries, terms : Terms, deposit : Nat, age : 0..MaxSeriesAge]
    /\ accounts \in [AccountSlots -> [open : BOOLEAN, owner : Users, saved : Nat, rate : Nat,
                                      delay : Nat, remaining : Nat, daaPerYear : Nat,
                                      referrer : Users, referralPpm : Nat, value : Nat,
                                      age : 0..MaxAccountAge]]
    /\ accountToken \in [AccountSlots -> Nat]

(* Genesis: Savings is deployed and disabled, with a delay and a largest   *)
(* accrual the client insists are positive.                                *)
SavingsInit ==
    /\ Init
    /\ registry = FALSE
    /\ controller = [governed |-> FALSE, enabled |-> FALSE, seriesNonce |-> 0,
                     accountNonce |-> 0, totalSaved |-> 0, rate |-> 0, delay |-> 1,
                     maxAccrual |-> 1]
    /\ governor = [proposalNonce |-> 0, executionNonce |-> 0, active |-> 0]
    /\ series = NoSeries
    /\ accounts = [a \in AccountSlots |-> NoAccount]
    /\ accountToken = [a \in AccountSlots |-> 0]

-----------------------------------------------------------------------------
(* SavingsGovernor and SavingsProposal *)

(* propose_series: the Proposal holds the deposit; there is no fee.  The   *)
(* terms' daaPerYear need not be the Controller's.                         *)
ProposeSeries(u, terms) ==
    /\ governor.active = 0
    /\ governor.proposalNonce < MaxSeries
    /\ terms.rate \in 0..PPM
    /\ terms.delay > 0 /\ terms.maxAccrual > 0 /\ terms.daaPerYear > 0
    /\ SeriesDeposit <= kas[u]
    /\ governor' = [governor EXCEPT !.proposalNonce = @ + 1,
                                    !.active = governor.proposalNonce + 1]
    /\ series' = [stage |-> "pending", proposer |-> u, nonce |-> governor.proposalNonce + 1,
                  terms |-> terms, deposit |-> SeriesDeposit, age |-> 0]
    /\ kas' = Debit(kas, u, SeriesDeposit)
    /\ UNCHANGED <<kusd, reserve, reserveToken, feeToken, shares, governanceVars, registry,
                   accountVars>>

(* Mutant: no voting delay. *)
ActivateSeriesEarly ==
    /\ series.stage = "pending"
    /\ series' = [series EXCEPT !.stage = "activated", !.age = 0]
    /\ UNCHANGED <<vars, registry, governor, accountVars>>

(* activate: after the voting delay, by anyone. *)
ActivateSeries ==
    /\ series.stage = "pending"
    /\ series.age >= SeriesVotingDelay
    /\ series' = [series EXCEPT !.stage = "activated", !.age = 0]
    /\ UNCHANGED <<vars, registry, governor, accountVars>>

(* How a proposal may end after its activation: a policy of the Governor   *)
(* with an entry of the Proposal.  Only executePolicy and execute_series   *)
(* want the Controller in the transaction, and neither asks what it does.  *)
Conclusions == [governor : {"execute_series", "cancel_expired"},
                entry : {"executePolicy", "cancelExpiredPolicy"}]
Alone == [governor |-> "cancel_expired", entry |-> "cancelExpiredPolicy"]
Nothing == [governor |-> "none", entry |-> "none"]

ActiveSeriesSpent == governor.active # 0 /\ governor.active = series.nonce

(* Mutant: a proposal is cancelled while it may be executed, instead of    *)
(* afterwards.                                                             *)
ConcludeInWindow(c) ==
    IF c = Nothing THEN UNCHANGED <<governor, series>>
    ELSE /\ ActiveSeriesSpent
         /\ series.stage = "activated"
         /\ c.entry = "cancelExpiredPolicy" => series.age < SeriesExecutionWindow
         /\ governor' = [governor EXCEPT !.active = 0,
                                         !.executionNonce = IF c.governor = "execute_series"
                                                            THEN @ + 1 ELSE @]
         /\ series' = NoSeries

(* execute_series and cancel_expired of the Governor, executePolicy and    *)
(* cancelExpiredPolicy of the Proposal.  cancel_expired looks at neither   *)
(* the age nor the entry.                                                  *)
Conclude(c) ==
    IF c = Nothing THEN UNCHANGED <<governor, series>>
    ELSE /\ ActiveSeriesSpent
         /\ series.stage = "activated"
         /\ c.entry = "cancelExpiredPolicy" => series.age >= SeriesExecutionWindow
         /\ governor' = [governor EXCEPT !.active = 0,
                                         !.executionNonce = IF c.governor = "execute_series"
                                                            THEN @ + 1 ELSE @]
         /\ series' = NoSeries

(* The deposit of a proposal that ends in the transaction. *)
Refunded(balances, c) ==
    IF c = Nothing THEN balances ELSE Credit(balances, series.proposer, series.deposit)

(* The end of a proposal without the Controller. *)
CancelSeries ==
    /\ Conclude(Alone)
    /\ kas' = Refunded(kas, Alone)
    /\ UNCHANGED <<kusd, reserve, reserveToken, feeToken, shares, governanceVars, registry,
                   accountVars>>

(* veto_series: as VetoModule, but there is no fee and the Reserve, spent  *)
(* with governance_checkpoint, stays as it is.                             *)
VetoSeries(voters) ==
    /\ ActiveSeriesSpent
    /\ series.stage = "pending"
    /\ VetoCarries(voters, SeriesVetoThresholdPpm)
    /\ KpsRenewed(voters)
    /\ CastVotes(voters)
    /\ governor' = [governor EXCEPT !.active = 0]
    /\ series' = NoSeries
    /\ kas' = Credit(kas, series.proposer, series.deposit)
    /\ UNCHANGED <<kusd, reserve, reserveToken, feeToken, root, modules, governance, proposal,
                   escrow, registry, accountVars>>

-----------------------------------------------------------------------------
(* SavingsRegistry and SavingsController *)

(* initialize of the registry, once and by the deployer's key. *)
InitializeRegistry ==
    /\ ~registry
    /\ registry' = TRUE
    /\ UNCHANGED <<vars, governor, series, accountVars>>

(* initialize_governance: the Controller learns its Governor, once. *)
InitializeGovernance(c) ==
    /\ ~controller.governed
    /\ ~controller.enabled
    /\ controller' = [controller EXCEPT !.governed = TRUE]
    /\ Conclude(c)
    /\ kas' = Refunded(kas, c)
    /\ UNCHANGED <<kusd, reserve, reserveToken, feeToken, shares, governanceVars, registry,
                   accounts, accountToken>>

(* The Controller's execute_series wants the Governor's active proposal,   *)
(* activated, in the transaction that ends it, and takes over its terms.   *)
SeriesExecuted(c) ==
    /\ c # Nothing
    /\ controller.governed
    /\ series.terms.rate \in 0..PPM
    /\ series.terms.delay > 0 /\ series.terms.maxAccrual > 0
    /\ series.terms.daaPerYear = DaaPerYear
    /\ controller' = [controller EXCEPT !.enabled = series.terms.rate > 0,
                                        !.seriesNonce = @ + 1,
                                        !.rate = series.terms.rate,
                                        !.delay = series.terms.delay,
                                        !.maxAccrual = series.terms.maxAccrual]

ExecuteSeries(c) ==
    /\ SeriesExecuted(c)
    /\ Conclude(c)
    /\ kas' = Refunded(kas, c)
    /\ UNCHANGED <<kusd, reserve, reserveToken, feeToken, shares, governanceVars, registry,
                   accounts, accountToken>>

(* open_account: the Account keeps the terms of the series in force; the   *)
(* saver chooses the referrer and, up to the maximum, its share.           *)
OpenAccount(u, amount, referrer, ppm, c) ==
    LET a == controller.accountNonce + 1
    IN  /\ controller.enabled /\ controller.rate > 0
        /\ controller.accountNonce < NumAccounts
        /\ amount \in 1..kusd[u]
        /\ ppm \in 0..MaxReferralPpm
        /\ AccountValue <= kas[u]
        /\ controller' = [controller EXCEPT !.accountNonce = a, !.totalSaved = @ + amount]
        /\ accounts' = [accounts EXCEPT ![a] =
               [open |-> TRUE, owner |-> u, saved |-> amount, rate |-> controller.rate,
                delay |-> controller.delay, remaining |-> controller.maxAccrual,
                daaPerYear |-> DaaPerYear,
                referrer |-> referrer, referralPpm |-> ppm, value |-> AccountValue, age |-> 0]]
        /\ accountToken' = [accountToken EXCEPT ![a] = amount]
        /\ kusd' = Debit(kusd, u, amount)
        /\ Conclude(c)
        /\ kas' = Refunded(Debit(kas, u, AccountValue), c)
        /\ UNCHANGED <<reserve, reserveToken, feeToken, shares, governanceVars, registry>>

(* A wallet makes an Account itself, with an output of that template and   *)
(* the KUSD it says it has saved: no covenant is asked, neither of its     *)
(* terms nor of the referral share.                                        *)
CreateAccount(a, u, amount, referrer, ppm, terms) ==
    /\ a \in AccountSlots \ OpenedSlots
    /\ ~accounts[a].open
    /\ amount \in 1..kusd[u]
    /\ AccountValue <= kas[u]
    /\ accounts' = [accounts EXCEPT ![a] =
           [open |-> TRUE, owner |-> u, saved |-> amount, rate |-> terms.rate,
            delay |-> terms.delay, remaining |-> terms.maxAccrual,
            daaPerYear |-> terms.daaPerYear,
            referrer |-> referrer, referralPpm |-> ppm, value |-> AccountValue, age |-> 0]]
    /\ accountToken' = [accountToken EXCEPT ![a] = amount]
    /\ kusd' = Debit(kusd, u, amount)
    /\ kas' = Debit(kas, u, AccountValue)
    /\ UNCHANGED <<reserve, reserveToken, feeToken, shares, governanceVars, seriesVars, controller>>

-----------------------------------------------------------------------------
(* Interest *)

(* Mutant: the account is credited with the referrer's share as well. *)
YieldWithoutReferral(saved, rate, accrual, daaPerYear, ppm) ==
    LET annual == MulDivFloor(saved, rate, PPM)
        gross == MulDivFloor(annual, accrual, daaPerYear)
    IN  [gross |-> gross, fee |-> MulDivFloor(gross, ppm, PPM), net |-> gross]

(* What `accrual` units earn: the year's interest is rounded down before   *)
(* the term's share of it is taken.                                        *)
Yield(saved, rate, accrual, daaPerYear, ppm) ==
    LET annual == MulDivFloor(saved, rate, PPM)
        gross == MulDivFloor(annual, accrual, daaPerYear)
        fee == MulDivFloor(gross, ppm, PPM)
    IN  [gross |-> gross, fee |-> fee, net |-> gross - fee]

(* Mutant: the delay of a new account is forgotten. *)
ClaimDueWithoutDelay(account, accrual) ==
    /\ accrual \in 1..account.remaining
    /\ account.age >= accrual

(* The claimed term must have passed since the Account's UTXO was made,    *)
(* after what is left of its delay, and fit what it may still claim.       *)
ClaimDue(account, accrual) ==
    /\ accrual \in 1..account.remaining
    /\ account.age >= account.delay + accrual

(* Mutants: the Reserve pays what it does not have, or books a payment     *)
(* that its UTXO does not make.                                            *)
PaySavingsUnchecked(gross) ==
    /\ registry
    /\ reserveToken = reserve.kusd
    /\ reserve' = [reserve EXCEPT !.kusd = @ - gross]
    /\ reserveToken' = reserveToken - gross

PaySavingsKeepingToken(gross) ==
    /\ registry
    /\ reserve.kusd >= gross
    /\ reserveToken = reserve.kusd
    /\ reserve' = [reserve EXCEPT !.kusd = @ - gross]
    /\ UNCHANGED reserveToken

(* pay_savings of the Reserve. *)
PaySavings(gross) ==
    /\ registry
    /\ reserve.kusd >= gross
    /\ reserveToken = reserve.kusd
    /\ reserve' = [reserve EXCEPT !.kusd = @ - gross]
    /\ reserveToken' = reserveToken - gross

(* refresh of an Account with pay_savings and, of the Controller,          *)
(* account_refresh or execute_series.  Its new UTXO starts with age 0.     *)
RefreshAccount(a, accrual, policy, c) ==
    LET account == accounts[a]
        yield == Yield(account.saved, account.rate, accrual, account.daaPerYear,
                       account.referralPpm)
    IN  /\ account.open
        /\ account.saved > 0 /\ account.rate \in 1..PPM /\ account.daaPerYear > 0
        /\ account.referralPpm <= MaxReferralPpm
        /\ ClaimDue(account, accrual)
        /\ yield.net > 0
        /\ accountToken[a] = account.saved
        /\ PaySavings(yield.gross)
        /\ IF policy = "execute_series" THEN SeriesExecuted(c)
           ELSE controller' = [controller EXCEPT !.totalSaved = @ + yield.net]
        /\ Conclude(c)
        /\ accounts' = [accounts EXCEPT ![a] =
               [account EXCEPT !.saved = @ + yield.net, !.delay = 0, !.remaining = @ - accrual,
                               !.age = 0]]
        /\ accountToken' = [accountToken EXCEPT ![a] = @ + yield.net]
        /\ kusd' = Credit(kusd, account.referrer, yield.fee)
        /\ kas' = Refunded(kas, c)
        /\ UNCHANGED <<feeToken, shares, governanceVars, registry>>

(* The Controller's half of close. *)
ControllerCloses(a) ==
    controller' = [controller EXCEPT !.totalSaved = @ - accounts[a].saved]

(* close: everything the Account holds returns to its owner.  It checks a  *)
(* successor of the Controller that it is shown, not the one created, so   *)
(* that execute_series may stand for account_close.                        *)
CloseAccount(a, policy, c) ==
    /\ accounts[a].open
    /\ accounts[a].saved > 0
    /\ controller.totalSaved >= accounts[a].saved
    /\ accountToken[a] = accounts[a].saved
    /\ IF policy = "execute_series" THEN SeriesExecuted(c) ELSE ControllerCloses(a)
    /\ Conclude(c)
    /\ accounts' = [accounts EXCEPT ![a] = NoAccount]
    /\ accountToken' = [accountToken EXCEPT ![a] = 0]
    /\ kusd' = Credit(kusd, accounts[a].owner, accounts[a].saved)
    /\ kas' = Refunded(Credit(kas, accounts[a].owner, accounts[a].value), c)
    /\ UNCHANGED <<reserve, reserveToken, feeToken, shares, governanceVars, registry>>

-----------------------------------------------------------------------------

SavingsTick ==
    /\ Tick
    /\ series' = [series EXCEPT !.age = IF series.stage # "none" /\ @ < MaxSeriesAge
                                        THEN @ + 1 ELSE @]
    /\ accounts' = [a \in AccountSlots |->
           [accounts[a] EXCEPT !.age = IF accounts[a].open /\ @ < MaxAccountAge
                                       THEN @ + 1 ELSE @]]
    /\ UNCHANGED <<registry, governor, controller, accountToken>>

SeriesStep ==
    \/ \E u \in Users, terms \in SeriesTerms : ProposeSeries(u, terms)
    \/ ActivateSeries
    \/ CancelSeries
    \/ \E voters \in SUBSET ShareSlots : VetoSeries(voters)

ControllerPolicies(own) == {own, "execute_series"}

AccountStep(c) ==
    \/ InitializeGovernance(c)
    \/ ExecuteSeries(c)
    \/ \E u, v \in Users, amount \in SavedAmounts, ppm \in ReferralPpms :
          OpenAccount(u, amount, v, ppm, c)
    \/ \E a \in AccountSlots, policy \in ControllerPolicies("account_refresh") :
          \E accrual \in 1..accounts[a].remaining : RefreshAccount(a, accrual, policy, c)
    \/ \E a \in AccountSlots, policy \in ControllerPolicies("account_close") :
          CloseAccount(a, policy, c)

SavingsNext ==
    \/ SavingsTick
    \/ InitializeRegistry
    \/ SeriesStep
    \/ \E a \in AccountSlots, u, v \in Users, amount \in SavedAmounts, ppm \in ReferralPpms,
          terms \in OtherTerms : CreateAccount(a, u, amount, v, ppm, terms)
    \/ \E c \in Conclusions \cup {Nothing} : AccountStep(c)
    \/ DelegationStep /\ UNCHANGED savingsVars
    \/ ReserveStep /\ UNCHANGED <<governanceVars, savingsVars>>

SavingsSpec == SavingsInit /\ [][SavingsNext]_allVars

(* activate and the cancelling entries need no signature: whoever wants to *)
(* propose next, or the deposit back, sends them.                          *)
SavingsFairness ==
    WF_allVars(SavingsTick) /\ WF_allVars(ActivateSeries) /\ WF_allVars(CancelSeries)

-----------------------------------------------------------------------------
(* Properties *)

(* The Governor names a proposal exactly while that SavingsProposal exists *)
(* with its deposit.                                                       *)
SeriesBacked ==
    IF governor.active = 0 THEN series = NoSeries
    ELSE series.stage # "none" /\ series.nonce = governor.active /\ series.deposit = SeriesDeposit

(* Every KUSD booked as saved is in its Account's own UTXO, the Reserve's  *)
(* booked KUSD in the Reserve's, and the proposal the Governor names is    *)
(* there: otherwise close, any policy of the Reserve, or every later       *)
(* proposal would be refused for good.  Interest moves KUSD from the one   *)
(* to the other in a transaction of five covenants.                        *)
SavingsBacked ==
    /\ ReserveBooked
    /\ \A a \in AccountSlots : accountToken[a] = accounts[a].saved
    /\ SeriesBacked

(* docs/SAVINGS.md: interest never creates KUSD.  Wallets, Accounts and    *)
(* the Reserve hold what there was; and no sompi of a deposit or of an     *)
(* Account is lost or paid twice, whatever ends in one transaction.        *)
SavingsConserved ==
    /\ SumTo(kusd, NumUsers) + reserveToken + SumTo(feeToken, NumFeeSlots)
           + SumTo(accountToken, TotalAccounts) = NumUsers * InitialKusd + InitialDeposit
    /\ SumTo(kas, NumUsers) + reserve.collateral + series.deposit
           + SumTo([a \in AccountSlots |-> accounts[a].value], TotalAccounts)
           = NumUsers * InitialKas

(* The consequence docs/SAVINGS.md does not expect: "withdraw returns the  *)
(* complete account balance and closes the account".  close is refused     *)
(* when the Controller's total is below what the Account has saved.        *)
AlwaysWithdrawable ==
    \A a \in AccountSlots : accounts[a].open => controller.totalSaved >= accounts[a].saved

(* Whatever proposers, delegates and savers do, a series proposal ends and *)
(* the next one can be made.                                               *)
SeriesConcludes == governor.active # 0 ~> governor.active = 0
=============================================================================
