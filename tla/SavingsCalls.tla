---------------------------- MODULE SavingsCalls ----------------------------
(***************************************************************************)
(* The client's side of Savings: the builders that take SavingsParams, and *)
(* the parameters the scripts fill in for the successors.  There is none   *)
(* for the Governor's cancellation and veto, nor for those of a Proposal.  *)
(*                                                                         *)
(* SavingsParams has one owner for an Account and for the key that         *)
(* deployed the Controller, into whose template it is compiled: a saver    *)
(* here is the deployer.  An account is known by its nonce: the client     *)
(* makes and serves only those that the Controller opened.                 *)
(***************************************************************************)
EXTENDS Savings, Calls

(* What validate asks of the configuration itself. *)
ASSUME ConfiguredSavings ==
    /\ SeriesVotingDelay > 0 /\ SeriesExecutionWindow > 0
    /\ SeriesDeposit > 0 /\ AccountValue > 0

(* SavingsParams as the client reads them off the chain: the singletons',  *)
(* the terms of a proposal, the fields of an Account.                      *)
SavingsParams ==
    [named |-> registry, governed |-> controller.governed, enabled |-> controller.enabled,
     proposer |-> series.proposer, active |-> governor.active,
     proposalNonce |-> governor.proposalNonce, executionNonce |-> governor.executionNonce,
     seriesNonce |-> controller.seriesNonce, accountNonce |-> controller.accountNonce,
     totalSaved |-> controller.totalSaved, currentRate |-> controller.rate,
     delay |-> controller.delay, maxAccrual |-> controller.maxAccrual,
     daaPerYear |-> DaaPerYear,
     owner |-> 1, referrer |-> 1, saved |-> 0, rate |-> controller.rate, delayRemaining |-> 0,
     remaining |-> 0, referralPpm |-> 0]
WithTerms(p, proposer, terms) ==
    [p EXCEPT !.proposer = proposer, !.rate = terms.rate, !.delay = terms.delay,
              !.maxAccrual = terms.maxAccrual, !.daaPerYear = terms.daaPerYear]
WithAccount(p, a) ==
    [p EXCEPT !.owner = a.owner, !.referrer = a.referrer, !.saved = a.saved, !.rate = a.rate,
              !.delayRemaining = a.delay, !.remaining = a.remaining,
              !.referralPpm = a.referralPpm]

(* validate, which compile_stack starts with. *)
ValidSavings(p) ==
    /\ p.rate \in 0..PPM /\ p.currentRate \in 0..PPM
    /\ p.referralPpm \in 0..MaxReferralPpm
    /\ SeriesVetoThresholdPpm \in 1..PPM
    /\ p.delay > 0 /\ p.maxAccrual > 0 /\ p.daaPerYear > 0
    /\ p.delayRemaining >= 0 /\ p.remaining >= 0
    /\ SeriesVotingDelay > 0 /\ SeriesExecutionWindow > 0
    /\ SeriesDeposit > 0 /\ AccountValue > 0
    /\ p.saved >= 0 /\ p.totalSaved >= 0

(* Constructor arguments: the states of the covenants spent. *)
SeriesArgs(p, activated) ==
    [proposer |-> p.proposer, nonce |-> p.proposalNonce, activated |-> activated,
     rate |-> p.rate, delay |-> p.delay, maxAccrual |-> p.maxAccrual,
     daaPerYear |-> p.daaPerYear]
GovernorArgs(p) ==
    [proposalNonce |-> p.proposalNonce, executionNonce |-> p.executionNonce,
     active |-> p.active]
AccountArgs(p) ==
    [owner |-> p.owner, saved |-> p.saved, rate |-> p.rate, delay |-> p.delayRemaining,
     remaining |-> p.remaining, daaPerYear |-> p.daaPerYear, referrer |-> p.referrer,
     referralPpm |-> p.referralPpm]
ControllerArgs(p) ==
    [governed |-> p.governed, enabled |-> p.enabled, seriesNonce |-> p.seriesNonce,
     accountNonce |-> p.accountNonce, totalSaved |-> p.totalSaved, rate |-> p.currentRate,
     delay |-> p.delay, maxAccrual |-> p.maxAccrual]

(* State expressions: the successors announced. *)
SeriesState(p, activated) ==
    [proposer |-> p.proposer, nonce |-> p.proposalNonce, activated |-> activated,
     rate |-> p.rate, delay |-> p.delay, maxAccrual |-> p.maxAccrual,
     daaPerYear |-> p.daaPerYear]
GovernorState(p) ==
    [proposalNonce |-> p.proposalNonce, executionNonce |-> p.executionNonce,
     active |-> p.active]
AccountState(p) ==
    [owner |-> p.owner, saved |-> p.saved, rate |-> p.rate, delay |-> p.delayRemaining,
     remaining |-> p.remaining, daaPerYear |-> p.daaPerYear, referrer |-> p.referrer,
     referralPpm |-> p.referralPpm]
ControllerState(p) ==
    [governed |-> p.governed, enabled |-> p.enabled, seriesNonce |-> p.seriesNonce,
     accountNonce |-> p.accountNonce, totalSaved |-> p.totalSaved, rate |-> p.currentRate,
     delay |-> p.delay, maxAccrual |-> p.maxAccrual]

(* The scripts of the UTXOs that are created. *)
CompileProposalState(p, activated) == Artifact(ValidSavings(p), SeriesArgs(p, activated))
CompileGovernorState(p) == Artifact(ValidSavings(p), GovernorArgs(p))
CompileControllerState(p) == Artifact(ValidSavings(p), ControllerArgs(p))
CompileAccountState(p) == Artifact(ValidSavings(p), AccountArgs(p))

-----------------------------------------------------------------------------
(* SavingsRegistry, SavingsGovernor and SavingsProposal *)

RegistryInitializeCall(p, next) == Call(~p.named /\ next.named, FALSE, TRUE, <<>>)
RegistryPreserveCall(p) == Call(TRUE, TRUE, TRUE, <<>>)

GovernorProposeCall(p, next) ==
    Call(ValidSavings(p), GovernorArgs(p),
         [governor |-> GovernorState(next), series |-> SeriesState(next, FALSE)], <<>>)
ProposalActivateSeriesCall(p) == Call(TRUE, SeriesArgs(p, FALSE), SeriesState(p, TRUE), <<>>)
GovernorExecuteCall(p, next) ==
    Call(ValidSavings(p), GovernorArgs(p),
         [governor |-> GovernorState(next), series |-> SeriesState(p, TRUE)], <<>>)
ProposalExecuteSeriesCall(p) == Call(TRUE, SeriesArgs(p, TRUE), <<>>, <<>>)

(* The parameters of the Governor and the Controller after a series is     *)
(* proposed and executed.                                                  *)
Proposed(p, id) == [p EXCEPT !.proposalNonce = @ + 1, !.active = id]
Concluded(p) == [p EXCEPT !.active = 0, !.executionNonce = @ + 1]
Enabled(p, terms) ==
    [p EXCEPT !.enabled = terms.rate > 0, !.seriesNonce = @ + 1, !.currentRate = terms.rate,
              !.delay = terms.delay, !.maxAccrual = terms.maxAccrual]

-----------------------------------------------------------------------------
(* SavingsController and SavingsAccount.  A builder copies its caller's    *)
(* successors; only what is spent goes through compile_stack.              *)

ControllerInitializeCall(p, next) ==
    Call(~p.governed /\ next.governed /\ ValidSavings(p), ControllerArgs(p),
         ControllerState(next), <<>>)
ControllerExecuteCall(p, next) ==
    Call(ValidSavings(p), ControllerArgs(p), ControllerState(next), <<>>)
ControllerOpenCall(p, next, account) ==
    Call(ValidSavings(p), ControllerArgs(p),
         [controller |-> ControllerState(next), account |-> AccountState(account)],
         [account |-> account.saved])
ControllerRefreshCall(p, next, nextAccount) ==
    Call(ValidSavings(p), ControllerArgs(p),
         [controller |-> ControllerState(next), account |-> AccountState(nextAccount)], <<>>)
ControllerCloseCall(p, next) ==
    Call(ValidSavings(p), ControllerArgs(p), ControllerState(next), <<>>)

AccountRefreshCall(p, next, referral) ==
    Call(ValidSavings(p), AccountArgs(p), AccountState(next),
         [account |-> next.saved, referrer |-> referral])
AccountCloseCall(p, nextController) ==
    Call(ValidSavings(p), AccountArgs(p), ControllerState(nextController),
         [owner |-> p.saved])

(* The Reserve's call compiles the stack of the refreshed Account too. *)
ReserveRefreshCall(p, kusdBooked, nextKusd, nextAccount) ==
    Call(ValidSavings(p) /\ ValidSavings(nextAccount), kusdBooked,
         [reserve |-> nextKusd, account |-> AccountState(nextAccount)],
         [reserve |-> nextKusd])

(* Mutant: the referrer's share is taken of the year's interest. *)
InterestOfAnnual(p, accrual) ==
    LET annual == (p.saved * p.rate) \div PPM
        gross == (annual * accrual) \div p.daaPerYear
        referral == (annual * p.referralPpm) \div PPM
    IN  [gross |-> gross, referral |-> referral, net |-> gross - referral]

(* savings_cli computes the interest itself, with unbounded integers. *)
Interest(p, accrual) ==
    LET annual == (p.saved * p.rate) \div PPM
        gross == (annual * accrual) \div p.daaPerYear
        referral == (gross * p.referralPpm) \div PPM
    IN  [gross |-> gross, referral |-> referral, net |-> gross - referral]

Refreshed(p, accrual) ==
    [p EXCEPT !.saved = @ + Interest(p, accrual).net, !.delayRemaining = 0,
              !.remaining = @ - accrual]

-----------------------------------------------------------------------------
(* What the covenants hold, in the form the builders write it. *)

SeriesOf(x) == [proposer |-> x.proposer, nonce |-> x.nonce, activated |-> x.stage = "activated",
                rate |-> x.terms.rate, delay |-> x.terms.delay,
                maxAccrual |-> x.terms.maxAccrual, daaPerYear |-> x.terms.daaPerYear]
AccountOf(a) == [owner |-> a.owner, saved |-> a.saved, rate |-> a.rate, delay |-> a.delay,
                 remaining |-> a.remaining, daaPerYear |-> a.daaPerYear,
                 referrer |-> a.referrer, referralPpm |-> a.referralPpm]

SeriesParams == WithTerms(SavingsParams, series.proposer, series.terms)

DeploymentBuilt ==
    /\ registry # registry' =>
           RegistryInitializeCall(SavingsParams, [SavingsParams EXCEPT !.named = TRUE])
               = Call(TRUE, registry, registry', <<>>)
    /\ controller'.governed # controller.governed =>
           ControllerInitializeCall(SavingsParams, [SavingsParams EXCEPT !.governed = TRUE])
               = Call(TRUE, controller, controller', <<>>)

ProposeSeriesBuilt ==
    governor'.proposalNonce # governor.proposalNonce =>
        LET next == Proposed(WithTerms(SavingsParams, series'.proposer, series'.terms),
                             governor'.active)
        IN  /\ GovernorProposeCall(SavingsParams, next)
                   = Call(TRUE, governor, [governor |-> governor', series |-> SeriesOf(series')],
                          <<>>)
            /\ CompileGovernorState(next) = Artifact(TRUE, governor')
            /\ CompileProposalState(next, FALSE) = Artifact(TRUE, SeriesOf(series'))

ActivateSeriesBuilt ==
    series.stage = "pending" /\ series'.stage = "activated" =>
        /\ ProposalActivateSeriesCall(SeriesParams)
               = Call(TRUE, SeriesOf(series), SeriesOf(series'), <<>>)
        /\ CompileProposalState(SeriesParams, TRUE) = Artifact(TRUE, SeriesOf(series'))

(* The Governor is told the Proposal that it finds; the Controller, when   *)
(* it takes part, the terms it then has.                                   *)
ExecuteSeriesBuilt ==
    /\ governor'.executionNonce # governor.executionNonce =>
           /\ GovernorExecuteCall(SeriesParams, Concluded(SeriesParams))
                  = Call(TRUE, governor, [governor |-> governor', series |-> SeriesOf(series)],
                         <<>>)
           /\ ProposalExecuteSeriesCall(SeriesParams) = Call(TRUE, SeriesOf(series), <<>>, <<>>)
    /\ controller'.seriesNonce # controller.seriesNonce =>
           LET next == Enabled(SavingsParams, series.terms)
           IN  /\ ControllerExecuteCall(SavingsParams, next)
                      = Call(TRUE, controller, controller', <<>>)
               /\ CompileControllerState(next) = Artifact(TRUE, controller')

OpenBuilt(a) ==
    LET next == [SavingsParams EXCEPT !.accountNonce = @ + 1,
                                      !.totalSaved = @ + accounts'[a].saved]
        account == WithAccount(SavingsParams, accounts'[a])
    IN  ~accounts[a].open /\ accounts'[a].open =>
            /\ ControllerOpenCall(SavingsParams, next, account)
                   = Call(TRUE, controller,
                          [controller |-> controller', account |-> AccountOf(accounts'[a])],
                          [account |-> accountToken'[a]])
            /\ CompileAccountState(account) = Artifact(TRUE, AccountOf(accounts'[a]))

(* Five covenants are told what one term of interest changes. *)
RefreshBuilt(a) ==
    LET account == WithAccount(SavingsParams, accounts[a])
        accrual == accounts[a].remaining - accounts'[a].remaining
        interest == Interest(account, accrual)
        refreshed == Refreshed(account, accrual)
        next == [SavingsParams EXCEPT !.totalSaved = @ + interest.net]
        nextKusd == reserve.kusd - interest.gross
    IN  accounts[a].open /\ accounts'[a].open /\ accrual > 0 =>
            /\ RegistryPreserveCall(SavingsParams) = Call(TRUE, registry, registry', <<>>)
            /\ AccountRefreshCall(account, refreshed, interest.referral)
                   = Call(TRUE, AccountOf(accounts[a]), AccountOf(accounts'[a]),
                          [account |-> accountToken'[a],
                           referrer |-> kusd'[accounts[a].referrer] - kusd[accounts[a].referrer]])
            /\ ReserveRefreshCall(account, reserve.kusd, nextKusd, refreshed)
                   = Call(TRUE, reserve.kusd,
                          [reserve |-> reserve'.kusd, account |-> AccountOf(accounts'[a])],
                          [reserve |-> reserveToken'])
            /\ controller'.seriesNonce = controller.seriesNonce =>
                   ControllerRefreshCall(SavingsParams, next, refreshed)
                       = Call(TRUE, controller,
                              [controller |-> controller', account |-> AccountOf(accounts'[a])],
                              <<>>)

CloseBuilt(a) ==
    LET account == WithAccount(SavingsParams, accounts[a])
        next == [SavingsParams EXCEPT !.totalSaved = @ - accounts[a].saved]
        owner == accounts[a].owner
    IN  accounts[a].open /\ ~accounts'[a].open =>
            /\ AccountCloseCall(account, next)
                   = Call(TRUE, AccountOf(accounts[a]), ControllerState(next),
                          [owner |-> kusd'[owner] - kusd[owner]])
            /\ controller'.seriesNonce = controller.seriesNonce =>
                   ControllerCloseCall(SavingsParams, next)
                       = Call(TRUE, controller, controller', <<>>)

(* Whatever the five Savings covenants and the Reserve accept, short of a  *)
(* cancellation, a veto and what is done with an Account the Controller    *)
(* never opened, the client can build, and the interest a script computes  *)
(* beforehand, its division among saver, referrer and Reserve and all the  *)
(* totals are what the covenants require.                                  *)
SavingsBuilt ==
    [][/\ DeploymentBuilt /\ ProposeSeriesBuilt /\ ActivateSeriesBuilt /\ ExecuteSeriesBuilt
       /\ \A a \in OpenedSlots : OpenBuilt(a) /\ RefreshBuilt(a) /\ CloseBuilt(a)]_allVars
=============================================================================
