------------------------------ MODULE MC_Savings ------------------------------
(***************************************************************************)
(* Savings for TLC, with observers: `proposedFor`, how long ago the active *)
(* proposal was made, and of each Account how long it has been open, the   *)
(* terms that were voted when the Controller opened it, or that the wallet *)
(* which made it gave it, and the term it was paid for.                    *)
(***************************************************************************)
EXTENDS SavingsCalls

(* Terms that enable, terms that disable, and terms of another year, which *)
(* the Controller will not execute.                                        *)
Rate == 750000
MCSeriesTerms == {[rate |-> Rate, delay |-> 1, maxAccrual |-> 2, daaPerYear |-> 1],
                  [rate |-> 0, delay |-> 1, maxAccrual |-> 1, daaPerYear |-> 1],
                  [rate |-> Rate, delay |-> 1, maxAccrual |-> 1, daaPerYear |-> 2]}

(* Terms a wallet gives an Account it makes: another rate, no delay and    *)
(* half the year.                                                          *)
MCOtherTerms == {[rate |-> PPM, delay |-> 0, maxAccrual |-> 1, daaPerYear |-> 2]}

VARIABLES proposedFor, voted, history

observedVars == <<allVars, proposedFor, voted, history>>

NoHistory == [openFor |-> 0, terms |-> NoTerms, claimed |-> 0]

TermsOf(account) == [rate |-> account.rate, delay |-> account.delay,
                     maxAccrual |-> account.remaining, daaPerYear |-> account.daaPerYear]

ObservedInit ==
    /\ SavingsInit
    /\ proposedFor = 0
    /\ voted = NoTerms
    /\ history = [a \in AccountSlots |-> NoHistory]

(* What a step adds to the history of the Account of slot a. *)
FirstTerms(a) == IF a \in OpenedSlots THEN voted ELSE TermsOf(accounts'[a])
ObservedAccount(a) ==
    IF ~accounts'[a].open THEN NoHistory
    ELSE IF ~accounts[a].open THEN [NoHistory EXCEPT !.terms = FirstTerms(a)]
    ELSE [history[a] EXCEPT
             !.openFor = IF SavingsTick /\ @ < MaxAccountAge THEN @ + 1 ELSE @,
             !.claimed = @ + accounts[a].remaining - accounts'[a].remaining]

ObserveSavings ==
    /\ proposedFor' =
           IF governor'.active # governor.active \/ governor.active = 0 THEN 0
           ELSE IF SavingsTick /\ proposedFor < SeriesVotingDelay THEN proposedFor + 1
           ELSE proposedFor
    /\ voted' = IF controller'.seriesNonce # controller.seriesNonce THEN series.terms ELSE voted
    /\ history' = [a \in AccountSlots |-> ObservedAccount(a)]

ObservedNext == SavingsNext /\ ObserveSavings
ObservedSpec == ObservedInit /\ [][ObservedNext]_observedVars
ObservedFairSpec == ObservedSpec /\ SavingsFairness

(* docs/SECURITY.md: Savings cannot overstate the elapsed DAA term.  Over  *)
(* all its refreshes, each of which starts a new age, an Account is paid   *)
(* for no more time than it has been open after its delay, for no more     *)
(* than its terms allow, and at their rate, whatever is voted later.  Its  *)
(* terms are those voted when the Controller opened it; of an Account that *)
(* a wallet made, those it was made with.                                  *)
InterestEarned ==
    \A a \in AccountSlots : accounts[a].open =>
        /\ history[a].claimed > 0 =>
               history[a].terms.delay + history[a].claimed <= history[a].openFor
        /\ history[a].claimed + accounts[a].remaining = history[a].terms.maxAccrual
        /\ accounts[a].rate = history[a].terms.rate
        /\ accounts[a].daaPerYear = history[a].terms.daaPerYear

(* KPS holders have the voting delay to veto before any terms are applied. *)
SeriesNoticeGiven ==
    [][controller'.seriesNonce # controller.seriesNonce =>
           proposedFor >= SeriesVotingDelay]_observedVars
=============================================================================
