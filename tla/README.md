# KUSD: specification and proofs

TLA+ models of the KUSD protocol (`contracts/*.sil` and the Rust and Python that
surround them), model-checked with TLC and proved with TLAPS. Paths below are
relative to the repository root, and line numbers are those of this commit.

KUSD is a stablecoin on Kaspa. Every contract is a covenant: a UTXO whose script
decides which transaction may spend it and what the outputs must be. A
transaction spends UTXOs of several covenants at once and each of them checks
it, so one *accepted transaction* is the atomic step of the system, and
concurrency is the race of independent actors to spend the same UTXO. Around
the contracts there are a client that builds transactions, an index of the
UTXOs, and scripts that deploy and drive a system.

## 1. Inventory

| Component | Source | State | Operations | Hard part |
|---|---|---|---|---|
| MintingModule | `minting-module.sil`, `src/fees.rs` | remainingMint, positionNonce, immutable terms | `open`, `expire` | split of the debt, fee by remaining term, race of open and expire |
| Position | `position.sil` | debt, assignedReserve, challengeId; collateral is the UTXO's value | `repay`, `close`, `startChallenge` | rounding of partial repayments |
| Challenge lineage | `challenge-anchor.sil`, `challenge.sil`, `challenged-position.sil`, `auction.sil` | a copy of the Position's terms, challenger, age | `init`, `avert`, `activate`, `settle`, `backstop` | races of owner, buyer, bidder, Reserve; stale copies; ages |
| EquityReserve | `equity-reserve.sil`, `src/equity.rs` | reserveKusd, totalKps, collateralSompi | `initialize`, `deposit`, `collect_fee`, `redeem`, `backstop`, `collect_proposal_fee`, `pay_savings`, `governance_checkpoint` | pro-rata rounding, products wider than 64 bits, three assets moving together |
| KCC20 (KUSD) | `kcc20.sil` | owner, amount, isMinter of each UTXO | `transfer`, delegates | conservation across covenants |
| KPS | `kps.sil` | as KCC20, and the UTXO's age | `transfer`, delegates, `lock`, `unlock` | holding period |
| Governance | `governance.sil`, `module-proposal.sil`, `kps-delegation.sil`, `root-issuance.sil` | active proposal, nonces, delegated weight, remaining allocation | `propose`, `activate`, `execute`, `cancel`, `veto`, weights, Root `init`, `create_module`, `handover` | windows, double counting of weight, irreversible handover |
| Savings | `savings-*.sil`, `src/savings.rs` | Controller's terms and totals, one series proposal, accounts with delay and snapshots | propose, activate, execute, cancel, veto a series; `open`, `refresh`, `close` an account; initialisation of the singletons | term of accrual, five covenants in one transaction that do not name each other's policy |
| Indexer | `src/indexer.rs`, `index-*` of `src/main.rs` | entities, totals, journal of undo data, blocks; the saved file | `apply_block`, `rollback_block`, rebuilding from a manifest, validation, `save`, `load` | reorganisations, refusals in the middle of a block, answers that are out of date |
| Builders | `src/protocol.rs`, `src/savings_protocol.rs`, `src/bin/*` | none | compile a covenant, announce its successors | every successor is computed twice, here and by the contracts |
| Scripts | `scripts/*.py` | a saved plan | fill in parameters, submit, save, resume | crash between submit and save |

What makes each one correct:

* *Lending.* KUSD exists only against debt. Collateral leaves a Position only
  with its debt. The owner has the notice the terms give. A challenge always
  ends. No covenant can be brought to a state none of its policies accept.
* *EquityReserve and KPS.* The books agree with the tokens. Nobody who stays is
  diluted by somebody who comes or goes. New KPS are not redeemable at once.
  A quotient is the exact floor, although the product does not fit.
* *Governance.* Root's allocation bounds what Modules mint; a proposal executes
  once, not before its delay and not after a veto; weight counts once.
* *Savings.* Interest is paid for elapsed time, at the rate the account was
  made with, never minted; what is saved is there and can be withdrawn.
* *Indexer.* The index equals a replay of the selected chain; what is saved was
  live; a history that is incomplete is not believed.
* *Builders.* Whatever the covenants accept can be built, and is announced as
  it is created.
* *Scripts.* A resumed run never builds a second transaction for a step that was
  submitted.

The places where these can go wrong are the `hazards` of `PROJECT.json`.

How the components interact: `open` pays the opening fee to a KUSD UTXO owned by
the Reserve's covenant id, which `collect_fee` merges later. A Position and its
challenge lineage are spent together at both ends of a challenge. `backstop`
spends Auction, ChallengedPosition and Reserve together. Governance creates
Modules through RootIssuance; a veto pays its fee into the Reserve. A refresh of
a SavingsAccount spends Account, Controller, Registry and Reserve, and may end a
series proposal as well; a veto of one shows the Reserve through
`governance_checkpoint`. KPS delegations vote on Modules and series alike. The
Indexer reads all of them from the chain; the builders read parameters that a
script found and write what the script submits.

## 2. Modules

| Module | Models | Code |
|---|---|---|
| `Sums`, `Sums_proofs` | totals of finite families of amounts, as a recursive function; lemmas about updates of them and about quotients | none, arithmetic |
| `Amounts` | `mulPpm`, `mulDivFloor` as exact floors, the reference value of collateral | arithmetic of all contracts |
| `WideArithmetic` | how the contracts compute these floors in 64 bits: digit by digit, or split | `mulDivFloor` of `equity-reserve.sil`, `auction.sil` and their copies |
| `EquityReserve` | Reserve, KUSD and KPS tokens: one action per policy | `equity-reserve.sil`, `kcc20.sil`, `kps.sil` |
| `EquityMarket` | the Reserve in an environment of arbitrary auctions and fees | `src/equity.rs` |
| `Lending` | MintingModule, Positions, challenge lineages, composed with `EquityReserve` | `minting-module.sil`, `position.sil`, `challenge*.sil`, `auction.sil` |
| `StableLedger` | abstract: what the lending covenants promise together | none, a specification |
| `Governance` | RootIssuance, Governance, ModuleProposal and KpsDelegation, composed with `EquityReserve` | `root-issuance.sil`, `governance.sil`, `module-proposal.sil`, `kps-delegation.sil`, `kps.sil` |
| `Savings` | Registry, Controller, Governor, Proposal and Accounts, composed with `Governance` and through it with the Reserve | `savings-*.sil` |
| `Indexer` | the index, its two callers, its file, crashes, and a node that changes chains | `src/indexer.rs`, `src/main.rs` |
| `Calls` | what a builder returns | |
| `LendingCalls`, `GovernanceCalls`, `SavingsCalls` | the builders for each of the three, with the validation in front of them; in `SavingsCalls` also how the scripts fill the parameters in | `src/protocol.rs`, `src/savings_protocol.rs`, `scripts/savings_cli.py`, `scripts/deployment_core.py` |
| `EquityReserve_proofs` | each Reserve action preserves the Reserve's invariant | |
| `EquityMarket_proofs`, `Lending_proofs`, `Governance_proofs`, `Savings_proofs`, `Indexer_proofs`, `WideArithmetic_proofs` | the theorems about each | |
| `MC_Equity`, `MC_Lending`, `MC_LendingLive`, `MC_Governance`, `MC_Savings`, `MC_Indexer` | instances for TLC, and observers | |

`Lending` extends `EquityReserve` and reuses its actions: `ReserveStep`,
`TokenStep` and `FundReserve` run beside the lending actions, and `Backstop`
contains `ReserveBackstop`, because the two covenants accept one transaction.
`Governance` extends it the same way: `VetoModule` contains
`CollectProposalFee`, and its delegation actions contain `LockShare`,
`UnlockShare`, `RenewShares`, `KeepShare` and `ReleaseShare` of the KPS tokens.
Lending and governance meet only in the Reserve and in the Modules' allocations,
so the two specifications are siblings: `Lending` starts from one Module with
its allocation, and `Governance` says which Modules there may be. `Savings`
extends `Governance` for the Reserve and the delegations that vote on series;
Modules and their proposals rest there. `StableLedger` is instantiated in
`Lending` with the refinement mapping supply = all KUSD, debts = the Positions'
debts, unused = `remainingMint`.

### State and code

Reserve, KUSD, KPS and lending:

* `reserve` is the serialized state of EquityReserve; `initialized` stands for
  `kpsAssetId # 0`. `reserveToken` is the amount of the KUSD UTXO every policy
  demands to hold exactly `reserveKusd`. `feeToken` are the UTXOs owned by the
  Reserve's covenant id that `collect_fee` has not merged yet.
* `kusd[u]` is the sum of the wallet's KUSD UTXOs: `kcc20.sil` lets the owner
  merge and split them freely and asks nothing of their age.
* `shares` keeps KPS UTXOs apart, because `kps.sil:80-87` asks a minimum age of
  a UTXO spent as a delegate, and redemption spends it so (the KPS minter
  leads). Slots are interchangeable, so a new UTXO takes the first empty one.
* `position[p]` is a Position or its ChallengedPosition successor: `stage` tells
  which template the UTXO has. `assignedToken[p]` is the KUSD UTXO it owns.
* `challenge[p]` is the lineage's UTXO with its copy of the terms; `stage` is
  its template. Covenant ids and template hashes are represented by `p`; what
  `requireSameChallenge` and `settleAuctionPolicy` compare is `SameTerms(p)`.
* A minter token carries amount 0 and one owner: it exists exactly while the
  Module is open or the Position indebted or repayable, so it has no variable.
* `now` is the chain's DAA score. It saturates at `ExpirationDaa` and ages at
  the largest period they are compared with: no guard distinguishes more.

Governance:

* `root` and `governance` are the serialized states of the two singletons.
  `governance.active` is the nonce of the proposal `activeProposalId` names, 0
  for none. `modules[m]` keeps of a Module what the Root decides, its
  allocation, and which proposal it came from (0: the deployer's key); the
  other terms are compared with constants and copied.
* `proposal` is the ModuleProposal UTXO with its KAS value as `deposit`,
  `escrow` the KUSD its covenant id owns. Only one can exist at a time, which
  is what `ProposalBacked` says and proves.
* `delegation[s]` is the KpsDelegation that owns the locked KPS UTXO of slot
  `s`; `shares[s].owner` is the owner it names.
* A delegation and its KPS are spent together, but each covenant checks only its
  own half. `requireLockedKps` (`kps-delegation.sil:28-49`) wants one KPS UTXO
  created again with its script and value, and not that it is the one the
  delegation owns. `unlockDelegationPolicy` (`kps.sil:116-133`) wants the
  delegation among the inputs, not a policy of it, and reads the owner it pays
  from an argument. So where a delegation goes on (`Mature`, `Redelegate`,
  `CastUncounted`) the KPS renewed, `kept`, may be its own or a wallet's
  (`KeepShare`), its own then staying unspent, or going to any wallet
  (`ReleaseKps`).
* The delegate's `vetoPolicy` asks for some covenant as its proposal, and
  compares `nextState` with its own state and not with what is created
  (`kps-delegation.sil:92-102`). Spent with a Proposal it is a part of
  `VetoModule` or `VetoSeries`, where the Proposal checks the successor;
  otherwise it is `CastUncounted`, which may write another owner, delegate and
  weight (`CastWeights`).
* A veto has the Proposal's half, `VetoCarries`, and that of KPS, `KpsRenewed`:
  the leading KPS wants every output owned by its own delegation
  (`kps.sil:57-71`), the Proposal one for each delegation, so both accept votes
  of one delegation only.
* `executePolicy` and `cancelExpiredPolicy` of ModuleProposal both return
  deposit and fee, and accept any policy of Governance with them. `ExecuteModule`
  and `CancelExpired` therefore take the `entry` they are paired with
  (`RefundEntries`, `Accepts`).

Savings:

* `controller`, `governor`, `series` and `accounts[a]` are the serialized states
  with the UTXO's age and value where a policy reads them. The Controller and
  the Reserve know an Account by its template and the ids it carries
  (`savings-controller.sil:222-227`, `:257-261`, `equity-reserve.sil:434-447`),
  not by the transaction that made it. The slots `1..NumAccounts` are the
  Accounts the Controller opened, by nonce; the others are Accounts that wallets
  make themselves, with terms of their choice (`CreateAccount`, `OtherTerms`).
  Every policy treats both alike. `registry` says whether it names the
  Controller.
  `accountToken[a]` is the KUSD the Account's covenant id owns.
* A policy that asks only that another covenant is spent leaves that covenant's
  policy open. The actions take both choices as parameters: `policy`, what the
  Controller runs beside an Account (its own policy or `execute_series`), and
  `c`, how a proposal ends in the same transaction (`Conclusions`: either policy
  of the Governor with either entry of the Proposal, or `Nothing`).
* `governance_checkpoint` recreates the Reserve unchanged; it is the Reserve's
  part of `VetoSeries`.

Indexer:

* `index` is the `Indexer` with entities keyed by outpoint, `totals` the derived
  part of its Snapshot, `journal` the `AppliedTransaction`s and `blocks` the
  `AppliedBlock`s. An entity's fields are folded into `amount`, `rate`,
  `collateral` and `flag`; fields that no rule reads are left out.
* `call` is the call in progress. A call that works through transactions takes
  one step for each, so a refusal finds earlier ones applied and has to take
  them back, and a crash finds the file `absent`, `torn` or `saved`.
* `Rebuild` is `index-rpc` and `index-validate`: a manifest, and what the node
  answered when it was asked; `tip`, the node's chain, may change before the
  answer is used. `past` observes the snapshots before each journal entry and
  whether a block or a replayed history made it (`by`).

Builders: an operator of a `*Calls` module takes the parameters a script reads
off the state and returns `Refused` or the state it compiles as the one spent,
the successors and the token amounts it announces. `LendingBuilt`,
`GovernanceBuilt` and `SavingsBuilt` compare that, for every transaction the
covenants accept, with the state before and after it.

Arithmetic: `WideArithmetic` has one step per digit of the long division.
`round`, `bitValue`, `quotient` and `remainder` are the loop's variables; an
intermediate result above `MaxInt` refuses, as a script does.

### What is assumed of the surroundings

* A transaction is atomic and final once accepted. Reorganisations are the
  Indexer's subject.
* Consensus keeps a lock time from lying ahead of the chain, for transactions
  that use it (the scripts leave input sequences at 0, so it applies).
  It may lag: `Open` and `Settle` choose any lock time the code allows.
* The Reserve's KAS value is carried over by `initialize`, `deposit` and
  `collect_fee`. Their policies do not read it (see the hazard at
  `equity-reserve.sil:240`); `docs/ARCHITECTURE.md` says every transition
  verifies KAS values. The small KAS deposits that keep covenant UTXOs alive
  are left out, the Account's excepted.
* An action is one operation with the covenant inputs
  `docs/ARCHITECTURE.md`'s transition table lists for it, and in Savings with
  every pairing its covenants accept. Tokens a covenant owns are authorised by
  the presence of that covenant, and some policies count no other inputs of the
  asset (hazard at `kps-delegation.sil:34`): the models assume such tokens are
  spent only by a transaction whose policy names them, KPS beside its delegation
  excepted (see above).
* A transaction creates under each covenant id the outputs its policies read,
  and no others: `governance.sil:96-100`, `savings-governor.sil:115-120` and
  `position.sil:130-134` do not count those of the id they create, nor
  `lockDelegationPolicy` those of the new delegation.
* Outside a veto a transaction spends one delegation, whose successor keeps its
  amount and KPS id. A locked UTXO is not merged with that of another delegation,
  and the owner's `unlockPolicy` releases the delegation's own KPS.
* A wallet-made Account holds the KUSD it books and the sompi that
  `AccountValue` names. One whose KUSD differs is refused by every policy.
* `execute_module` checks that the Root is spent, not with which policy. The
  model pairs it with `create_module`.
* A handover to another key changes nothing a model tells apart.
* Amounts stay below the `MAX_INT` guards. That `mulDivFloor` is then the exact
  floor is not assumed but proved (`ProductsExact`, `SharesExact`).
* Terms are within the bounds `root-issuance.sil:104-119` enforces
  (`LendingAssumption`, `EquityAssumption`).
* In the Indexer, blocks reach the follower in an order of its caller's choosing,
  and the node's answer is true when it is given. It checks no scripts, so it
  would take a block that no node accepts if its transactions only fit together;
  `RefusedAssumption` leaves such blocks out: one that goes on from an accepted
  block and is not accepted itself has a transaction that does not apply.
  Genesis has no parent among the blocks (`IndexAssumption`).
* The configuration is one `validate` lets pass: the Savings delays, deposit and
  Account value are positive (`ConfiguredSavings`), and a Module's largest
  allocation is not above the Root's (`ConfiguredBounds`;
  `deployment_core.py:133` and `:417` give both `ROOT_CAP`).

## 3. Runs

| Run | Question | Size |
|---|---|---|
| `equity` | Does anybody lose to rounding, mints, merges or fees; can the holding period be dodged? | 543,184 states, 1 min |
| `equity_orphan` | Is a reserve without shares really forbidden? (no) | violation |
| `lending_safety` | Do debt, KUSD, KAS and the copies of terms agree after every order of steps; is the abstract ledger implemented; is notice given? | 1.2 million states, 2 min |
| `lending_live` | Does every challenge end; can the client build every step of lending and the Reserve? | 102,333 states, 20 s |
| `lending_rounding` | Does `assignedReserve <= debt` survive partial repayment? (no) | violation |
| `governance` | Is the allocation kept, a proposal executed once and with notice, weight earned, every deposit and fee accounted for; does every proposal end; can the client build every step? | 543,737 states, 3 min |
| `governance_unlock` | Does KPS leave its delegation only for its owner? (no) | violation |
| `governance_cancel` | Is a proposal cancelled only after its window? (no) | violation |
| `savings` | Is interest earned, paid from what is there and conserved; is there notice; does every series end; can the client build every step? | 242,739 states, 45 s |
| `savings_withdraw` | Can an account always be closed? (no) | violation |
| `indexer` | Is the index the ledger of its chain after refusals and reorganisations; was what is saved live; is a wrong history refused? | seconds |
| `wide_arithmetic` | Are the quotients exact? | 27,000 states, 1 s |

### Bounds and why they are enough

* *equity*: two wallets (one who stays, one who moves), two KPS UTXOs, one fee
  UTXO, three KUSD atoms each and a holding period of two DAA units. With these
  a price per share other than one arises through fees and backstops, floors
  lose a fraction, and partial transfers, merges and a redemption by an old and
  a young UTXO happen. A reward of 10% of a debt of at most two is zero atoms;
  rewards above zero are in `lending_safety`.
* *lending_safety*: two Positions and two wallets: a Position can be challenged
  while the other is repaid, and one wallet be owner, challenger and bidder of
  different ones. A debt of 10 with 20% contribution and 10% fee splits into 7,
  2 and 1; the reward is 1 and the reference value 12, so the falling price,
  the surplus and the floor differ. The second wallet obtains KUSD by a
  transfer of 7, enough to fund the Reserve for a backstop. The capacity of 20
  is exhausted by two Positions.
* *lending_live*: debts of 10, of which 3 may be repaid, a contribution of one
  half and a duration of two, so the price of an Auction falls in between, a
  repayment burns a floored share, and the builders' fees, rewards and rounded
  payments are all above zero. *lending_rounding*: debts of 1 and 4 with a
  contribution of one half, so partial repayments reach the rounding state.
* *governance*: two wallets, two KPS UTXOs and two proposals, so a second
  proposal meets what the first left behind. Root has 2 to hand out, 1 of it to
  the deployer's Module: the key may exhaust it, so that a proposal in flight
  finds nothing left, and after the handover one proposal is executed and the
  next one cannot be. `Allocations` has 2 besides 1, which Governance refuses to
  propose and the Root to create. Full weight takes two epochs, the threshold is
  one half, and a KPS of 2 can be split: a delegation of all KPS carries a veto
  at any weight, one of half of it at full weight only. Two KPS UTXOs are enough
  for a delegation that goes on beside a wallet's KPS. The weight a delegate may
  write is the largest. Periods are one DAA unit; in *governance_cancel* the
  window is longer. KUSD transfers and deposits are bounded away
  (`KusdAmounts = {}`), fees of vetoed proposals still reach the Reserve.
* *governance_unlock*: as above without proposals, which it does not need.
* *savings*: one wallet with one KPS, two accounts the Controller may open, one
  that the wallet makes itself, and two series: terms that enable, terms that
  disable, and terms of another year, which the Controller refuses. The wallet's
  own Account has another rate, no delay and half the year, so its claims differ
  from those of opened ones, and its KUSD competes for the same Reserve. A
  saving of 6 at 75% earns 4 in a year, floored, and a quarter of that, floored,
  for a referrer; the largest accrual is two, so an account is refreshed in one
  step or in two, and the Reserve's 10 do not pay for all of it. One wallet is
  enough: who owns an account is only compared in `close`, and the client has
  one owner for accounts and deployer (see below).
* *indexer*: two branches of a common genesis, three and two blocks deep, one
  with a transaction of every governed action; beside them a block that spends
  what an earlier transaction of the block has spent, one with a transaction of
  a wrong origin, and one whose DAA score does not grow. Manifests are complete,
  cut short, with a singleton twice, with an entry that contradicts the node,
  and with an outpoint tracked twice.
* *wide_arithmetic*: amounts of four digits and a largest integer of 35, little
  more than twice the largest amount as 2^63 is of 2^55, and divisors up to 5
  for the split product, the largest whose square fits. The proofs are for
  every width.
* KPS transfers are bounded away in the lending runs (`KpsAmounts = {}`): the
  equity run covers them, and no lending policy reads KPS.

No symmetry is used: wallets are numbers, since sums over them are recursive
functions.

The observers read the state and guard nothing. `MC_Equity` has `past`, what a
wallet has owned during the last DAA units; `MC_Lending` has `warned`, how long a
Position has been challenged; `MC_Governance` has `announced`, the time since the
active proposal was made, `lockedFor`, the time each KPS has been locked, and
`recast`, whether its delegate has written another weight since.
`MC_Savings` has `proposedFor` and, of each account, how long it has been open,
the terms voted when the Controller opened it, or given by the wallet that made
it, and the term it was paid for.

### Fairness

`FairSpec` of `Lending` assumes that time passes and that `init`, `activate` or
`backstop` happens if it stays possible. None of the three asks for a signature,
so a transaction is valid whoever sends it, and the challenger (deposit and
reward) or KPS holders gain by sending it. Weak fairness is enough because nobody
can make them impossible except by resolving the challenge. Nothing is assumed
of owners, buyers and bidders. `AuctionResolves` lets a state where the Reserve
cannot pay excuse the Auction, since redemptions may drain it: that is what
`docs/ECONOMICS.md` promises, and no more. It also excuses an Auction whose
snapshot breaks `assigned <= debt`, which is the subject of `lending_rounding`.

`GovernanceFairness` assumes that time passes and that `activate` and
`cancel_expired` happen if they stay possible. Neither asks for a signature,
and the proposer, who wants the deposit, or the next proposer, who wants the
singleton, gains by sending them. `SavingsFairness` assumes the same of
`ActivateSeries` and `CancelSeries`. No fairness is assumed of execution, veto,
or of anything a saver does. The Indexer has no liveness property: its callers
promise none.

## 4. Findings

Five statements of the repository are refuted by a run:

1. *Assigned reserve above the debt* (`position.sil:161`, run
   `lending_rounding`). Each partial repayment burns a floored share of the
   assigned reserve. With a 50% contribution, a debt of 4 and assigned 2, three
   repayments of 1 burn none of it: debt 1, assigned 2. From there `repay`,
   `settle` and `backstop` are all refused by their assertions.
2. *Orphaned reserve* (`equity-reserve.sil:242`, run `equity_orphan`).
   `collect_fee` is accepted when no KPS exists. The Reserve then holds KUSD
   without shares, which `src/equity.rs:19` calls forbidden and which
   `initialize` and `deposit` refuse ever after.
3. *Cancellation before the end of the window* (`governance.sil:144`, run
   `governance_cancel`). `docs/GOVERNANCE.md:16` lets anyone cancel after
   expiration. Governance's `cancel_expired` leaves the age to the Proposal,
   and the Proposal accepts it through `executePolicy`, which asks for none.
4. *KPS released to another wallet* (`kps.sil:116`, run `governance_unlock`).
   The comment above `unlockDelegationPolicy` says that the owner signs
   `unlockPolicy` and that KPS enforces the beneficiary, and
   `docs/GOVERNANCE.md:25-26` that the owner can recover delegated KPS and a
   delegate can only veto. KPS asks that the delegation is spent, by whichever
   policy, and takes its owner from an argument it compares with no input. A
   delegation that matures, which needs no signature, beside another KPS UTXO of
   the same amount therefore goes on without the KPS it owned. The run does it
   in five states.
5. *An account that cannot be closed* (`savings-account.sil:157`, run
   `savings_withdraw`). `docs/SAVINGS.md:11` says that `withdraw` returns the
   balance and closes the account. A refresh only wants the Controller spent; if
   the Controller runs `execute_series` there, its total does not grow with the
   account, and `closePolicy` refuses an account larger than the total.

Seen while modelling, with nothing for a run to check:

* `docs/GOVERNANCE.md:14` allows execution "during its execution window", but
  `module-proposal.sil:119` reads no upper bound of the age: an activated
  proposal stays executable until somebody cancels it.
* `module-proposal.sil:3-5`, `src/protocol.rs:1410` ("between 1 and 8
  delegations") and `docs/GOVERNANCE.md:24` ("Veto aggregation") speak of vetoes
  by several delegations. None is accepted: every KPS spent has to be a vote, the
  leading one wants all outputs owned by its own delegation (`kps.sil:63-65`),
  and the Proposal wants one for each delegation (`module-proposal.sil:215-220`).
  One delegation has to reach the threshold (`KpsRenewed`).
* `kps-delegation.sil:90` says that voting preserves the lock and its exact
  weight. Where no Proposal counts the vote, the delegation's successor is not
  checked and may have another owner, delegate and weight (`CastUncounted`);
  `WeightEarned` says what remains true.
* `docs/SAVINGS.md:3-4` says that Savings is enabled only by its Governor and
  that each series fixes the rate. An Account that a wallet made, with a rate of
  its choice, is refreshed and closed as an opened one is, whether a series was
  executed or not (`CreateAccount`): nothing ties an Account to `open_account`.
  `InterestEarned` therefore compares the interest paid with the terms an
  Account started with, which were voted only if the Controller opened it.
* `docs/SECURITY.md:20` says expiration prevents new Positions;
  `minting-module.sil:148` compares the transaction's lock time, which may lag
  behind the chain, until somebody submits `expire`.
* `docs/SAVINGS.md:15` gives the interest with one division, where
  `savings-account.sil` floors the year's interest first; `docs/SAVINGS.md:4`
  has the series fix the referral, where the depositor chooses it.
* `docs/ECONOMICS.md:71` gives the maximum accrual as "DAA per refresh";
  `maxAccrual` also bounds the DAA claimed over the account's lifetime.
* `minting-module.sil:68-70` says the price check keeps Auction settlement
  executable for every accepted Position. `auction.sil:80` refuses a settlement
  when premium times elapsed exceeds 64 bits; a bidder may then use an earlier
  lock time. The client computes in 128 bits and would build it.

And limits of the client, which the `*Built` properties name as carve-outs:

* `validate` (`protocol.rs:198-240`) wants `module_remaining_mint >= debt`, so
  the successor of a Position that uses up its Module cannot be compiled with
  its own parameters (any larger remainder does, and changes no script), and a
  Position with `assigned > debt` not at all.
* `validate_governance` needs the configured `root_remaining` and `current_daa`;
  with the live ones `activate`, `cancel`, `veto` and `execute` can be refused.
  `GovernanceCalls` uses the configured allocation. The client also holds a
  deployer's Module to Governance's bounds, which the Root does not.
* KPS unlocked for another than its owner, a vote no Proposal counts, and an
  Account the Controller never opened are not built.
* There are no builders for the Governor's `veto_series` and `cancel_expired` in
  Savings, nor for `deposit`, `collect_fee`, `expire` and the Proposal's
  `cancelExpiredPolicy` and `veto` there.
* `SavingsParams.owner` is both the Controller's bootstrap owner and the
  Account's: a saver other than the deployer compiles other templates.

## 5. Proofs

All theorems hold for every number of wallets, Positions, Modules, accounts, fee
and KPS UTXOs, every block tree and manifest, every width of the integers and
all terms within the named assumptions (`EquityAssumption`, `MarketAssumption`,
`LendingAssumption`, `GovernanceAssumption`, `SavingsAssumption`,
`IndexAssumption`, `TransactionAssumption`, `RefusedAssumption`,
`WideAssumption`, and, for the client, `ConfiguredBounds` and
`ConfiguredSavings`). The prover's own library facts and SMT, Zenon and LS4 are
all they rest on.

*EquityMarket.* The inductive invariant is `ReserveInv`: `EquityTypeOK`,
`ReserveBooked` and `SharesBacked`. Types alone are not inductive: `Redeem`
subtracts a payout from `reserveToken`, which stays a natural number only if
the token holds what the Reserve books, and divides by `totalKps`, which is not
zero only if a burned UTXO is one of those it counts. `EquityReserve_proofs`
shows that each action keeps it (the other proof modules use these lemmas) and
that no action dilutes: the floor lemma `floor(x*y/d) * d <= x*y` gives the
inequality between the prices before and after. Theorems: `EquityTyped`,
`EverySharesBacked`, `EveryReserveBooked`, `HoldersNotDiluted`.

*Lending.* The inductive invariant `LendingInv` is `ReserveInv`,
`LendingTypeOK` and, of each Position, `PositionInv`: the challenge copy is
fresh, the assigned token holds `assignedReserve`, and a Position not opened
yet is blank. The copy must be in the invariant because `Settle` and
`Backstop` burn what the *Auction* says and erase what the *Position* says.
`AuctionPaymentCoversFloor` shows that the falling price never goes below the
floor, so the owner's surplus is a natural number.

*Supply by refinement.* Instead of strengthening an invariant about sums, every
step is shown to be a `Mint`, a `Retire` or a stutter of `StableLedger`
(`LedgerImplemented`); each changes supply and total debt alike, so their
difference stays 0 (`SupplyIsOwed`). `Sums_proofs` holds the facts about totals
after one or two updates. `KasIsConserved` and `CollateralStaysLocked` follow
the same way from the actions and `LendingInv`.

*Governance.* The inductive invariant `GovInv` is `ReserveInv`, the types, and:

* `LockedShares`: a locked slot holds KPS, or a new UTXO could land in it;
* `ProposalBacked`, which is inductive only for all its conjuncts together: a
  veto or refund must find the escrow equal to `ProposalFee`;
* `ModuleInv`: `AllocationConserved` and `ModulesFollowProposals` with the two
  facts they need, that slots above `moduleNonce` are blank and that the active
  nonce is not above `proposalNonce`. The blank slots turn the write of
  `create_module` into an addition to the sum, and the nonces make the proposal
  of a new Module differ from those of all earlier ones.

`ValueConserved` is no part of it: each step is shown to keep the two totals
(`ValueKept`), from the lemmas of `Sums_proofs` and from what each Reserve action
keeps. That makes the same steps usable in Savings, where the totals are others.

*Savings.* `SavingsInv` is `GovInv` with the types of the five covenants,
`SeriesBacked`, `TokensSaved` (each Account's KUSD is what it books) and
`BlankAccounts` (a closed Account, and a nonce not given yet, is blank). One
lemma per action shows that it keeps the invariant and the two totals `HeldKusd`
and `HeldKas`, for every policy of the Controller and every end of a proposal it
may be paired with; steps of delegations, Reserve and clock are cited from
`Governance_proofs`.

*Time.* Six theorems are about observers, and each needs an invariant that says
how the observer and the ages of the UTXOs move together:

* `HoldingPeriodIsRespected`: what a wallet owns at age k is no more than each of
  its last k totals. Transactions only make UTXOs of age 0, so a sum over old
  UTXOs never grows (`SumMonotone`), and a tick shifts both sides by one.
* `OwnerIsWarned`: a Challenge's age is not above `warned`, an Auction's age plus
  the whole challenge period is not; `activate` resets the age only when it has
  reached that period.
* `WeightIsEarned`: weight times epoch plus age is not above `lockedFor`, which
  `mature` and `veto` keep because the one trades an epoch of age for one of
  weight and the other starts the age again. It holds until `recast`; of a weight
  written by an uncounted vote the invariant keeps that some epoch has passed,
  since `vetoPolicy` wants a weight above zero to begin with.
* `NoticeIsGiven`, `SeriesNoticeIsGiven`: a pending proposal's age is not above
  the time since it was made, and an activated one has had the whole delay.
* `InterestIsEarned`: delay, claimed term and age of an Account fit together into
  the time it has been open. Observers and ages saturate; that the largest age
  covers what any terms allow, votable or a wallet's own, is the assumption that
  closes the case.

*Indexer.* `IndexInv` says that memory and file are each `Sound`: their totals
are those of their entities, at every earlier point as well, and undoing the
journal's entries one by one leads through these points. A rollback derives its
totals anew, so the invariant has to know that every earlier state could be
derived; that the journal's totals lack the Reserve's is then harmless. Theorems:
`TotalsAlwaysCurrent`, `JournalAlwaysUndoes`, and, from a small invariant of its
own, `SavedStaysLive`.

That an index is the ledger of its chain (`IndexAlwaysChain`) is about a sequence
of transactions inside a sequence of blocks, and the invariant `ChainInv` joins
the two. The journal holds first what a history replayed (`HistoryFirst`), then
what the blocks on the list count, then the `Pending` entries of a block that is
being applied or taken back; so a rollback never runs out of entries
(`IndexAlwaysTyped`). Where nothing was replayed, the entities at each place where
a block's count ends are that block's `Ledger`, and a block in progress has made
of the entities it found what its contents make of them (`BlockBegun`). A block
that finishes was `Applicable` throughout, hence accepted by `RefusedAssumption`.
`Ledger` is recursive over the tree of blocks. The DAA score grows from a parent
to its child, so there is a solution up to each score, and any two agree
(`LedgerUpTo`, `LedgersAgree`): `Ledger` satisfies its equation (`LedgerStep`),
which is all the proof uses. An index that was loaded from a
manifest without a history, or by replaying one, is not `BuiltFromGenesis`, and
nothing is claimed of its later blocks but what the other theorems say.

A replayed history (`OneOfEachReplayed`) is held to no chain, but each governed
action in it has the counts of its `Shape`. An action known to create a singleton
creates no more of it than it consumes (`ShapesBalanced`), and what it consumes
was live. The inductive invariant `ReplayInv` adds to `SingletonsKept` that a
replay begins with nothing, so the first transaction may be a deployment. `Orderly`
is the one condition on the history: after the first transaction a singleton is
created only by an action that names it. The code holds a transaction without a
governed action to no shape at all, so without the condition the claim is false.
`TransactionAssumption` says that a transaction has finitely many inputs and
outputs and an action of `GovernanceAction` or none.

*The client.* `ClientAgrees`, `GovernanceClientAgrees` and `SavingsClientAgrees`
compare every accepted transaction with what the builders announce. A builder
first validates its parameters, so each theorem needs an invariant that says the
parameters read from the chain always pass:

* Lending: `BuiltInv` adds `Sized` to `LendingInv`: an active or challenged
  Position is no larger than the terms allow and holds the smallest collateral,
  and a challenged one is indebted. `Contribution`, fees and repayments are the
  same floors on both sides by `SharesExact`.
* Governance: `OfferInv` adds `Offered` to `GovInv`: the active proposal is the
  last one made, so the client, which numbers it by `proposalNonce`, names the
  right one, and its allocation is within the bounds. A veto is compared for its
  one voter, with what the Proposal, the delegation and KPS are each told.
* Savings: `ClientInv` adds `TermsSound` to `SavingsInv`: the Controller's delay
  and largest accrual stay positive, and the active proposal is the last one
  made with terms `validate` lets pass. The halves of a transaction are compared
  separately (`SeriesHalf`, `ControllerHalf`), since any end of a proposal may go
  with any policy of the Controller. `AccountsSound` says of opened Accounts that
  their rate, referral and year are those the client is configured for; wallets'
  own are a carve-out of the property. `InterestIsYield` is the equality of the
  script's interest and the Account's.

A transaction is told from the states before and after it, so each proof also
shows that no other action looks like it (`PositionMoves` of Lending, and
`AccountUntouched`, `SeriesIdle` and their like).

*Arithmetic.* For the long division, quotient times d plus remainder is the
product of y with the digits of x taken so far, and the remainder stays below d;
with these nothing exceeds `MaxInt` unless the result does (`ProductsExact`,
`WideTyped`). For the split product the invariant is the distributive law.
`SharesExact`, among the lemmas about quotients in `Sums_proofs`, does the same
for `mulPpm`.

### Only model-checked

* `ChallengeProceeds`, `AuctionResolves`, `ProposalConcludes` and
  `SeriesConcludes`: liveness under fairness is out of the prover's reach.
All invariants and action properties of the passing runs are theorems.

The recursive functions (`SumTo`, `Successive`, `Ledger`) enter the proofs by the
equations they satisfy, which are lemmas themselves.

## 6. Plan

Done: everything of section 2. The order was lending and the Reserve,
governance, savings, the index, the builders, and the arithmetic below them,
each with its proofs.

What would come next:

1. The output value of the Reserve as a variable of its own, for the policies
   that do not read it (hazard at `equity-reserve.sil:240`).
2. An abstract specification of a proposal (pending, then executed, cancelled
   or vetoed, once) that both `Governance` and `Savings` implement.
3. `HoldersKeepTheirValue` in the composed systems, where interest and lending
   move the Reserve as well.

## 7. Not modelled

* *Scripts*, but for the parameters they fill in. What a resumed run does
  depends on what a node answers to a transaction that it already has, or whose
  inputs are spent, and on its mempool. Neither is in this repository; a model
  would have to invent the answers the property is about.
* *Compilation templates* (`equity-reserve-base.sil`, `muldiv-harness.sil`): the
  first breaks the circular dependency of template hashes and is never deployed,
  the second is a test harness of `mulDivFloor`.
* Signatures, template hashes and covenant ids (taken as what they
  authenticate), serialization, KAS fees and mass, the compiler, argument
  parsing, printing, and the token witnesses of the builders.
* Transactions that spend further tokens of a covenant (hazard at
  `kps-delegation.sil:34`) or create further outputs under an id, and stray KUSD
  sent to an Account's id.

## 8. Running

    tlc -workers 2 -config MC_Lending.cfg MC_Lending
    tlapm Lending_proofs.tla

Each run's module and configuration are in `PROJECT.json`, with the definition
to source map, the hazards and the mutants: changed forms of a definition,
kept beside it, under which the named property fails.
