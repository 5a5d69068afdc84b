----------------------------- MODULE Governance -----------------------------
(***************************************************************************)
(* Who may create MintingModules: RootIssuance with its allocation, the    *)
(* Governance singleton, the ModuleProposal it has in flight, and the      *)
(* delegated KPS that can veto it, on top of the EquityReserve that counts *)
(* KPS and keeps a vetoed proposal's fee.  A transaction spends the UTXOs  *)
(* its operation needs; where the covenants accept more than one pairing   *)
(* of entries on them, so does the action.                                 *)
(*                                                                         *)
(* Delegation s is the one that owns the locked KPS UTXO of slot s.  Of a  *)
(* Module's terms only the allocation is kept: the others are compared     *)
(* with their bounds and copied the same way.                              *)
(***************************************************************************)
EXTENDS EquityReserve, FiniteSets

CONSTANTS
    NumModules,           \* bound: Modules created in a behaviour
    MaxProposals,         \* bound: proposals made in a behaviour
    RootAllocation,       \* KUSD the Root may hand out to Modules
    BootstrapAllocation,  \* of the Module the deployer creates first
    Allocations,          \* allocations authorities and proposers choose
    MinModuleAllocation,
    MaxModuleAllocation,
    VotingDelay,
    ExecutionWindow,
    VetoThresholdPpm,
    ProposalDeposit,      \* sompi
    ProposalFee,          \* KUSD atoms
    WeightEpoch,
    MaxVoteWeight,
    CastWeights,          \* weights delegates write where no Proposal counts them
    InitialKusd,          \* KUSD and KAS each wallet starts with
    InitialKas,
    InitialDeposit        \* wallet 1's first deposit into the Reserve

ModuleSlots == 1..NumModules

ASSUME GovernanceAssumption ==
    /\ NumModules \in Nat \ {0}
    /\ MaxProposals \in Nat
    /\ RootAllocation \in Nat
    /\ BootstrapAllocation \in 1..RootAllocation
    /\ Allocations \subseteq Nat \ {0}
    /\ MinModuleAllocation \in Nat
    /\ MaxModuleAllocation \in Nat
    /\ VotingDelay \in Nat
    /\ ExecutionWindow \in Nat
    /\ VetoThresholdPpm \in 1..PPM
    /\ ProposalDeposit \in Nat
    /\ ProposalFee \in Nat \ {0}
    /\ WeightEpoch \in Nat \ {0}
    /\ MaxVoteWeight \in 1..16
    /\ CastWeights \subseteq 0..MaxVoteWeight
    /\ InitialKusd \in Nat
    /\ InitialKas \in Nat
    /\ InitialDeposit \in Nat \ {0}
    /\ NumShareSlots > 0

VARIABLES
    root,         \* RootIssuance: [remaining, moduleNonce, authority]
    modules,      \* allocation of each Module, and the proposal it came from
    governance,   \* Governance: [proposalNonce, executionNonce, active]
    proposal,     \* the ModuleProposal UTXO, its value being the deposit
    escrow,       \* KUSD the Proposal's covenant id owns
    delegation    \* the KpsDelegation of each locked KPS UTXO

governanceVars == <<root, modules, governance, proposal, escrow, delegation>>
vars == <<equityVars, governanceVars>>

Maximum(a, b) == IF a > b THEN a ELSE b
MaxAge == Maximum(VotingDelay, ExecutionWindow)  \* proposal ages saturate here

RootStates == [remaining : Nat, moduleNonce : 0..NumModules,
               authority : {"key", "governance"}]
ModuleRecords == [allocation : Nat, proposal : 0..MaxProposals]
(* active is 0 for no activeProposalId, else the nonce of that proposal. *)
GovernanceStates == [proposalNonce : 0..MaxProposals, executionNonce : Nat,
                     active : 0..MaxProposals]
ProposalStates == [stage : {"none", "pending", "activated"}, proposer : Users,
                   nonce : 0..MaxProposals, allocation : Nat, deposit : Nat, age : 0..MaxAge]
Delegations == [delegate : Users, weight : 0..MaxVoteWeight, age : 0..WeightEpoch]

NoProposal == [stage |-> "none", proposer |-> 1, nonce |-> 0, allocation |-> 0,
               deposit |-> 0, age |-> 0]
NoDelegation == [delegate |-> 1, weight |-> 0, age |-> 0]
NoModule == [allocation |-> 0, proposal |-> 0]

GovernanceTypeOK ==
    /\ root \in RootStates
    /\ modules \in [ModuleSlots -> ModuleRecords]
    /\ governance \in GovernanceStates
    /\ proposal \in ProposalStates
    /\ escrow \in Nat
    /\ delegation \in [ShareSlots -> Delegations]

(* Types of the Root, of governance and of the Reserve below it. *)
TypeOK == EquityTypeOK /\ GovernanceTypeOK

(* The deployer has initialized the Root and created the first Module, and *)
(* some of the KUSD it minted has become the Reserve's first deposit.      *)
Init ==
    /\ kusd = [u \in Users |-> InitialKusd]
    /\ kas = [u \in Users |-> InitialKas]
    /\ reserve = [initialized |-> TRUE, kusd |-> InitialDeposit, kps |-> InitialDeposit,
                  collateral |-> 0]
    /\ reserveToken = InitialDeposit
    /\ feeToken = [f \in FeeSlots |-> 0]
    /\ shares = [s \in ShareSlots |-> IF s = 1 THEN NewShare(1, InitialDeposit) ELSE NoShare]
    /\ root = [remaining |-> RootAllocation - BootstrapAllocation, moduleNonce |-> 1,
               authority |-> "key"]
    /\ modules = [m \in ModuleSlots |->
                     IF m = 1 THEN [allocation |-> BootstrapAllocation, proposal |-> 0]
                     ELSE NoModule]
    /\ governance = [proposalNonce |-> 0, executionNonce |-> 0, active |-> 0]
    /\ proposal = NoProposal
    /\ escrow = 0
    /\ delegation = [s \in ShareSlots |-> NoDelegation]

-----------------------------------------------------------------------------
(* RootIssuance *)

(* Mutants: the Root forgets what it has handed out, or overdraws it. *)
CreateModuleUnspent(allocation, from) ==
    /\ root.moduleNonce < NumModules
    /\ allocation \in 1..root.remaining
    /\ root' = [root EXCEPT !.moduleNonce = @ + 1]
    /\ modules' = [modules EXCEPT ![root.moduleNonce + 1] =
                      [allocation |-> allocation, proposal |-> from]]

CreateModuleOverdrawing(allocation, from) ==
    /\ root.moduleNonce < NumModules
    /\ allocation > 0
    /\ root' = [root EXCEPT !.moduleNonce = @ + 1, !.remaining = @ - allocation]
    /\ modules' = [modules EXCEPT ![root.moduleNonce + 1] =
                      [allocation |-> allocation, proposal |-> from]]

(* create_module: the Module's capacity is taken from the Root's. *)
CreateModule(allocation, from) ==
    /\ root.moduleNonce < NumModules
    /\ allocation \in 1..root.remaining
    /\ root' = [root EXCEPT !.moduleNonce = @ + 1, !.remaining = @ - allocation]
    /\ modules' = [modules EXCEPT ![root.moduleNonce + 1] =
                      [allocation |-> allocation, proposal |-> from]]

(* The deployer's key may create Modules and hand its authority over. *)
CreateModuleByKey(allocation) ==
    /\ root.authority = "key"
    /\ CreateModule(allocation, 0)
    /\ UNCHANGED <<equityVars, governance, proposal, escrow, delegation>>

(* Passing the key to another key changes nothing here. *)
Handover ==
    /\ root.authority = "key"
    /\ root' = [root EXCEPT !.authority = "governance"]
    /\ UNCHANGED <<equityVars, modules, governance, proposal, escrow, delegation>>

-----------------------------------------------------------------------------
(* Governance and ModuleProposal *)

(* propose_module: the proposer pays deposit and fee into the Proposal. *)
ProposeModule(u, allocation) ==
    /\ governance.active = 0
    /\ governance.proposalNonce < MaxProposals
    /\ allocation >= MinModuleAllocation /\ allocation <= MaxModuleAllocation
    /\ ProposalFee <= kusd[u]
    /\ ProposalDeposit <= kas[u]
    /\ governance' = [governance EXCEPT !.proposalNonce = @ + 1,
                                        !.active = governance.proposalNonce + 1]
    /\ proposal' = [stage |-> "pending", proposer |-> u,
                    nonce |-> governance.proposalNonce + 1, allocation |-> allocation,
                    deposit |-> ProposalDeposit, age |-> 0]
    /\ escrow' = ProposalFee
    /\ kusd' = Debit(kusd, u, ProposalFee)
    /\ kas' = Debit(kas, u, ProposalDeposit)
    /\ UNCHANGED <<reserve, reserveToken, feeToken, shares, root, modules, delegation>>

(* Mutant: no voting delay. *)
ActivateProposalEarly ==
    /\ proposal.stage = "pending"
    /\ proposal' = [proposal EXCEPT !.stage = "activated", !.age = 0]
    /\ UNCHANGED <<equityVars, root, modules, governance, escrow, delegation>>

(* activate: after the voting delay anyone ends the time for a veto. *)
ActivateProposal ==
    /\ proposal.stage = "pending"
    /\ proposal.age >= VotingDelay
    /\ proposal' = [proposal EXCEPT !.stage = "activated", !.age = 0]
    /\ UNCHANGED <<equityVars, root, modules, governance, escrow, delegation>>

(* Mutant: both entries want the window to be open. *)
AcceptsInWindow(entry) == proposal.stage = "activated" /\ proposal.age < ExecutionWindow

(* The Proposal's entries that return the fee: both want it activated, and *)
(* cancelExpiredPolicy also the end of its window.  Neither knows which    *)
(* policy of Governance it is spent with.                                  *)
RefundEntries == {"executePolicy", "cancelExpiredPolicy"}
Accepts(entry) ==
    /\ proposal.stage = "activated"
    /\ entry = "cancelExpiredPolicy" => proposal.age >= ExecutionWindow

(* Every policy of Governance that ends a Proposal finds it by its id. *)
ActiveProposalSpent == governance.active # 0 /\ governance.active = proposal.nonce

(* The deposit, and but for a veto the fee, return to the proposer. *)
RefundDeposit ==
    /\ proposal' = NoProposal
    /\ kas' = Credit(kas, proposal.proposer, proposal.deposit)
RefundFee ==
    /\ escrow = ProposalFee
    /\ escrow' = 0
    /\ kusd' = Credit(kusd, proposal.proposer, escrow)

(* After the handover the Root wants the activated Proposal that Governance *)
(* names, and a Module with its terms.                                     *)
AuthorizedByProposal == root.authority = "governance" /\ proposal.stage = "activated"

(* Mutant: the Governance successor still names the executed proposal. *)
ExecuteModuleKeepingActive(entry) ==
    /\ AuthorizedByProposal
    /\ ActiveProposalSpent
    /\ Accepts(entry)
    /\ CreateModule(proposal.allocation, proposal.nonce)
    /\ governance' = [governance EXCEPT !.executionNonce = @ + 1]
    /\ UNCHANGED <<equityVars, proposal, escrow, delegation>>

(* execute_module with the Root's create_module. *)
ExecuteModule(entry) ==
    /\ AuthorizedByProposal
    /\ ActiveProposalSpent
    /\ Accepts(entry)
    /\ CreateModule(proposal.allocation, proposal.nonce)
    /\ governance' = [governance EXCEPT !.executionNonce = @ + 1, !.active = 0]
    /\ RefundDeposit
    /\ RefundFee
    /\ UNCHANGED <<reserve, reserveToken, feeToken, shares, delegation>>

(* Mutant: Governance does not let go of a cancelled proposal. *)
CancelExpiredKeepingActive(entry) ==
    /\ ActiveProposalSpent
    /\ Accepts(entry)
    /\ RefundDeposit
    /\ RefundFee
    /\ UNCHANGED <<reserve, reserveToken, feeToken, shares, root, modules, governance, delegation>>

(* cancel_expired, which looks at neither the age nor the entry. *)
CancelExpired(entry) ==
    /\ ActiveProposalSpent
    /\ Accepts(entry)
    /\ governance' = [governance EXCEPT !.active = 0]
    /\ RefundDeposit
    /\ RefundFee
    /\ UNCHANGED <<reserve, reserveToken, feeToken, shares, root, modules, delegation>>

MaxVoters == 8

Votes(voters) ==
    SumTo([s \in ShareSlots |->
              IF s \in voters THEN shares[s].amount * delegation[s].weight ELSE 0],
          NumShareSlots)

(* The threshold's part of the weight all KPS could have, rounded up. *)
RequiredVotes(thresholdPpm) ==
    LET weighted == reserve.kps * MaxVoteWeight
        remainder == (weighted % PPM) * thresholdPpm
    IN  MulPpm(weighted, thresholdPpm) + (IF remainder % PPM # 0 THEN 1 ELSE 0)

(* The Proposal's half of a veto: at most eight locked UTXOs, each spent   *)
(* with its delegation and created again for it, together of enough votes. *)
VetoCarries(voters, thresholdPpm) ==
    /\ reserve.kps > 0
    /\ voters # {} /\ Cardinality(voters) <= MaxVoters
    /\ \A s \in voters : shares[s].locked /\ delegation[s].weight > 0
    /\ Votes(voters) >= RequiredVotes(thresholdPpm)

(* The half of KPS: those spent as delegates have their minimum age, and   *)
(* the leading one, owned by a covenant, wants every output owned by that  *)
(* same covenant.  The Proposal wants one for each delegation.             *)
KpsRenewed(voters) ==
    \E leader \in voters :
        /\ \A s \in voters \ {leader} : shares[s].age >= MinimumHoldingDaa
        /\ \A s \in voters : s = leader

(* What was spent to vote is created again as it was. *)
CastVotes(voters) ==
    /\ RenewShares(voters)
    /\ delegation' = [s \in ShareSlots |->
                         IF s \in voters THEN [delegation[s] EXCEPT !.age = 0] ELSE delegation[s]]

(* Mutant: the proposer gets the fee back as well. *)
VetoModuleRefundingFee(voters) ==
    /\ ActiveProposalSpent
    /\ proposal.stage = "pending"
    /\ VetoCarries(voters, VetoThresholdPpm)
    /\ KpsRenewed(voters)
    /\ CollectProposalFee(escrow)
    /\ RefundFee
    /\ governance' = [governance EXCEPT !.active = 0]
    /\ RefundDeposit
    /\ CastVotes(voters)
    /\ UNCHANGED <<feeToken, root, modules>>

(* veto: before activation, a delegate of enough weight ends the proposal; *)
(* its fee is the Reserve's.                                               *)
VetoModule(voters) ==
    /\ ActiveProposalSpent
    /\ proposal.stage = "pending"
    /\ VetoCarries(voters, VetoThresholdPpm)
    /\ KpsRenewed(voters)
    /\ escrow = ProposalFee
    /\ CollectProposalFee(escrow)
    /\ escrow' = 0
    /\ governance' = [governance EXCEPT !.active = 0]
    /\ RefundDeposit
    /\ CastVotes(voters)
    /\ UNCHANGED <<kusd, feeToken, root, modules>>

-----------------------------------------------------------------------------
(* KpsDelegation *)

(* lock: the delegation starts without weight. *)
LockDelegation(s, v) ==
    /\ LockShare(s)
    /\ delegation' = [delegation EXCEPT ![s] = [delegate |-> v, weight |-> 0, age |-> 0]]
    /\ UNCHANGED <<kusd, kas, reserve, reserveToken, feeToken, root, modules, governance,
                   proposal, escrow>>

(* unlock: the owner's signature ends the delegation, and its weight.  KPS *)
(* lets the KPS go to any wallet, here one the owner agrees to.            *)
UnlockDelegation(s, to) ==
    /\ UnlockShare(s, to)
    /\ delegation' = [delegation EXCEPT ![s] = NoDelegation]
    /\ UNCHANGED <<kusd, kas, reserve, reserveToken, feeToken, root, modules, governance,
                   proposal, escrow>>

(* The delegation of s goes on as `owner` and `next`, with its KPS. *)
Continued(s, owner, next, kept) ==
    /\ KeepShare(s, owner, kept)
    /\ delegation' = [delegation EXCEPT ![s] = next]
    /\ UNCHANGED <<kusd, kas, reserve, reserveToken, feeToken, root, modules, governance,
                   proposal, escrow>>

MatureDue(s) == delegation[s].weight < MaxVoteWeight /\ delegation[s].age >= WeightEpoch

(* Mutant: the delegation keeps its age. *)
MatureKeepingAge(s, kept) ==
    /\ MatureDue(s)
    /\ Continued(s, shares[s].owner, [delegation[s] EXCEPT !.weight = @ + 1], kept)

(* mature: one step of weight for each epoch, without a signature. *)
Mature(s, kept) ==
    /\ MatureDue(s)
    /\ Continued(s, shares[s].owner, [delegation[s] EXCEPT !.weight = @ + 1, !.age = 0], kept)

(* redelegate: the owner names another delegate, who inherits the weight. *)
Redelegate(s, v, kept) ==
    /\ v # delegation[s].delegate
    /\ Continued(s, shares[s].owner, [delegation[s] EXCEPT !.delegate = v, !.age = 0], kept)

(* The delegate's vetoPolicy where no Proposal counts the vote: any one    *)
(* covenant serves as the proposal, and nextState is compared with the     *)
(* delegation, not with the successor created, which may be another.       *)
CastUncounted(s, owner, v, weight, kept) ==
    /\ delegation[s].weight > 0
    /\ Continued(s, owner, [delegate |-> v, weight |-> weight, age |-> 0], kept)

(* The delegation goes on without its KPS: unlockDelegationPolicy asks     *)
(* that it is spent, by whichever policy, of which mature needs no         *)
(* signature, veto the delegate's and redelegate the owner's.  It is then  *)
(* forgotten: no KPS can be locked to it again (lock wants weight 0, and   *)
(* no second KPS UTXO), and without KPS it has no vote.                    *)
DelegationPolicies == {"mature", "veto", "redelegate"}
ReleaseKps(s, policy, kept, to) ==
    /\ policy = "mature" => MatureDue(s)
    /\ policy = "veto" => delegation[s].weight > 0
    /\ ReleaseShare(s, kept, to)
    /\ delegation' = [delegation EXCEPT ![s] = NoDelegation]
    /\ UNCHANGED <<kusd, kas, reserve, reserveToken, feeToken, root, modules, governance,
                   proposal, escrow>>

-----------------------------------------------------------------------------

Tick ==
    /\ AgeShares
    /\ proposal' = [proposal EXCEPT !.age = IF proposal.stage # "none" /\ @ < MaxAge
                                            THEN @ + 1 ELSE @]
    /\ delegation' = [s \in ShareSlots |->
           [delegation[s] EXCEPT !.age = IF shares[s].locked /\ @ < WeightEpoch
                                         THEN @ + 1 ELSE @]]
    /\ UNCHANGED <<kusd, kas, reserve, reserveToken, feeToken, root, modules, governance, escrow>>

RootStep == (\E a \in Allocations : CreateModuleByKey(a)) \/ Handover

CancelStep == \E entry \in RefundEntries : CancelExpired(entry)

ProposalStep ==
    \/ \E u \in Users, a \in Allocations : ProposeModule(u, a)
    \/ ActivateProposal
    \/ \E entry \in RefundEntries : ExecuteModule(entry)
    \/ CancelStep
    \/ \E voters \in SUBSET ShareSlots : VetoModule(voters)

DelegationStep ==
    \/ \E s \in ShareSlots, v \in Users : LockDelegation(s, v) \/ UnlockDelegation(s, v)
    \/ \E s, kept \in ShareSlots :
          \/ Mature(s, kept)
          \/ \E v \in Users : Redelegate(s, v, kept)
          \/ \E owner, v \in Users, weight \in CastWeights : CastUncounted(s, owner, v, weight, kept)
          \/ \E policy \in DelegationPolicies, to \in Users : ReleaseKps(s, policy, kept, to)

Next ==
    \/ Tick
    \/ RootStep
    \/ ProposalStep
    \/ DelegationStep
    \/ ReserveStep /\ UNCHANGED governanceVars
    \/ TokenStep /\ UNCHANGED governanceVars

Spec == Init /\ [][Next]_vars

(* activate and cancel need no signature, and whoever wants to propose     *)
(* next, or the proposer who wants the deposit back, sends them.           *)
GovernanceFairness == WF_vars(Tick) /\ WF_vars(ActivateProposal) /\ WF_vars(CancelStep)

-----------------------------------------------------------------------------
(* Properties *)

Handed(f) == SumTo([m \in ModuleSlots |-> f[m].allocation], NumModules)

(* What the Root has handed out to Modules and what it may still hand out  *)
(* are its initial allocation, whoever holds its authority: no sequence of *)
(* keys, proposals and executions lets the Modules mint more.              *)
AllocationConserved == root.remaining + Handed(modules) = RootAllocation

(* Governance names a proposal exactly while that ModuleProposal exists    *)
(* with its whole deposit and fee.  Three covenants keep this together: a  *)
(* name without a UTXO would block every later proposal, a UTXO without    *)
(* its name or its fee could never be spent.                               *)
ProposalBacked ==
    IF governance.active = 0
    THEN proposal = NoProposal /\ escrow = 0
    ELSE /\ proposal.stage # "none"
         /\ proposal.nonce = governance.active
         /\ proposal.deposit = ProposalDeposit
         /\ escrow = ProposalFee

Governed == {m \in 1..root.moduleNonce : modules[m].proposal # 0}

(* A proposal creates one Module at most, and only a proposal that was     *)
(* made and is over: no two Modules come from one, none from the active.   *)
ModulesFollowProposals ==
    /\ Cardinality(Governed) = governance.executionNonce
    /\ \A m \in Governed : modules[m].proposal <= governance.proposalNonce
    /\ \A m \in Governed : modules[m].proposal # governance.active
    /\ \A m, n \in Governed : modules[m].proposal = modules[n].proposal => m = n

(* Proposing, executing, cancelling and vetoing move KUSD and KAS between  *)
(* wallets, escrow and Reserve; none of them pays a fee or deposit twice   *)
(* or strands it.                                                          *)
ValueConserved ==
    /\ SumTo(kusd, NumUsers) + SumTo(feeToken, NumFeeSlots) + reserveToken + escrow
           = NumUsers * InitialKusd + InitialDeposit
    /\ SumTo(kas, NumUsers) + reserve.collateral + proposal.deposit = NumUsers * InitialKas

(* kps.sil: "Its owner signs unlockPolicy; KPS enforces the beneficiary",  *)
(* and docs/GOVERNANCE.md: a delegate can only exercise veto.  Without the *)
(* owner's signature, which mature and veto do not need, KPS leaves its    *)
(* delegation for nobody but the owner.                                    *)
LockedKpsReturns ==
    [][\A s, kept \in ShareSlots, to \in Users :
           ReleaseKps(s, "mature", kept, to) \/ ReleaseKps(s, "veto", kept, to) =>
               to = shares[s].owner]_vars

(* docs/GOVERNANCE.md, step 6: after expiration anyone may cancel it.  An  *)
(* activated proposal that ends without its Module has had its window.     *)
CancelledAfterWindow ==
    [][proposal.stage = "activated" /\ proposal'.stage = "none"
           /\ governance'.executionNonce = governance.executionNonce =>
       proposal.age >= ExecutionWindow]_vars

(* Whatever proposers, delegates and authorities do, the active proposal   *)
(* ends and the next one can be made.                                      *)
ProposalConcludes == governance.active # 0 ~> governance.active = 0
=============================================================================
